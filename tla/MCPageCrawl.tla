---------------------------- MODULE MCPageCrawl ----------------------------
(* Crawls that follow one another in one page, for TLC.                    *)
EXTENDS PageCrawl
=============================================================================
