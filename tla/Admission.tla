------------------------------ MODULE Admission ------------------------------
(***************************************************************************)
(* From a raw fetch frame to a crawl: parse_fetch_frame (fetch_spec.py),   *)
(* the URL check and the private-host guard (urls.py) with the lookup that *)
(* _handle_fetch awaits (gateway.py), and the proxy options of the launch  *)
(* that serves the job (proxy.py).                                         *)
(*                                                                         *)
(* Texts are abstracted to what the code tells apart.  A host is an IPv6   *)
(* literal, as its eight groups, or dotted parts: a part is a number, as   *)
(* its digits to the base 256 and in whatever radix it was written, or a   *)
(* word.  Percent encoding is the number of times the host is encoded,     *)
(* `dots` that of the dots behind it.  The resolver is external.           *)
(*                                                                         *)
(* A URL has two hosts.  `host` is the one the worker reads, with urlsplit *)
(* and, in the guard, NFKC and casefold (urls.py:55-56, 199-200); `dialed` *)
(* is the one the browser reads in the URL it is given, which is built     *)
(* from the original text (urls.py:72), with the WHATWG parser and its     *)
(* UTS46 mapping, which are external.  Nothing in the code makes them the  *)
(* same: the properties of the guard speak of URLs that both read alike.   *)
(***************************************************************************)
EXTENDS Integers, Sequences

CONSTANTS Frames,    \* raw frames the gateway may send
          Proxies,   \* values of PROXY_URL
          Answers    \* sets of addresses a name may resolve to; {}: the lookup fails

(* An IPv4 address is its four octets, an IPv6 address its eight groups.   *)
Octet == {n \in Nat : n < 256}
Group == {n \in Nat : n < 65536}
IPv4 == {ip \in Seq(Octet) : Len(ip) = 4}
IPv6 == {ip \in Seq(Group) : Len(ip) = 8}

(* What a host, a wait rule and a frame are made of, before anything of it *)
(* was checked.                                                            *)
IsHost(host) == /\ host.groups \in {<<>>} \cup IPv6
                /\ host.parts \in Seq([word : STRING, digits : Seq(Octet)])
                /\ host.encoded \in Nat

Rules == Seq([object : BOOLEAN, guard : STRING, target : STRING])

ASSUME AdmissionAssumption ==
  /\ \A m \in Frames : /\ IsHost(m.url.host) /\ IsHost(m.url.dialed)
                        /\ m.settleMs.halves \in Int /\ m.detectMs.halves \in Int
                        /\ m.waitRules \in Rules
  /\ \A answer \in Answers : answer \subseteq IPv4 \cup IPv6

VARIABLES
  msg,     \* the frame
  proxy,   \* PROXY_URL
  stage,   \* "received", "parsed", "checked", "admitted", "crawling"; or the
           \* ends "dropped" (no answer), "refused" (an error is answered),
           \* "failed" (so is the error of the launch)
  job,     \* the parsed frame
  names,   \* what the worker's host resolves to while the job is admitted
  via      \* the proxy options the browser was launched with

vars == <<msg, proxy, names, stage, job, via>>

NoJob == [jobId |-> ""]
NoProxy == [url |-> FALSE]
Direct == [server |-> <<>>, username |-> "absent", password |-> "absent"]

Init == /\ msg \in Frames /\ proxy \in Proxies /\ names \in Answers
        /\ stage = "received" /\ job = NoJob /\ via = Direct

-----------------------------------------------------------------------------
(* The frame.  "absent" is a field that is missing or not a string.        *)

IsText(t) == t \notin {"absent", ""}

(* Mutant of _positive_int: negative numbers pass.                         *)
SignKept(value) == IF value.finite THEN value.halves \div 2 ELSE 0

(* A JSON value as a number: `halves` halves if it is a finite one and not *)
(* a boolean.                                                              *)
_positive_int(value) == IF value.finite /\ value.halves > 0 THEN value.halves \div 2 ELSE 0

HasGuard(rule) == rule.object /\ IsText(rule.guard)
Kept(rule) == [guard |-> rule.guard,
               then |-> IF rule.target = "absent" THEN "" ELSE rule.target]

(* rules[n]: what is kept of the first n rules.                            *)
WaitRules(raw) ==
  LET rules[n \in 0..Len(raw)] ==
        IF n = 0 THEN <<>>
        ELSE IF HasGuard(raw[n]) THEN Append(rules[n - 1], Kept(raw[n]))
        ELSE rules[n - 1]
  IN rules[Len(raw)]

parse_fetch_frame(m) ==
  IF ~m.object \/ ~IsText(m.jobId) \/ ~IsText(m.url.text) THEN NoJob
  ELSE [jobId |-> m.jobId, url |-> m.url,
        waitFor |-> IF IsText(m.waitFor) THEN m.waitFor ELSE "stable",
        settleMs |-> _positive_int(m.settleMs), detectMs |-> _positive_int(m.detectMs),
        waitRules |-> WaitRules(m.waitRules)]

-----------------------------------------------------------------------------
(* Hosts and addresses.                                                    *)

IsNumber(part) == part.digits # <<>>
NoAddress == <<>>

(* One to four parts, of which the last one fills the octets that are left. *)
as_ipv4(parts) ==
  LET n == Len(parts)
      last == parts[n].digits
  IN IF \/ n \notin 1..4
        \/ \E k \in 1..n : ~IsNumber(parts[k])
        \/ \E k \in 1..(n - 1) : Len(parts[k].digits) > 1
        \/ Len(last) > 5 - n
     THEN NoAddress
     ELSE [k \in 1..(n - 1) |-> parts[k].digits[1]]
            \o [k \in 1..(5 - n - Len(last)) |-> 0] \o last

(* Mutant of PrivateIPv4: the block 172.16/12 has no end.                  *)
OpenEnded(ip) ==
  LET a == ip[1]  b == ip[2]
  IN \/ a \in {0, 10, 127}
     \/ a = 100 /\ 64 <= b /\ b <= 127
     \/ a = 169 /\ b = 254
     \/ a = 172 /\ 16 <= b
     \/ a = 192 /\ b = 168

PrivateIPv4(ip) ==
  LET a == ip[1]  b == ip[2]
  IN \/ a \in {0, 10, 127}
     \/ a = 100 /\ 64 <= b /\ b <= 127
     \/ a = 169 /\ b = 254
     \/ a = 172 /\ 16 <= b /\ b <= 31
     \/ a = 192 /\ b = 168

Embedded(ip) == <<ip[7] \div 256, ip[7] % 256, ip[8] \div 256, ip[8] % 256>>
Zeros(ip, n) == \A k \in 1..n : ip[k] = 0

(* fe80::/10 and fc00::/7.                                                 *)
LocalIPv6(ip) == ip[1] \div 64 = 1018 \/ ip[1] \div 512 = 126

is_private_ip(ip) ==
  IF Len(ip) = 4 THEN PrivateIPv4(ip)
  ELSE IF Zeros(ip, 5) /\ ip[6] = 65535 THEN PrivateIPv4(Embedded(ip))
  ELSE IF Zeros(ip, 7) /\ ip[8] \in {0, 1} THEN TRUE
  ELSE IF Zeros(ip, 6) THEN PrivateIPv4(Embedded(ip))
  ELSE LocalIPv6(ip)

(* Three rounds of decoding, each with its NFKC and casefold, of the text  *)
(* that urlsplit took for the host; what is still encoded is a word.       *)
_normalize_host(host) ==
  IF host.encoded > 3 THEN [groups |-> <<>>, parts |-> <<[word |-> "%", digits |-> <<>>]>>]
  ELSE [groups |-> host.groups, parts |-> host.parts]

IsLocalhost(parts) == parts # <<>> /\ parts[Len(parts)].word = "localhost"

_is_private_host(host) ==
  LET h == _normalize_host(host)
  IN IF h.groups # <<>> THEN is_private_ip(h.groups)
     ELSE \/ IsLocalhost(h.parts)
          \/ as_ipv4(h.parts) # NoAddress /\ is_private_ip(as_ipv4(h.parts))

(* check_url(block_private=True): a URL without a scheme is an https one.  *)
(* The href that goes on has the host as it was written.                   *)
Usable(url) ==
  /\ url.text = "url"                          \* not blank, forbidden or unparsable
  /\ url.scheme \in {"none", "http", "https"}
  /\ url.host.parts # <<>> \/ url.host.groups # <<>> \/ url.host.dots > 0

check_url(url) == Usable(url) /\ ~_is_private_host(url.host)

(* Mutant of NeedsLookup: numbers in a name pass for a literal.            *)
AnyNumberIsLiteral(host) ==
  LET h == _normalize_host(host)
  IN h.groups = <<>> /\ h.parts # <<>> /\ \A k \in DOMAIN h.parts : ~IsNumber(h.parts[k])

(* Literals are screened already, and what is left of dots only is nothing. *)
NeedsLookup(host) ==
  LET h == _normalize_host(host)
  IN h.groups = <<>> /\ h.parts # <<>> /\ as_ipv4(h.parts) = NoAddress

-----------------------------------------------------------------------------
(* The proxy.                                                              *)

PROXY_SCHEMES == {"http", "https", "socks5"}

(* What urlsplit finds in PROXY_URL; `port` is "bad" if it is no port and  *)
(* "none" if there is none, `rest` a path, query or fragment.  The session *)
(* id was put in before (BrowserManager).                                  *)
ProxyValid(url) == /\ url.port \notin {"bad", "none"}
                   /\ url.scheme \in PROXY_SCHEMES
                   /\ url.host # "" /\ ~url.rest

(* An empty user name is left out, an empty password is not.               *)
build_proxy_options(url) ==
  [server |-> <<url.scheme, url.host, url.port>>,
   username |-> IF url.user = "" THEN "absent" ELSE url.user,
   password |-> url.password]

-----------------------------------------------------------------------------
Parse ==
  /\ stage = "received"
  /\ job' = parse_fetch_frame(msg)
  /\ stage' = IF job' = NoJob THEN "dropped" ELSE "parsed"
  /\ UNCHANGED <<msg, proxy, names, via>>

CheckUrl ==
  /\ stage = "parsed"
  /\ stage' = IF check_url(job.url) THEN "checked" ELSE "refused"
  /\ UNCHANGED <<msg, proxy, names, job, via>>

NoLookup ==
  /\ stage = "checked" /\ ~NeedsLookup(job.url.host)
  /\ stage' = "admitted"
  /\ UNCHANGED <<msg, proxy, names, job, via>>

Screened(addresses) == \E a \in addresses : is_private_ip(a)

(* resolves_to_private: one private address refuses the job; a name that   *)
(* does not resolve goes on, and fails in the browser.                     *)
Lookup ==
  /\ stage = "checked" /\ NeedsLookup(job.url.host)
  /\ stage' = IF Screened(names) THEN "refused" ELSE "admitted"
  /\ UNCHANGED <<msg, proxy, names, job, via>>

(* The launch the job needs, or the one that is there: PROXY_URL is read   *)
(* anew by each launch and is the same for all.                            *)
Launch ==
  /\ stage = "admitted"
  /\ \/ proxy = NoProxy /\ stage' = "crawling" /\ via' = Direct
     \/ /\ proxy # NoProxy /\ ProxyValid(proxy)
        /\ stage' = "crawling" /\ via' = build_proxy_options(proxy)
     \/ /\ proxy # NoProxy /\ ~ProxyValid(proxy)
        /\ stage' = "failed" /\ UNCHANGED via
  /\ UNCHANGED <<msg, proxy, names, job>>

Next == Parse \/ CheckUrl \/ NoLookup \/ Lookup \/ Launch

Spec == Init /\ [][Next]_vars

-----------------------------------------------------------------------------
(* What the crawl takes a job to be once the frame is parsed: its times    *)
(* are naturals, it waits for something, and its rules are those that have *)
(* a guard, whatever stands between them, in the order of the frame, which *)
(* is that of their precedence (browser.py:674-679).                       *)
Guarding(raw) == {i \in DOMAIN raw : raw[i].object /\ raw[i].guard \notin {"absent", ""}}

(* at[k] is where the k-th rule that was kept stood.                       *)
InOrder(rules, raw) ==
  \E at \in [DOMAIN rules -> DOMAIN raw] :
    /\ \A j, k \in DOMAIN rules : j < k => at[j] < at[k]
    /\ \A k \in DOMAIN rules : rules[k].guard = raw[at[k]].guard
    /\ Guarding(raw) = {at[k] : k \in DOMAIN rules}

JobOK == job # NoJob =>
  /\ job.settleMs \in Nat /\ job.detectMs \in Nat
  /\ IsText(job.waitFor)
  /\ InOrder(job.waitRules, msg.waitRules)

(* What the guard is measured by: the networks it names, as prefixes of an *)
(* address, and what a host is to a browser.                               *)

Prefix16(ip) == ip[1] * 256 + ip[2]

(* 0/8, 10/8, 127/8, 100.64/10, 169.254/16, 172.16/12 and 192.168/16, each *)
(* by its first 16 bits and how many values of these it has.               *)
Networks4 == {<<0, 256>>, <<2560, 256>>, <<32512, 256>>, <<25664, 64>>, <<43518, 1>>,
              <<44048, 16>>, <<49320, 1>>}
(* fe80::/10 and fc00::/7.                                                 *)
Networks6 == {<<65152, 64>>, <<64512, 512>>}

InNetwork(prefix, net) == net[1] <= prefix /\ prefix < net[1] + net[2]

Private4(ip) == \E net \in Networks4 : InNetwork(Prefix16(ip), net)

(* ::/96 holds the unspecified and the loopback address, and IPv4 ones;    *)
(* ::ffff:0:0/96 holds IPv4 addresses.                                     *)
Private(ip) ==
  IF Len(ip) = 4 THEN Private4(ip)
  ELSE IF \A k \in 1..5 : ip[k] = 0
       THEN ip[6] \in {0, 65535} /\ Private4(Embedded(ip))
       ELSE \E net \in Networks6 : InNetwork(ip[1], net)

(* The parts spell an address: each but the last is one of its octets, the *)
(* last one, with zeros in front, all the others.                          *)
Spells(parts, ip) ==
  LET n == Len(parts)
      last == parts[n].digits
  IN /\ n \in 1..4
     /\ \A k \in 1..(n - 1) : parts[k].digits = <<ip[k]>>
     /\ last # <<>> /\ Len(last) <= 5 - n
     /\ \A k \in n..4 : ip[k] = IF k + Len(last) > 4 THEN last[k + Len(last) - 4] ELSE 0

OctetsOf(parts) ==
  {0} \cup UNION {{parts[k].digits[i] : i \in DOMAIN parts[k].digits} : k \in DOMAIN parts}
Spelled4(parts) == {ip \in [1..4 -> OctetsOf(parts)] : Spells(parts, ip)}

(* The addresses a browser takes a host for without a lookup.              *)
Means(host) ==
  IF host.groups # <<>> THEN {host.groups}
  ELSE IF IsLocalhost(host.parts) THEN {<<127, 0, 0, 1>>}
  ELSE Spelled4(host.parts)

(* The URLs in which worker and browser read one host.                     *)
ReadAlike(url) == url.dialed = url.host

(* A browser decodes a host once; one that is still encoded then it does   *)
(* not dial.  What is no literal it looks up, and finds what the worker    *)
(* found if it is the same name.                                           *)
Dials == LET host == job.url.dialed
         IN IF host.encoded > 1 \/ (host.parts = <<>> /\ host.groups = <<>>) THEN {}
            ELSE IF Means(host) # {} THEN Means(host) ELSE names

(* If browser and worker read the same host in its URL, no job is crawled  *)
(* whose host, as an IPv4 number in any form, an IPv4 address in an IPv6   *)
(* one, a name at the time of the lookup, or encoded, is a private address *)
(* (_is_private_host and resolves_to_private, urls.py).                    *)
NoPrivateCrawl ==
  stage = "crawling" /\ ReadAlike(job.url) => \A ip \in Dials : ~Private(ip)

(* And the guard turns nothing else away: what is refused of these was no  *)
(* web URL, or had a private address among its addresses, or is encoded    *)
(* more often than a browser decodes (urls.py:180 takes that side).        *)
PublicServed ==
  stage = "refused" /\ ReadAlike(job.url) =>
    \/ ~Usable(job.url)
    \/ \E ip \in Dials : Private(ip)
    \/ job.url.host.encoded > 1
=============================================================================
