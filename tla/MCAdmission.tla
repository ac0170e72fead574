----------------------------- MODULE MCAdmission -----------------------------
(* Instances of Admission for TLC: the hosts around every boundary of the  *)
(* private networks in every spelling, and frames with one odd field each. *)
EXTENDS Admission

Number(digits) == [word |-> "", digits |-> digits]
Word(text) == [word |-> text, digits |-> <<>>]

(* The digits of a number: no zeros in front.                              *)
Significant(digits) ==
  IF \A k \in DOMAIN digits : digits[k] = 0 THEN <<0>>
  ELSE SubSeq(digits, CHOOSE k \in DOMAIN digits :
                         digits[k] # 0 /\ \A l \in 1..(k - 1) : digits[l] = 0,
              Len(digits))

(* An address in n parts.                                                  *)
Spelled(ip, n) == [k \in 1..n |-> Number(IF k < n THEN <<ip[k]>>
                                         ELSE Significant(SubSeq(ip, n, 4)))]

Addresses4 == {<<a, b, c, 1>> : a \in {0, 9, 10, 11, 100, 127, 128, 169, 172, 192},
                                b \in {0, 15, 16, 31, 32, 63, 64, 127, 128, 168, 169, 254},
                                c \in {0, 7}}
FewAddresses4 == {<<0, 0, 0, 0>>, <<10, 0, 0, 1>>, <<169, 254, 169, 254>>, <<8, 8, 8, 8>>}

InIPv6(ip, sixth) == <<0, 0, 0, 0, 0, sixth, ip[1] * 256 + ip[2], ip[3] * 256 + ip[4]>>

Addresses6 ==
  {<<g, 0, 0, 0, 0, 0, 0, 1>> : g \in {0, 9734, 64511, 64512, 65023, 65024, 65151,
                                       65152, 65215, 65216}}
    \cup {InIPv6(ip, sixth) : ip \in Addresses4 \cup FewAddresses4,
                              sixth \in {0, 1, 65535}}
    \cup {<<0, 0, 0, 0, 0, 0, 0, 0>>, <<0, 0, 0, 0, 1, 65535, 2560, 1>>}

Host(parts) == [groups |-> <<>>, parts |-> parts, encoded |-> 0, dots |-> 0]

(* The reading of the properties is the inverse of the spelling.           *)
ASSUME SpellingIsRead ==
  \A ip \in Addresses4 \cup FewAddresses4, n \in 1..4 : Means(Host(Spelled(ip, n))) = {ip}

Literals4 == {Host(Spelled(ip, n)) : ip \in Addresses4 \cup FewAddresses4, n \in 1..4}
Literals6 == {[Host(<<>>) EXCEPT !.groups = ip] : ip \in Addresses6}

Names == {Host(<<Word("example"), Word("com")>>),
          Host(<<Word("localhost")>>),
          Host(<<Word("foo"), Word("localhost")>>),
          Host(<<Word("localhost"), Word("com")>>),
          Host(<<Number(<<10>>), Word("com")>>),
          Host(<<Number(<<1, 0>>), Number(<<1>>), Number(<<1>>), Number(<<1>>)>>),
          Host(<<Number(<<10>>), Number(<<0>>), Number(<<0>>), Number(<<1, 0>>)>>),
          Host([k \in 1..5 |-> Number(<<10>>)]),
          Host(<<Number(<<10>>), Word(""), Number(<<1>>)>>),
          Host(<<>>)}

Few == {Host(Spelled(ip, n)) : ip \in FewAddresses4, n \in 1..4}
         \cup {[Host(<<>>) EXCEPT !.groups = ip] :
                  ip \in {InIPv6(ip4, 65535) : ip4 \in FewAddresses4}}
         \cup Names

Hosts == Literals4 \cup Literals6
           \cup {[h EXCEPT !.encoded = e, !.dots = d] : h \in Few, e \in 0..4, d \in 0..2}

Url(host) == [text |-> "url", scheme |-> "https", host |-> host, dialed |-> host]
Public == Host(<<Word("example"), Word("com")>>)

None == [finite |-> FALSE, halves |-> 0]
Frame(url) == [object |-> TRUE, jobId |-> "id", url |-> url, waitFor |-> "absent",
               settleMs |-> None, detectMs |-> None, waitRules |-> <<>>]
Rule(object, guard, target) == [object |-> object, guard |-> guard, target |-> target]

OddFrames ==
  LET f == Frame(Url(Public))
  IN {[f EXCEPT !.object = FALSE]}
       \cup {[f EXCEPT !.jobId = t] : t \in {"absent", ""}}
       \cup {[f EXCEPT !.url.text = t] :
                t \in {"absent", "", "blank", "forbidden", "unparsable"}}
       \cup {[f EXCEPT !.url.scheme = t] : t \in {"none", "http", "ftp"}}
       \cup {[f EXCEPT !.waitFor = t] : t \in {"", "selector"}}
       \cup {[f EXCEPT !.settleMs = [finite |-> TRUE, halves |-> n]] : n \in -2..3}
       \cup {[f EXCEPT !.detectMs = [finite |-> TRUE, halves |-> n]] : n \in -2..3}
       \cup {[f EXCEPT !.waitRules = <<Rule(TRUE, "a", t), Rule(b, g, "x"), Rule(TRUE, "c", "")>>] :
                t \in {"absent", "b"}, b \in BOOLEAN, g \in {"absent", "", "g"}}

(* URLs in which the browser reads another host than the worker does.      *)
ReadApart == {[Url(Public) EXCEPT !.dialed = other] : other \in Few}

AllFrames == {Frame(u) : u \in {Url(h) : h \in Hosts} \cup ReadApart} \cup OddFrames

ProxyUrl(scheme, host, port, rest, user, password) ==
  [url |-> TRUE, scheme |-> scheme, host |-> host, port |-> port, rest |-> rest,
   user |-> user, password |-> password]

AllProxies == {NoProxy, ProxyUrl("http", "h", "1337", FALSE, "u", "p"),
               ProxyUrl("socks5", "h", "1080", FALSE, "", "absent"),
               ProxyUrl("ftp", "h", "1337", FALSE, "", "absent"),
               ProxyUrl("http", "", "1337", FALSE, "u", ""),
               ProxyUrl("http", "h", "none", FALSE, "u", "p"),
               ProxyUrl("http", "h", "bad", FALSE, "u", "p"),
               ProxyUrl("http", "h", "1337", TRUE, "u", "p")}

AllAnswers == {{}, {<<8, 8, 8, 8>>}, {<<10, 0, 0, 1>>}, {<<8, 8, 8, 8>>, <<10, 0, 0, 1>>},
               {<<8, 8, 8, 8>>, <<9734, 0, 0, 0, 0, 0, 0, 1>>},
               {<<8, 8, 8, 8>>, <<65152, 0, 0, 0, 0, 0, 0, 1>>},
               {InIPv6(<<127, 0, 0, 1>>, 65535)}}
=============================================================================
