-------------------------- MODULE Admission_proofs --------------------------
(***************************************************************************)
(* Theorems about Admission, for every frame, every PROXY_URL and every    *)
(* answer of the resolver: the private-host guard is exact for each        *)
(* address there is and each way to spell it, no job passes it or is       *)
(* turned away without reason, the parsed job is in order, and no browser  *)
(* goes without the proxy.                                                 *)
(***************************************************************************)
EXTENDS Admission, SequenceTheorems, WellFoundedInduction, TLAPS

(* The ranges of is_private_ip are the networks they are meant to be.      *)
LEMMA GuardIsExact4 ==
  ASSUME NEW ip, ip[1] \in Octet, ip[2] \in Octet
  PROVE  PrivateIPv4(ip) <=> Private4(ip)
<1> SUFFICES ASSUME NEW a \in Octet, NEW b \in Octet, ip[1] = a, ip[2] = b
             PROVE  PrivateIPv4(ip) <=> Private4(ip)
  OBVIOUS
<1>0. a \in Nat /\ b \in Nat /\ a < 256 /\ b < 256
  BY DEF Octet
<1>1. PICK p \in Nat : p = a * 256 + b /\ Prefix16(ip) = p
  BY <1>0 DEF Prefix16
<1>2. \A first, size \in Nat :
        InNetwork(p, <<first, size>>) <=> first <= p /\ p < first + size
  BY DEF InNetwork
<1>3. Private4(ip) <=> \/ InNetwork(p, <<0, 256>>) \/ InNetwork(p, <<2560, 256>>)
                       \/ InNetwork(p, <<32512, 256>>) \/ InNetwork(p, <<25664, 64>>)
                       \/ InNetwork(p, <<43518, 1>>) \/ InNetwork(p, <<44048, 16>>)
                       \/ InNetwork(p, <<49320, 1>>)
  BY <1>1 DEF Private4, Networks4
<1>4. Private4(ip) <=> \/ (0 <= p /\ p < 256) \/ (2560 <= p /\ p < 2816)
                       \/ (32512 <= p /\ p < 32768) \/ (25664 <= p /\ p < 25728)
                       \/ (43518 <= p /\ p < 43519) \/ (44048 <= p /\ p < 44064)
                       \/ (49320 <= p /\ p < 49321)
  BY <1>2, <1>3
<1>5. PrivateIPv4(ip) <=> \/ a \in {0, 10, 127} \/ (a = 100 /\ 64 <= b /\ b <= 127)
                          \/ (a = 169 /\ b = 254) \/ (a = 172 /\ 16 <= b /\ b <= 31)
                          \/ (a = 192 /\ b = 168)
  BY DEF PrivateIPv4
<1> QED BY <1>0, <1>1, <1>4, <1>5

(* The two octets of a group.                                              *)
LEMMA Halves ==
  ASSUME NEW g \in Group
  PROVE  g \div 256 \in Octet /\ g % 256 \in Octet
BY DEF Group, Octet

(* The first group says what local network an address is in.               *)
LEMMA LocalNetworks ==
  ASSUME NEW g \in Group
  PROVE  /\ g \div 64 = 1018 <=> 65152 <= g /\ g < 65152 + 64
         /\ g \div 512 = 126 <=> 64512 <= g /\ g < 64512 + 512
BY DEF Group

(* Of the 2^128 IPv6 addresses is_private_ip takes for private those whose *)
(* IPv4 address is, where they hold one, and those of the local networks.  *)
LEMMA GuardIsExact6 ==
  ASSUME NEW ip, Len(ip) = 8, ip[1] \in Group, ip[7] \in Group, ip[8] \in Group
  PROVE  is_private_ip(ip) <=> Private(ip)
<1>1. \A g \in Group : g \div 256 \in Octet /\ g % 256 \in Octet
  BY Halves
<1>2. Embedded(ip)[1] = ip[7] \div 256 /\ Embedded(ip)[2] = ip[7] % 256
  BY DEF Embedded
<1>3. Embedded(ip)[1] \in Octet /\ Embedded(ip)[2] \in Octet
  BY <1>1, <1>2
<1>4. PrivateIPv4(Embedded(ip)) <=> Private4(Embedded(ip))
  BY <1>3, GuardIsExact4
<1>5. (\E net \in Networks6 : InNetwork(ip[1], net)) <=> LocalIPv6(ip)
  BY LocalNetworks DEF Networks6, InNetwork, LocalIPv6
<1>6. Len(ip) # 4
  OBVIOUS
<1>7. /\ Zeros(ip, 6) <=> Zeros(ip, 5) /\ ip[6] = 0
      /\ Zeros(ip, 7) <=> Zeros(ip, 6) /\ ip[7] = 0
      /\ Zeros(ip, 5) => ip[1] = 0
  BY DEF Zeros
<1>8. Private(ip) <=> \/ /\ Zeros(ip, 5)
                         /\ ip[6] \in {0, 65535}
                         /\ Private4(Embedded(ip))
                      \/ ~Zeros(ip, 5) /\ LocalIPv6(ip)
  BY <1>5, <1>6 DEF Private, Zeros
<1>9. Zeros(ip, 7) => PrivateIPv4(Embedded(ip))
  <2>1. ip[7] = 0 => Embedded(ip)[1] = 0
    BY <1>2
  <2> QED BY <1>7, <2>1 DEF PrivateIPv4
<1>10. Zeros(ip, 5) => ~LocalIPv6(ip)
  BY <1>7 DEF LocalIPv6
<1>11. CASE ~Zeros(ip, 5)
  BY <1>6, <1>7, <1>8, <1>11 DEF is_private_ip
<1>12. CASE Zeros(ip, 5) /\ ip[6] = 65535
  BY <1>4, <1>6, <1>8, <1>12 DEF is_private_ip
<1>13. CASE Zeros(ip, 5) /\ ip[6] = 0
  BY <1>4, <1>6, <1>7, <1>8, <1>9, <1>13 DEF is_private_ip
<1>14. CASE Zeros(ip, 5) /\ ip[6] \notin {0, 65535}
  BY <1>6, <1>7, <1>8, <1>10, <1>14 DEF is_private_ip
<1> QED BY <1>11, <1>12, <1>13, <1>14

(* is_private_ip is right about every address.                             *)
THEOREM GuardIsExact == \A ip \in IPv4 \cup IPv6 : is_private_ip(ip) <=> Private(ip)
<1>1. ASSUME NEW ip \in IPv4
      PROVE  is_private_ip(ip) <=> Private(ip)
  <2>1. Len(ip) = 4 /\ ip[1] \in Octet /\ ip[2] \in Octet
    <3>1. ip \in Seq(Octet) /\ Len(ip) = 4
      BY DEF IPv4
    <3>2. \A k \in 1..4 : ip[k] \in Octet
      BY <3>1, ElementOfSeq
    <3> QED BY <3>1, <3>2
  <2> QED BY <2>1, GuardIsExact4 DEF is_private_ip, Private
<1>2. ASSUME NEW ip \in IPv6
      PROVE  is_private_ip(ip) <=> Private(ip)
  <2>1. Len(ip) = 8 /\ ip[1] \in Group /\ ip[7] \in Group /\ ip[8] \in Group
    <3>1. ip \in Seq(Group) /\ Len(ip) = 8
      BY DEF IPv6
    <3>2. \A k \in 1..8 : ip[k] \in Group
      BY <3>1, ElementOfSeq
    <3> QED BY <3>1, <3>2
  <2> QED BY <2>1, GuardIsExact6
<1> QED BY <1>1, <1>2

-----------------------------------------------------------------------------
(* How as_ipv4 reads the spellings of an address.                          *)

(* Functions on 1..n are sequences of length n.                            *)
LEMMA FunctionIsSeq ==
  ASSUME NEW S, NEW n \in Nat, NEW f \in [1..n -> S]
  PROVE  f \in Seq(S) /\ Len(f) = n
OBVIOUS

(* Three sequences in a row.                                               *)
LEMMA Concat3 ==
  ASSUME NEW S, NEW a \in Seq(S), NEW b \in Seq(S), NEW c \in Seq(S)
  PROVE  /\ a \o b \o c \in Seq(S)
         /\ Len(a \o b \o c) = Len(a) + Len(b) + Len(c)
         /\ \A k \in 1..Len(a) : (a \o b \o c)[k] = a[k]
         /\ \A k \in 1..Len(b) : (a \o b \o c)[Len(a) + k] = b[k]
         /\ \A k \in 1..Len(c) : (a \o b \o c)[Len(a) + Len(b) + k] = c[k]
<1> DEFINE d == a \o b
<1>1. /\ d \in Seq(S) /\ Len(d) = Len(a) + Len(b)
      /\ \A k \in 1..(Len(a) + Len(b)) :
           d[k] = IF k <= Len(a) THEN a[k] ELSE b[k - Len(a)]
  BY ConcatProperties
<1>2. Len(a) \in Nat /\ Len(b) \in Nat /\ Len(c) \in Nat
  BY LenProperties
<1>1a. d \in Seq(S)
  BY <1>1
<1> HIDE DEF d
<1>3. /\ d \o c \in Seq(S) /\ Len(d \o c) = Len(d) + Len(c)
      /\ \A k \in 1..(Len(d) + Len(c)) :
           (d \o c)[k] = IF k <= Len(d) THEN d[k] ELSE c[k - Len(d)]
  BY <1>1a, ConcatProperties
<1>4. \A k \in 1..Len(a) : (d \o c)[k] = a[k]
  BY <1>1, <1>2, <1>3
<1>5. \A k \in 1..Len(b) : (d \o c)[Len(a) + k] = b[k]
  BY <1>1, <1>2, <1>3
<1>6. \A k \in 1..Len(c) : (d \o c)[Len(a) + Len(b) + k] = c[k]
  BY <1>1, <1>2, <1>3
<1> QED BY <1>1, <1>3, <1>4, <1>5, <1>6

(* The places of the last part: which octets are its own, and which zeros  *)
(* are in front of it.                                                     *)
LEMMA LastPart ==
  ASSUME NEW last \in Seq(Octet), last # <<>>, NEW n \in 1..4, Len(last) <= 5 - n
  PROVE  /\ Len(last) \in 1..4 /\ n - 1 \in Nat /\ 5 - n - Len(last) \in Nat
         /\ (n - 1) + (5 - n - Len(last)) + Len(last) = 4
         /\ \A k \in n..4 :
              k + Len(last) > 4 =>
                /\ k + Len(last) - 4 \in 1..Len(last)
                /\ (n - 1) + (5 - n - Len(last)) + (k + Len(last) - 4) = k
         /\ \A k \in n..4 :
              k + Len(last) <= 4 =>
                /\ k - (n - 1) \in 1..(5 - n - Len(last))
                /\ (n - 1) + (k - (n - 1)) = k
<1> DEFINE l == Len(last)
<1>1. l \in Nat \ {0}
  BY EmptySeq
<1>2. l <= 5 - n
  OBVIOUS
<1> HIDE DEF l
<1>3. l \in 1..4 /\ 5 - n - l \in Nat
  BY <1>1, <1>2
<1> QED BY <1>3 DEF l

(* The digits of a part.                                                   *)
LEMMA PartIsDigits ==
  ASSUME NEW parts \in Seq([word : STRING, digits : Seq(Octet)]),
         NEW k \in 1..Len(parts)
  PROVE  parts[k].digits \in Seq(Octet)
<1>1. parts[k] \in [word : STRING, digits : Seq(Octet)]
  BY ElementOfSeq
<1> QED BY <1>1

(* Numbers that fit their places.                                          *)
Fits(parts) ==
  /\ Len(parts) \in 1..4
  /\ \A k \in 1..(Len(parts) - 1) : Len(parts[k].digits) = 1
  /\ parts[Len(parts)].digits # <<>>
  /\ Len(parts[Len(parts)].digits) <= 5 - Len(parts)

(* A number below 256.                                                     *)
LEMMA OneDigit ==
  ASSUME NEW d \in Seq(Octet)
  PROVE  /\ d # <<>> /\ ~(Len(d) > 1) => Len(d) = 1
         /\ Len(d) = 1 => d = <<d[1]>> /\ d[1] \in Octet /\ d # <<>>
<1>1. PICK m \in Nat : m = Len(d) /\ (d # <<>> => m # 0)
  BY EmptySeq, LenProperties
<1>2. d # <<>> /\ ~(Len(d) > 1) => Len(d) = 1
  BY ONLY <1>1
<1>3. ASSUME Len(d) = 1
      PROVE  d = <<d[1]>> /\ d[1] \in Octet /\ d # <<>>
  BY <1>3
<1> QED BY <1>2, <1>3

(* Of numbers that fit as_ipv4 returns the address they spell.             *)
LEMMA ReadsWhatFits ==
  ASSUME NEW parts \in Seq([word : STRING, digits : Seq(Octet)]), Fits(parts)
  PROVE  as_ipv4(parts) \in IPv4 /\ Spells(parts, as_ipv4(parts))
<1>0. PICK n \in 1..4 : n = Len(parts)
  BY DEF Fits
<1>1. \A k \in 1..n : parts[k].digits \in Seq(Octet)
  BY <1>0, PartIsDigits
<1>2. PICK last \in Seq(Octet) : last = parts[n].digits
  BY <1>0, <1>1
<1>3. last # <<>> /\ Len(last) <= 5 - n
  BY <1>0, <1>2 DEF Fits
<1>4. \A k \in 1..(n - 1) : /\ parts[k].digits = <<parts[k].digits[1]>>
                            /\ parts[k].digits[1] \in Octet
                            /\ ~(Len(parts[k].digits) > 1)
                            /\ parts[k].digits # <<>>
  <2> SUFFICES ASSUME NEW k \in 1..(n - 1)
               PROVE  /\ parts[k].digits = <<parts[k].digits[1]>>
                      /\ parts[k].digits[1] \in Octet
                      /\ ~(Len(parts[k].digits) > 1)
                      /\ parts[k].digits # <<>>
    OBVIOUS
  <2>1. parts[k].digits \in Seq(Octet)
    BY <1>1
  <2>2. Len(parts[k].digits) = 1
    BY <1>0 DEF Fits
  <2> QED BY <2>1, <2>2, OneDigit
<1>5. n - 1 \in Nat /\ 5 - n - Len(last) \in Nat
  BY <1>3, LastPart
<1>6. PICK front : front = [k \in 1..(n - 1) |-> parts[k].digits[1]]
  OBVIOUS
<1>7. front \in Seq(Octet) /\ Len(front) = n - 1
  <2>1. front \in [1..(n - 1) -> Octet]
    BY <1>4, <1>6
  <2> QED BY ONLY <1>5, <2>1, FunctionIsSeq
<1>8. PICK zeros : zeros = [k \in 1..(5 - n - Len(last)) |-> 0]
  OBVIOUS
<1>9. /\ zeros \in Seq(Octet) /\ Len(zeros) = 5 - n - Len(last)
      /\ \A k \in 1..Len(zeros) : zeros[k] = 0
  <2>1. zeros \in [1..(5 - n - Len(last)) -> Octet]
    BY <1>8 DEF Octet
  <2>2. zeros \in Seq(Octet) /\ Len(zeros) = 5 - n - Len(last)
    BY ONLY <1>5, <2>1, FunctionIsSeq
  <2> QED BY <1>8, <2>2
<1>10. PICK ip : ip = front \o zeros \o last
  OBVIOUS
<1>11. /\ ip \in IPv4
       /\ \A k \in 1..(n - 1) : ip[k] = front[k]
       /\ \A k \in n..4 : ip[k] = IF k + Len(last) > 4 THEN last[k + Len(last) - 4] ELSE 0
  <2>1. /\ Len(last) \in 1..4
        /\ (n - 1) + (5 - n - Len(last)) + Len(last) = 4
        /\ \A k \in n..4 :
             k + Len(last) > 4 =>
               /\ k + Len(last) - 4 \in 1..Len(last)
               /\ (n - 1) + (5 - n - Len(last)) + (k + Len(last) - 4) = k
        /\ \A k \in n..4 :
             k + Len(last) <= 4 =>
               /\ k - (n - 1) \in 1..(5 - n - Len(last))
               /\ (n - 1) + (k - (n - 1)) = k
    BY <1>3, LastPart
  <2>2. front \in Seq(Octet) /\ zeros \in Seq(Octet) /\ last \in Seq(Octet)
    BY <1>7, <1>9
  <2>3. /\ ip \in Seq(Octet) /\ Len(ip) = Len(front) + Len(zeros) + Len(last)
        /\ \A k \in 1..Len(front) : ip[k] = front[k]
        /\ \A k \in 1..Len(zeros) : ip[Len(front) + k] = zeros[k]
        /\ \A k \in 1..Len(last) : ip[Len(front) + Len(zeros) + k] = last[k]
    BY ONLY <1>10, <2>2, Concat3
  <2>4. ip \in IPv4
    <3>1. Len(front) + Len(zeros) + Len(last) = 4
      BY <1>7, <1>9, <2>1
    <3> QED BY <2>3, <3>1 DEF IPv4
  <2>5. \A k \in 1..(n - 1) : ip[k] = front[k]
    BY <1>7, <2>3
  <2>6. ASSUME NEW k \in n..4
        PROVE  ip[k] = IF k + Len(last) > 4 THEN last[k + Len(last) - 4] ELSE 0
    <3>1. CASE k + Len(last) > 4
      <4>1. ip[Len(front) + Len(zeros) + (k + Len(last) - 4)] = last[k + Len(last) - 4]
        BY <2>1, <2>3, <3>1
      <4>2. Len(front) + Len(zeros) + (k + Len(last) - 4) = k
        BY <1>7, <1>9, <2>1, <3>1
      <4> QED BY <3>1, <4>1, <4>2
    <3>2. CASE k + Len(last) <= 4
      <4>1. ip[Len(front) + (k - (n - 1))] = zeros[k - (n - 1)]
        BY <1>9, <2>1, <2>3, <3>2
      <4>2. zeros[k - (n - 1)] = 0
        BY <1>9, <2>1, <3>2
      <4> QED BY <1>7, <2>1, <3>2, <4>1, <4>2
    <3> QED BY <2>1, <3>1, <3>2
  <2> QED BY <2>4, <2>5, <2>6
<1>12. as_ipv4(parts) = ip
  <2>1. ~(Len(last) > 5 - n)
    <3>1. Len(last) \in Nat
      BY ONLY LenProperties
    <3> QED BY <1>3, <3>1
  <2>2. \A k \in 1..n : IsNumber(parts[k])
    BY <1>2, <1>3, <1>4 DEF IsNumber
  <2> QED BY <1>0, <1>2, <1>4, <1>6, <1>8, <1>10, <2>1, <2>2 DEF as_ipv4
<1>13. Spells(parts, ip)
  BY <1>0, <1>2, <1>3, <1>4, <1>6, <1>11 DEF Spells
<1> QED BY <1>11, <1>12, <1>13

(* What spells an address fits, and what as_ipv4 reads does.               *)
LEMMA SpelledFits ==
  ASSUME NEW parts \in Seq([word : STRING, digits : Seq(Octet)]),
         NEW ip, Spells(parts, ip)
  PROVE  Fits(parts)
<1>1. \A k \in 1..(Len(parts) - 1) : parts[k].digits = <<ip[k]>>
  BY DEF Spells
<1>2. ASSUME NEW k \in 1..(Len(parts) - 1)
      PROVE  Len(parts[k].digits) = 1
  <2>1. parts[k].digits = <<ip[k]>>
    BY <1>1
  <2> QED BY ONLY <2>1
<1>3. /\ Len(parts) \in 1..4 /\ parts[Len(parts)].digits # <<>>
      /\ Len(parts[Len(parts)].digits) <= 5 - Len(parts)
  BY DEF Spells
<1> QED BY ONLY <1>2, <1>3 DEF Fits

LEMMA ReadFits ==
  ASSUME NEW parts \in Seq([word : STRING, digits : Seq(Octet)]),
         as_ipv4(parts) # NoAddress
  PROVE  Fits(parts)
<1>1. Len(parts) \in 1..4
  BY DEF as_ipv4
<1>2. /\ \A k \in 1..Len(parts) : parts[k].digits # <<>>
      /\ \A k \in 1..(Len(parts) - 1) : ~(Len(parts[k].digits) > 1)
      /\ ~(Len(parts[Len(parts)].digits) > 5 - Len(parts))
  BY DEF as_ipv4, IsNumber
<1>3. \A k \in 1..Len(parts) : parts[k].digits \in Seq(Octet)
  BY PartIsDigits
<1>4. ASSUME NEW k \in 1..(Len(parts) - 1)
      PROVE  Len(parts[k].digits) = 1
  BY <1>1, <1>2, <1>3, OneDigit
<1>5. Len(parts[Len(parts)].digits) <= 5 - Len(parts)
  <2>1. Len(parts[Len(parts)].digits) \in Nat
    BY <1>1, <1>3, LenProperties
  <2> QED BY <1>1, <1>2, <2>1
<1>6. parts[Len(parts)].digits # <<>>
  BY <1>1, <1>2
<1> QED BY ONLY <1>1, <1>4, <1>5, <1>6 DEF Fits

(* The parts of a host spell one address at most.                          *)
LEMMA SpellsOne ==
  ASSUME NEW parts, NEW a, NEW b, DOMAIN a = 1..4, DOMAIN b = 1..4,
         a = [k \in 1..4 |-> a[k]], b = [k \in 1..4 |-> b[k]],
         Spells(parts, a), Spells(parts, b)
  PROVE  a = b
<1>1. PICK n \in 1..4 : n = Len(parts)
  BY DEF Spells
<1>2. \A k \in 1..(n - 1) : a[k] = b[k]
  <2>1. \A k \in 1..(n - 1) : parts[k].digits = <<a[k]>> /\ parts[k].digits = <<b[k]>>
    BY <1>1 DEF Spells
  <2>2. \A x, y : <<x>> = <<y>> => x = y
    OBVIOUS
  <2> QED BY <2>1, <2>2
<1>3. \A k \in n..4 : a[k] = b[k]
  BY <1>1 DEF Spells
<1>4. \A k \in 1..4 : a[k] = b[k]
  <2>1. \A k \in 1..4 : k \in 1..(n - 1) \/ k \in n..4
    OBVIOUS
  <2> QED BY ONLY <1>2, <1>3, <2>1
<1> QED BY <1>4

(* It is among the candidates that Spelled4 looks through.                 *)
LEMMA SpelledFromDigits ==
  ASSUME NEW parts \in Seq([word : STRING, digits : Seq(Octet)]), NEW ip \in IPv4,
         Spells(parts, ip)
  PROVE  ip \in [1..4 -> OctetsOf(parts)]
<1>1. PICK n \in 1..4 : n = Len(parts)
  BY DEF Spells
<1>2. DOMAIN parts = 1..n
  BY <1>1, LenProperties
<1>3. \A k \in 1..n : \A i \in DOMAIN parts[k].digits : parts[k].digits[i] \in OctetsOf(parts)
  BY <1>2 DEF OctetsOf
<1>4. 0 \in OctetsOf(parts)
  BY DEF OctetsOf
<1>5. \A k \in 1..(n - 1) : ip[k] \in OctetsOf(parts)
  <2> SUFFICES ASSUME NEW k \in 1..(n - 1)
               PROVE  ip[k] \in OctetsOf(parts)
    OBVIOUS
  <2>1. parts[k].digits = <<ip[k]>>
    BY <1>1 DEF Spells
  <2>2. 1 \in DOMAIN <<ip[k]>> /\ <<ip[k]>>[1] = ip[k]
    OBVIOUS
  <2>3. k \in 1..n
    BY <1>1
  <2> QED BY <1>3, <2>1, <2>2, <2>3
<1>6. \A k \in n..4 : ip[k] \in OctetsOf(parts)
  <2> SUFFICES ASSUME NEW k \in n..4
               PROVE  ip[k] \in OctetsOf(parts)
    OBVIOUS
  <2>1. PICK last \in Seq(Octet) : last = parts[n].digits
    <3>1. n \in 1..Len(parts)
      BY <1>1
    <3> QED BY <1>1, <3>1, PartIsDigits
  <2>2. /\ last # <<>> /\ Len(last) <= 5 - n
        /\ ip[k] = IF k + Len(last) > 4 THEN last[k + Len(last) - 4] ELSE 0
    BY <1>1, <2>1 DEF Spells
  <2>3. k + Len(last) > 4 => k + Len(last) - 4 \in 1..Len(last)
    BY <2>2, LastPart
  <2>4. \A i \in 1..Len(last) : last[i] \in OctetsOf(parts)
    BY <1>3, <2>1, LenProperties
  <2> QED BY <1>4, <2>2, <2>3, <2>4
<1>7. ip = [k \in 1..4 |-> ip[k]]
  BY DEF IPv4
<1>8. \A k \in 1..4 : ip[k] \in OctetsOf(parts)
  BY <1>5, <1>6
<1> QED BY <1>7, <1>8

(* What the guard reads of a dotted host is what a browser reads.          *)
LEMMA ReadingIsExact ==
  ASSUME NEW parts \in Seq([word : STRING, digits : Seq(Octet)])
  PROVE  /\ as_ipv4(parts) = NoAddress => Spelled4(parts) = {}
         /\ as_ipv4(parts) # NoAddress => /\ as_ipv4(parts) \in IPv4
                                          /\ Spelled4(parts) = {as_ipv4(parts)}
<1>1. ASSUME NEW ip \in Spelled4(parts)
      PROVE  as_ipv4(parts) # NoAddress
  <2>1. as_ipv4(parts) \in IPv4
    BY <1>1, SpelledFits, ReadsWhatFits DEF Spelled4
  <2>2. Len(as_ipv4(parts)) = 4
    BY <2>1 DEF IPv4
  <2>3. Len(NoAddress) = 0
    BY DEF NoAddress
  <2> QED BY <2>2, <2>3
<1>2. ASSUME as_ipv4(parts) # NoAddress
      PROVE  as_ipv4(parts) \in IPv4 /\ Spelled4(parts) = {as_ipv4(parts)}
  <2> DEFINE ip == as_ipv4(parts)
  <2>1. ip \in IPv4 /\ Spells(parts, ip)
    BY <1>2, ReadFits, ReadsWhatFits
  <2> HIDE DEF ip
  <2>2. ip \in Spelled4(parts)
    BY <2>1, SpelledFromDigits DEF Spelled4
  <2>3. DOMAIN ip = 1..4 /\ ip = [k \in 1..4 |-> ip[k]]
    BY <2>2 DEF Spelled4
  <2>4. ASSUME NEW other \in Spelled4(parts)
        PROVE  other = ip
    <3>1. /\ DOMAIN other = 1..4 /\ other = [k \in 1..4 |-> other[k]]
          /\ Spells(parts, other)
      BY DEF Spelled4
    <3> QED BY <2>1, <2>3, <3>1, SpellsOne
  <2> QED BY <2>1, <2>2, <2>4 DEF ip
<1> QED BY <1>1, <1>2

-----------------------------------------------------------------------------
(* What is known of a job on its way to the browser.                       *)
Admitted ==
  /\ msg \in Frames /\ names \in Answers
  /\ stage \notin {"received", "dropped"} => job = parse_fetch_frame(msg) /\ job # NoJob
  /\ stage \in {"checked", "admitted", "crawling", "failed"} => check_url(job.url)
  /\ stage \in {"admitted", "crawling", "failed"} /\ NeedsLookup(job.url.host) =>
       ~Screened(names)
  /\ stage = "refused" => \/ ~check_url(job.url)
                          \/ NeedsLookup(job.url.host) /\ Screened(names)

(* No stage is reached but past the checks before it.                      *)
THEOREM AdmittedInvariance == Spec => []Admitted
<1>1. Init => Admitted
  BY DEF Init, Admitted
<1>2. Admitted /\ [Next]_vars => Admitted'
  BY DEF Admitted, Next, Parse, CheckUrl, NoLookup, Lookup, Launch, vars
<1> QED BY <1>1, <1>2, PTL DEF Spec

(* The host of a job that was parsed is one of those the frames name.      *)
LEMMA JobHost ==
  ASSUME Admitted, stage \notin {"received", "dropped"}
  PROVE  IsHost(job.url.host)
<1>1. job.url = msg.url
  BY DEF Admitted, parse_fetch_frame
<1> QED BY <1>1, AdmissionAssumption DEF Admitted

(* What the guard lets pass has no private address.                        *)
LEMMA DialsPublic ==
  ASSUME IsHost(job.url.host), names \subseteq IPv4 \cup IPv6, check_url(job.url),
         NeedsLookup(job.url.host) => ~Screened(names),
         ReadAlike(job.url)
  PROVE  \A ip \in Dials : ~Private(ip)
<1> DEFINE host == job.url.host
<1> SUFFICES ASSUME ~(host.encoded > 1), host.parts # <<>> \/ host.groups # <<>>
             PROVE  \A ip \in Dials : ~Private(ip)
  BY DEF Dials, ReadAlike
<1>1. /\ _normalize_host(host).groups = host.groups
      /\ _normalize_host(host).parts = host.parts
  BY DEF _normalize_host, IsHost
<1>2. ~_is_private_host(host)
  BY DEF check_url
<1>3. CASE host.groups # <<>>
  <2>1. host.groups \in IPv6 /\ ~is_private_ip(host.groups)
    BY <1>1, <1>2, <1>3 DEF _is_private_host, IsHost
  <2>2. ~Private(host.groups)
    BY <2>1, GuardIsExact
  <2>3. Dials = {host.groups}
    BY <1>3 DEF Dials, Means, ReadAlike
  <2> QED BY <2>2, <2>3
<1>4. CASE host.groups = <<>>
  <2>1. /\ ~IsLocalhost(host.parts)
        /\ as_ipv4(host.parts) # NoAddress => ~is_private_ip(as_ipv4(host.parts))
    BY <1>1, <1>2, <1>4 DEF _is_private_host
  <2>2. host.parts \in Seq([word : STRING, digits : Seq(Octet)])
    BY DEF IsHost
  <2>3. Dials = IF Spelled4(host.parts) # {} THEN Spelled4(host.parts) ELSE names
    BY <1>4, <2>1 DEF Dials, Means, ReadAlike
  <2>4. CASE as_ipv4(host.parts) # NoAddress
    <3>1. as_ipv4(host.parts) \in IPv4 /\ Dials = {as_ipv4(host.parts)}
      BY <2>2, <2>3, <2>4, ReadingIsExact
    <3> QED BY <2>1, <2>4, <3>1, GuardIsExact
  <2>5. CASE as_ipv4(host.parts) = NoAddress
    <3>1. Dials = names
      BY <2>2, <2>3, <2>5, ReadingIsExact
    <3>2. NeedsLookup(host)
      BY <1>1, <1>4, <2>5 DEF NeedsLookup
    <3>3. \A ip \in names : ~is_private_ip(ip)
      BY <3>2 DEF Screened
    <3> QED BY <3>1, <3>3, GuardIsExact
  <2> QED BY <2>4, <2>5
<1> QED BY <1>3, <1>4

(* Whatever frames come and whatever their names resolve to, no job is     *)
(* crawled whose host the browser takes for a private address, if it reads *)
(* the same host in the URL as the worker.                                 *)
THEOREM NothingPrivateCrawled == Spec => []NoPrivateCrawl
<1>1. Admitted => NoPrivateCrawl
  <2> SUFFICES ASSUME Admitted, stage = "crawling", ReadAlike(job.url)
               PROVE  \A ip \in Dials : ~Private(ip)
    BY DEF NoPrivateCrawl
  <2>1. IsHost(job.url.host)
    BY JobHost
  <2>2. names \subseteq IPv4 \cup IPv6
    BY AdmissionAssumption DEF Admitted
  <2>3. check_url(job.url) /\ (NeedsLookup(job.url.host) => ~Screened(names))
    BY DEF Admitted
  <2> QED BY <2>1, <2>2, <2>3, DialsPublic
<1> QED BY <1>1, AdmittedInvariance, PTL

(* The host localhost is the loopback address.                             *)
LEMMA LoopbackIsPrivate == Private(<<127, 0, 0, 1>>)
<1>1. <<127, 0, 0, 1>> \in IPv4
  BY DEF IPv4, Octet
<1>2. is_private_ip(<<127, 0, 0, 1>>)
  BY DEF is_private_ip, PrivateIPv4
<1> QED BY <1>1, <1>2, GuardIsExact

(* What the guard stops has a private address, or is no web URL, or is     *)
(* encoded more often than a browser decodes.                              *)
LEMMA StoppedIsPrivate ==
  ASSUME IsHost(job.url.host), names \subseteq IPv4 \cup IPv6,
         Usable(job.url), ~(job.url.host.encoded > 1), ReadAlike(job.url),
         \/ ~check_url(job.url)
         \/ check_url(job.url) /\ NeedsLookup(job.url.host) /\ Screened(names)
  PROVE  \E ip \in Dials : Private(ip)
<1> DEFINE host == job.url.host
<1>1. /\ _normalize_host(host).groups = host.groups
      /\ _normalize_host(host).parts = host.parts
  BY DEF _normalize_host, IsHost
<1>2. host.parts \in Seq([word : STRING, digits : Seq(Octet)])
  BY DEF IsHost
<1>3. CASE _is_private_host(host) /\ host.groups # <<>>
  <2>1. host.groups \in IPv6 /\ is_private_ip(host.groups)
    BY <1>1, <1>3 DEF _is_private_host, IsHost
  <2>2. Dials = {host.groups}
    BY <1>3 DEF Dials, Means, ReadAlike
  <2> QED BY <2>1, <2>2, GuardIsExact
<1>4. CASE host.groups = <<>> /\ IsLocalhost(host.parts)
  <2>1. Dials = {<<127, 0, 0, 1>>}
    BY <1>4 DEF Dials, Means, IsLocalhost, ReadAlike
  <2> QED BY <2>1, LoopbackIsPrivate
<1>5. CASE /\ _is_private_host(host)
           /\ host.groups = <<>> /\ ~IsLocalhost(host.parts)
  <2>1. as_ipv4(host.parts) # NoAddress /\ is_private_ip(as_ipv4(host.parts))
    BY <1>1, <1>5 DEF _is_private_host
  <2>2. as_ipv4(host.parts) \in IPv4 /\ Spelled4(host.parts) = {as_ipv4(host.parts)}
    BY <1>2, <2>1, ReadingIsExact
  <2>3. host.parts # <<>>
    <3>1. Len(host.parts) \in 1..4
      BY <1>2, <2>1, ReadFits DEF Fits
    <3>2. Len(<<>>) = 0
      OBVIOUS
    <3> QED BY <3>1, <3>2
  <2>4. Dials = {as_ipv4(host.parts)}
    BY <1>5, <2>2, <2>3 DEF Dials, Means, ReadAlike
  <2> QED BY <2>1, <2>2, <2>4, GuardIsExact
<1>6. CASE check_url(job.url) /\ NeedsLookup(host) /\ Screened(names)
  <2>1. /\ host.groups = <<>> /\ host.parts # <<>>
        /\ as_ipv4(host.parts) = NoAddress
    BY <1>1, <1>6 DEF NeedsLookup
  <2>2. ~IsLocalhost(host.parts)
    BY <1>1, <1>6, <2>1 DEF check_url, _is_private_host
  <2>3. Dials = names
    BY <1>2, <2>1, <2>2, ReadingIsExact DEF Dials, Means, ReadAlike
  <2> QED BY <1>6, <2>3, GuardIsExact DEF Screened
<1> QED BY <1>3, <1>4, <1>5, <1>6 DEF check_url

(* The guard turns no other job away of those whose host is read alike.    *)
THEOREM PublicIsServed == Spec => []PublicServed
<1>1. Admitted => PublicServed
  <2> SUFFICES ASSUME Admitted, stage = "refused", Usable(job.url),
                      ~(job.url.host.encoded > 1), ReadAlike(job.url)
               PROVE  \E ip \in Dials : Private(ip)
    BY DEF PublicServed
  <2>1. IsHost(job.url.host)
    BY JobHost
  <2>2. names \subseteq IPv4 \cup IPv6
    BY AdmissionAssumption DEF Admitted
  <2>3. ~check_url(job.url) \/ (NeedsLookup(job.url.host) /\ Screened(names))
    BY DEF Admitted
  <2> QED BY <2>1, <2>2, <2>3, StoppedIsPrivate
<1> QED BY <1>1, AdmittedInvariance, PTL

-----------------------------------------------------------------------------
(* The frame.                                                              *)

(* Induction over the naturals, for a set instead of a predicate: what is  *)
(* not in the set would have a least element.                              *)
LEMMA LeastNat ==
  ASSUME NEW T \in SUBSET Nat, T # {}
  PROVE  \E x \in T : \A y \in T : ~(y < x)
<1> DEFINE R == OpToRel(<, Nat)
<1>1. IsWellFoundedOn(R, Nat)
  BY NatLessThanWellFounded
<1>2. \A x, y \in Nat : y < x => <<y, x>> \in R
  BY DEF OpToRel
<1> HIDE DEF R
<1>3. \E x \in T : \A y \in T : ~ (<<y, x>> \in R)
  BY <1>1, WFMin
<1> QED BY <1>2, <1>3

LEMMA NatSetInduction ==
  ASSUME NEW S, 0 \in S, \A n \in Nat : n \in S => n + 1 \in S
  PROVE  Nat \subseteq S
<1> SUFFICES ASSUME Nat \ S # {} PROVE FALSE
  OBVIOUS
<1>1. PICK x \in Nat \ S : \A y \in Nat \ S : ~(y < x)
  BY LeastNat
<1>2. x # 0 /\ x - 1 \in Nat /\ x - 1 < x /\ x = (x - 1) + 1
  BY <1>1
<1>3. x - 1 \in S
  BY <1>1, <1>2
<1> QED BY <1>1, <1>2, <1>3

(* The loop of parse_fetch_frame, as a function of the rules seen.         *)
Loop(f, raw, m) ==
  f = [n \in 0..m |-> IF n = 0 THEN <<>>
                      ELSE IF HasGuard(raw[n]) THEN Append(f[n - 1], Kept(raw[n]))
                      ELSE f[n - 1]]

(* There is such a function, for any number of rules.                      *)
LEMMA LoopExists ==
  ASSUME NEW raw, NEW m \in Nat
  PROVE  \E f : Loop(f, raw, m)
<1> DEFINE S == {n \in Nat : \E f : Loop(f, raw, n)}
<1>1. 0 \in S
  <2> DEFINE f == [n \in 0..0 |-> <<>>]
  <2>1. Loop(f, raw, 0)
    BY DEF Loop
  <2> HIDE DEF f
  <2> QED BY <2>1
<1>2. ASSUME NEW n \in Nat, n \in S
      PROVE  n + 1 \in S
  <2>1. PICK f : Loop(f, raw, n)
    BY <1>2
  <2> DEFINE step(x, k) == IF HasGuard(raw[k]) THEN Append(x, Kept(raw[k])) ELSE x
             g == [k \in 0..(n + 1) |-> IF k = n + 1 THEN step(f[n], n + 1) ELSE f[k]]
  <2>2. \A k \in 0..n : g[k] = f[k]
    OBVIOUS
  <2>3. \A k \in 0..n : f[k] = IF k = 0 THEN <<>> ELSE step(f[k - 1], k)
    BY <2>1 DEF Loop
  <2>4. g[n + 1] = step(f[n], n + 1)
    OBVIOUS
  <2>5. g = [k \in 0..(n + 1) |-> g[k]]
    OBVIOUS
  <2> HIDE DEF g, step
  <2>6. ASSUME NEW k \in 0..(n + 1)
        PROVE  g[k] = IF k = 0 THEN <<>> ELSE step(g[k - 1], k)
    <3>1. CASE k = 0
      BY <2>2, <2>3, <3>1
    <3>2. CASE k \in 1..n
      <4>1. k \in 0..n /\ k - 1 \in 0..n /\ k # 0
        BY <3>2
      <4> QED BY <2>2, <2>3, <4>1
    <3>3. CASE k = n + 1
      <4>1. k - 1 = n /\ n \in 0..n /\ k # 0
        BY <3>3
      <4> QED BY <2>2, <2>4, <3>3, <4>1
    <3> QED BY <3>1, <3>2, <3>3
  <2>7. g = [k \in 0..(n + 1) |-> IF k = 0 THEN <<>> ELSE step(g[k - 1], k)]
    BY <2>5, <2>6
  <2>8. Loop(g, raw, n + 1)
    BY <2>7 DEF Loop, step
  <2> QED BY <2>8
<1> HIDE DEF S
<1>3. Nat \subseteq S
  BY <1>1, <1>2, NatSetInduction
<1> QED BY <1>3 DEF S

(* InOrder, of the first n rules only.                                     *)
InOrderTo(rules, raw, n) ==
  \E at \in [DOMAIN rules -> 1..n] :
    /\ \A j, k \in DOMAIN rules : j < k => at[j] < at[k]
    /\ \A k \in DOMAIN rules : rules[k].guard = raw[at[k]].guard
    /\ {i \in 1..n : HasGuard(raw[i])} = {at[k] : k \in DOMAIN rules}

(* A round of the loop that keeps the rule puts it behind the others.      *)
LEMMA RoundKeepsOrder ==
  ASSUME NEW R, NEW s \in Seq(R), NEW r \in R, NEW raw, NEW n \in Nat,
         InOrderTo(s, raw, n), HasGuard(raw[n + 1]), r.guard = raw[n + 1].guard
  PROVE  InOrderTo(Append(s, r), raw, n + 1)
<1>1. /\ DOMAIN Append(s, r) = 1..(Len(s) + 1)
      /\ DOMAIN s = 1..Len(s) /\ Len(s) \in Nat
      /\ \A k \in 1..Len(s) : Append(s, r)[k] = s[k]
      /\ Append(s, r)[Len(s) + 1] = r
  BY ONLY s \in Seq(R), r \in R
<1> DEFINE l == Len(s)
           t == Append(s, r)
<1>2. PICK at \in [1..l -> 1..n] :
        /\ \A j, k \in 1..l : j < k => at[j] < at[k]
        /\ \A k \in 1..l : s[k].guard = raw[at[k]].guard
        /\ {i \in 1..n : HasGuard(raw[i])} = {at[k] : k \in 1..l}
  BY <1>1 DEF InOrderTo
<1> DEFINE to == [k \in 1..(l + 1) |-> IF k = l + 1 THEN n + 1 ELSE at[k]]
<1>3. l \in Nat /\ (\A k \in 1..(l + 1) : k = l + 1 \/ (k \in 1..l /\ k # l + 1))
  BY <1>1
<1> HIDE DEF l, t
<1>4. /\ \A k \in 1..l : to[k] = at[k] /\ at[k] \in 1..n /\ k \in 1..(l + 1)
      /\ to[l + 1] = n + 1 /\ l + 1 \in 1..(l + 1)
  BY <1>3
<1>5. to \in [1..(l + 1) -> 1..(n + 1)]
  BY <1>2, <1>3
<1> HIDE DEF to
<1>6. \A j, k \in 1..(l + 1) : j < k => to[j] < to[k]
  <2> TAKE j, k \in 1..(l + 1)
  <2> HAVE j < k
  <2>1. j \in 1..l
    BY <1>3
  <2>2. CASE k = l + 1
    BY <1>4, <2>1, <2>2
  <2>3. CASE k \in 1..l
    BY <1>2, <1>4, <2>1, <2>3
  <2> QED BY <1>3, <2>2, <2>3
<1>7. \A k \in 1..(l + 1) : t[k].guard = raw[to[k]].guard
  <2> TAKE k \in 1..(l + 1)
  <2>1. CASE k = l + 1
    BY <1>1, <1>4, <2>1 DEF l, t
  <2>2. CASE k \in 1..l
    BY <1>1, <1>2, <1>4, <2>2 DEF l, t
  <2> QED BY <1>3, <2>1, <2>2
<1>8. {i \in 1..(n + 1) : HasGuard(raw[i])} = {to[k] : k \in 1..(l + 1)}
  <2>1. \A i : i \in 1..(n + 1) <=> i \in 1..n \/ i = n + 1
    OBVIOUS
  <2>2. {i \in 1..(n + 1) : HasGuard(raw[i])}
          = {i \in 1..n : HasGuard(raw[i])} \cup {n + 1}
    BY <2>1
  <2>3. {to[k] : k \in 1..(l + 1)} = {at[k] : k \in 1..l} \cup {n + 1}
    BY <1>3, <1>4
  <2> QED BY <1>2, <2>2, <2>3
<1>9. DOMAIN t = 1..(l + 1)
  BY <1>1 DEF l, t
<1> QED BY <1>5, <1>6, <1>7, <1>8, <1>9 DEF InOrderTo, t

(* One that does not leaves them as they are.                              *)
LEMMA RoundSkips ==
  ASSUME NEW s, NEW raw, NEW n \in Nat, InOrderTo(s, raw, n), ~HasGuard(raw[n + 1])
  PROVE  InOrderTo(s, raw, n + 1)
<1>1. PICK at \in [DOMAIN s -> 1..n] :
        /\ \A j, k \in DOMAIN s : j < k => at[j] < at[k]
        /\ \A k \in DOMAIN s : s[k].guard = raw[at[k]].guard
        /\ {i \in 1..n : HasGuard(raw[i])} = {at[k] : k \in DOMAIN s}
  BY DEF InOrderTo
<1>2. \A i : i \in 1..(n + 1) <=> i \in 1..n \/ i = n + 1
  OBVIOUS
<1>3. at \in [DOMAIN s -> 1..(n + 1)]
  BY <1>2
<1>4. {i \in 1..(n + 1) : HasGuard(raw[i])} = {i \in 1..n : HasGuard(raw[i])}
  BY <1>2
<1> QED BY <1>1, <1>3, <1>4 DEF InOrderTo

(* After n rounds the loop has kept what has a guard of the first n rules. *)
LEMMA LoopKeepsGuards ==
  ASSUME NEW raw \in Rules, NEW f, Loop(f, raw, Len(raw))
  PROVE  InOrderTo(f[Len(raw)], raw, Len(raw))
<1> DEFINE R == {Kept(raw[k]) : k \in 1..Len(raw)}
           S == {n \in Nat : n <= Len(raw) => f[n] \in Seq(R) /\ InOrderTo(f[n], raw, n)}
<1>0. Len(raw) \in Nat
  BY LenProperties
<1>1. 0 \in S
  <2>1. f[0] = <<>>
    BY <1>0 DEF Loop
  <2>2. <<>> \in Seq(R) /\ DOMAIN <<>> = {}
    OBVIOUS
  <2>3. InOrderTo(<<>>, raw, 0)
    <3> DEFINE at == [k \in {} |-> 0]
    <3>1. at \in [{} -> 1..0]
      OBVIOUS
    <3>2. {i \in 1..0 : HasGuard(raw[i])} = {} /\ {at[k] : k \in {}} = {}
      OBVIOUS
    <3> QED BY <2>2, <3>1, <3>2 DEF InOrderTo
  <2> QED BY <2>1, <2>2, <2>3
<1>2. ASSUME NEW n \in Nat, n \in S
      PROVE  n + 1 \in S
  <2> SUFFICES ASSUME n + 1 <= Len(raw)
               PROVE  f[n + 1] \in Seq(R) /\ InOrderTo(f[n + 1], raw, n + 1)
    OBVIOUS
  <2>1. f[n] \in Seq(R) /\ InOrderTo(f[n], raw, n)
    BY <1>0, <1>2
  <2>2. f[n + 1] = IF HasGuard(raw[n + 1]) THEN Append(f[n], Kept(raw[n + 1])) ELSE f[n]
    <3>1. n + 1 \in 0..Len(raw) /\ n + 1 # 0 /\ (n + 1) - 1 = n
      BY <1>0
    <3> QED BY <3>1 DEF Loop
  <2>3. Kept(raw[n + 1]) \in R /\ Kept(raw[n + 1]).guard = raw[n + 1].guard
    <3>1. n + 1 \in 1..Len(raw)
      BY <1>0
    <3> QED BY <3>1 DEF Kept
  <2> DEFINE r == Kept(raw[n + 1])
  <2> HIDE DEF r, R
  <2>4. CASE ~HasGuard(raw[n + 1])
    BY <2>1, <2>2, <2>4, RoundSkips
  <2>5. CASE HasGuard(raw[n + 1])
    <3>1. r \in R /\ r.guard = raw[n + 1].guard /\ f[n + 1] = Append(f[n], r)
      BY <2>2, <2>3, <2>5 DEF r
    <3>2. PICK s \in Seq(R) : s = f[n]
      BY <2>1
    <3>3. Append(s, r) \in Seq(R)
      BY ONLY <3>1
    <3>4. InOrderTo(s, raw, n)
      BY <2>1, <3>2
    <3>5. InOrderTo(Append(s, r), raw, n + 1)
      BY <2>5, <3>1, <3>4, RoundKeepsOrder
    <3> QED BY <3>1, <3>2, <3>3, <3>5
  <2> QED BY <2>4, <2>5
<1> HIDE DEF S
<1>3. Nat \subseteq S
  BY <1>1, <1>2, NatSetInduction
<1>4. Len(raw) \in S
  BY <1>0, <1>3
<1> QED BY <1>0, <1>4 DEF S

(* However many rules a frame has, those with a guard are kept, in order.  *)
LEMMA WaitRulesKeepGuards ==
  ASSUME NEW raw \in Rules
  PROVE  InOrder(WaitRules(raw), raw)
<1> DEFINE rules == CHOOSE f : Loop(f, raw, Len(raw))
<1>1. Len(raw) \in Nat
  BY LenProperties
<1>2. Loop(rules, raw, Len(raw))
  BY <1>1, LoopExists
<1>3. WaitRules(raw) = rules[Len(raw)]
  BY DEF WaitRules, Loop
<1> HIDE DEF rules
<1>4. InOrderTo(rules[Len(raw)], raw, Len(raw))
  BY <1>2, LoopKeepsGuards
<1>5. DOMAIN raw = 1..Len(raw)
  BY LenProperties
<1>6. Guarding(raw) = {i \in 1..Len(raw) : HasGuard(raw[i])}
  BY <1>5 DEF Guarding, HasGuard, IsText
<1> QED BY <1>3, <1>4, <1>5, <1>6 DEF InOrder, InOrderTo

-----------------------------------------------------------------------------
(* Half an integer, rounded down, is a natural if it was positive.         *)
LEMMA PositiveInt ==
  ASSUME NEW value, value.halves \in Int
  PROVE  _positive_int(value) \in Nat
<1>1. \A h \in Int : h > 0 => h \div 2 \in Nat
  OBVIOUS
<1> QED BY <1>1 DEF _positive_int

(* The job is the frame, parsed.                                           *)
Parsed == msg \in Frames /\ (job # NoJob => job = parse_fetch_frame(msg))

(* Whatever the gateway sends, the job that is handed to the crawl is in   *)
(* order: no rule with a guard is lost, or moved, for a malformed one      *)
(* beside it.                                                              *)
THEOREM JobIsInOrder == Spec => []JobOK
<1>1. Init => Parsed
  BY DEF Init, Parsed
<1>2. Parsed /\ [Next]_vars => Parsed'
  BY DEF Parsed, Next, Parse, CheckUrl, NoLookup, Lookup, Launch, vars
<1>3. Parsed => JobOK
  <2> SUFFICES ASSUME Parsed, job # NoJob
               PROVE  /\ job.settleMs \in Nat /\ job.detectMs \in Nat
                      /\ IsText(job.waitFor)
                      /\ InOrder(job.waitRules, msg.waitRules)
    BY DEF JobOK
  <2>1. /\ job = parse_fetch_frame(msg) /\ msg \in Frames /\ job # NoJob
    BY DEF Parsed
  <2>2. /\ job.settleMs = _positive_int(msg.settleMs)
        /\ job.detectMs = _positive_int(msg.detectMs)
        /\ IsText(job.waitFor)
        /\ job.waitRules = WaitRules(msg.waitRules)
    BY <2>1 DEF parse_fetch_frame, IsText
  <2>3. /\ msg.settleMs.halves \in Int /\ msg.detectMs.halves \in Int
        /\ msg.waitRules \in Rules
    BY <2>1, AdmissionAssumption
  <2>4. job.settleMs \in Nat /\ job.detectMs \in Nat
    BY <2>2, <2>3, PositiveInt
  <2> QED BY <2>2, <2>3, <2>4, WaitRulesKeepGuards
<1> QED BY <1>1, <1>2, <1>3, PTL DEF Spec
=============================================================================
