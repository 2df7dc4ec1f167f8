------------------------- MODULE PipelineWireProofs -------------------------
(* Theorems about Pipeline that relate the wire to the verdict: what packets *)
(* a connection has, what a record shows of them, and what becomes of it.    *)
EXTENDS PipelineProofs, SequenceTheorems

(***************************************************************************)
(* The packets of a connection, by their place.                            *)
(***************************************************************************)
Texts(c) == {Text("server", c.advertises),
             Text("client", c.client # "plain" /\ c.protocol # "POP3")}
Hello == Packet("client", {ClientHello}, {Handshake})
Refusal(c) == FatalAlert("server", TRUE, c)
Rejection(c) == FatalAlert("client", c.version # "TLS1.3" \/ c.keys, c)
Dying(c) == FatalAlert("server", c.keys, c)
ServerFinish(c) ==
  Packet("server", IF c.keys THEN {Finished} ELSE {}, {ChangeCipherSpec, Handshake})
Wire(c) ==
  Texts(c) \cup {Hello, Refusal(c), Rejection(c), Dying(c), ServerFlight(c), ClientFlight(c),
                 ServerFinish(c), Data("client", c), Data("server", c)}

(* Two sequences after each other.                                         *)
LEMMA Joined ==
  ASSUME NEW S, NEW s \in Seq(S), NEW t \in Seq(S)
  PROVE  /\ Len(s) \in Nat /\ Len(t) \in Nat
         /\ s \o t \in Seq(S) /\ Len(s \o t) = Len(s) + Len(t)
         /\ \A i \in 1..Len(s) : (s \o t)[i] = s[i]
         /\ \A i \in 1..Len(t) : (s \o t)[Len(s) + i] = t[i]
<1>1. Len(s) \in Nat /\ Len(t) \in Nat
  BY LenProperties
<1>2. /\ s \o t \in Seq(S) /\ Len(s \o t) = Len(s) + Len(t)
      /\ \A i \in 1..(Len(s) + Len(t)) :
           (s \o t)[i] = IF i <= Len(s) THEN s[i] ELSE t[i - Len(s)]
  BY ConcatProperties
<1>3. ASSUME NEW i \in 1..Len(t) PROVE (s \o t)[Len(s) + i] = t[i]
  <2>1. /\ Len(s) + i \in 1..(Len(s) + Len(t)) /\ ~(Len(s) + i <= Len(s))
        /\ (Len(s) + i) - Len(s) = i
    BY <1>1
  <2>2. QED
    BY <1>2, <2>1
<1>4. QED
  BY <1>1, <1>2, <1>3

(* An established connection's packets, after the server's flight.         *)
LEMMA EstablishedLayout ==
  ASSUME NEW c
  PROVE  /\ Established(c) \in Seq(Wire(c)) /\ Len(Established(c)) \in Nat \ {0}
         /\ Established(c)[1] = ClientFlight(c)
         /\ c.version # "TLS1.3" =>
              /\ Len(Established(c)) = IF c.dies THEN 5 ELSE 4
              /\ Established(c)[2] = ServerFinish(c)
              /\ Established(c)[3] = Data("client", c) /\ Established(c)[4] = Data("server", c)
              /\ c.dies => Established(c)[5] = Dying(c)
<1> DEFINE S == Wire(c)
           a == ClientFlight(c)
           m == IF c.version = "TLS1.3" THEN << >> ELSE <<ServerFinish(c)>>
           d == <<Data("client", c), Data("server", c)>>
           l == IF c.dies THEN <<Dying(c)>> ELSE << >>
<1>1. Established(c) = ((<<a>> \o m) \o d) \o l
  BY DEF Established, ServerFinish, Dying
<1>2. a \in S /\ ServerFinish(c) \in S /\ Data("client", c) \in S /\ Data("server", c) \in S
      /\ Dying(c) \in S
  BY DEF Wire
<1>3. /\ m \in Seq(S) /\ l \in Seq(S) /\ d \in Seq(S) /\ Len(d) = 2
      /\ d[1] = Data("client", c) /\ d[2] = Data("server", c)
      /\ Len(m) = (IF c.version = "TLS1.3" THEN 0 ELSE 1)
      /\ (c.version # "TLS1.3" => m[1] = ServerFinish(c))
      /\ Len(l) = (IF c.dies THEN 1 ELSE 0) /\ (c.dies => l[1] = Dying(c))
  <2> HIDE DEF S
  <2>1. << >> \in Seq(S) /\ Len(<< >>) = 0
    BY EmptySeq
  <2>2. m \in Seq(S) /\ l \in Seq(S) /\ d \in Seq(S)
    BY <1>2, <2>1
  <2>3. \A x : Len(<<x>>) = 1 /\ <<x>>[1] = x
    OBVIOUS
  <2>4. /\ Len(m) = (IF c.version = "TLS1.3" THEN 0 ELSE 1)
        /\ (c.version # "TLS1.3" => m[1] = ServerFinish(c))
    BY <2>1, <2>3
  <2>5. Len(l) = (IF c.dies THEN 1 ELSE 0) /\ (c.dies => l[1] = Dying(c))
    BY <2>1, <2>3
  <2>6. Len(d) = 2 /\ d[1] = Data("client", c) /\ d[2] = Data("server", c)
    OBVIOUS
  <2>7. QED
    BY <2>2, <2>4, <2>5, <2>6
<1> HIDE DEF S, a, m, d, l
<1>s. m \in Seq(S) /\ d \in Seq(S) /\ l \in Seq(S)
  BY <1>3
<1> DEFINE am == <<a>> \o m
           amd == am \o d
           e == amd \o l
<1>4. /\ Len(m) \in Nat /\ am \in Seq(S) /\ Len(am) = 1 + Len(m) /\ am[1] = a
      /\ \A i \in 1..Len(m) : am[1 + i] = m[i]
  <2>1. <<a>> \in Seq(S) /\ Len(<<a>>) = 1 /\ <<a>>[1] = a
    BY <1>2
  <2> DEFINE one == <<a>>
  <2> HIDE DEF one
  <2>2. one \in Seq(S) /\ Len(one) = 1 /\ one[1] = a
    BY <2>1 DEF one
  <2>3. /\ Len(m) \in Nat /\ one \o m \in Seq(S) /\ Len(one \o m) = Len(one) + Len(m)
        /\ \A i \in 1..Len(one) : (one \o m)[i] = one[i]
        /\ \A i \in 1..Len(m) : (one \o m)[Len(one) + i] = m[i]
    <3>1. m \in Seq(S)
      BY <1>s
    <3>2. QED
      BY <3>1, <2>2, Joined
  <2>4. QED
    BY <2>2, <2>3 DEF one
<1> HIDE DEF am
<1>5. /\ amd \in Seq(S) /\ Len(amd) = Len(am) + 2
      /\ \A i \in 1..Len(am) : amd[i] = am[i]
      /\ \A i \in 1..2 : amd[Len(am) + i] = d[i]
  <2>s. am \in Seq(S)
    BY <1>4
  <2>1. /\ am \o d \in Seq(S) /\ Len(am \o d) = Len(am) + Len(d)
        /\ \A i \in 1..Len(am) : (am \o d)[i] = am[i]
        /\ \A i \in 1..Len(d) : (am \o d)[Len(am) + i] = d[i]
    BY <1>s, <2>s, Joined
  <2>2. QED
    BY <1>3, <2>1
<1> HIDE DEF amd
<1>6. /\ Len(l) \in Nat /\ e \in Seq(S) /\ Len(e) = Len(amd) + Len(l)
      /\ \A i \in 1..Len(amd) : e[i] = amd[i]
      /\ \A i \in 1..Len(l) : e[Len(amd) + i] = l[i]
  <2>1. amd \in Seq(S)
    BY <1>5
  <2>2. QED
    BY <1>s, <2>1, Joined
<1> HIDE DEF e
<1>7. Established(c) = e
  BY <1>1 DEF am, amd, e
<1>8. Len(am) = 1 + Len(m) /\ Len(amd) = 3 + Len(m) /\ Len(e) = 3 + Len(m) + Len(l)
  BY <1>4, <1>5, <1>6
<1>9. e[1] = a
  <2>1. 1 \in 1..Len(am) /\ 1 \in 1..Len(amd)
    BY <1>4, <1>8
  <2>2. QED
    BY <1>4, <1>5, <1>6, <2>1
<1>10. e \in Seq(S) /\ Len(e) \in Nat \ {0}
  BY <1>4, <1>6, <1>8
<1>11. CASE c.version = "TLS1.3"
  BY <1>7, <1>9, <1>10, <1>11 DEF S, a
<1>12. CASE c.version # "TLS1.3"
  <2>1. Len(m) = 1 /\ Len(am) = 2 /\ Len(amd) = 4 /\ Len(e) = 4 + Len(l)
    BY <1>3, <1>6, <1>8, <1>12
  <2>2. am[2] = m[1]
    <3>1. 1 \in 1..Len(m) /\ 1 + 1 = 2
      BY <2>1
    <3>2. QED
      BY <1>4, <3>1
  <2>3. amd[2] = am[2] /\ amd[3] = d[1] /\ amd[4] = d[2]
    <3>1. 2 \in 1..Len(am) /\ 1 \in 1..2 /\ 2 \in 1..2 /\ Len(am) + 1 = 3 /\ Len(am) + 2 = 4
      BY <2>1
    <3>2. QED
      BY <1>5, <3>1
  <2>4. e[2] = amd[2] /\ e[3] = amd[3] /\ e[4] = amd[4]
    <3>1. 2 \in 1..Len(amd) /\ 3 \in 1..Len(amd) /\ 4 \in 1..Len(amd)
      BY <2>1
    <3>2. QED
      BY <1>6, <3>1
  <2>5. c.dies => e[5] = l[1] /\ Len(l) = 1
    <3> SUFFICES ASSUME c.dies PROVE e[5] = l[1] /\ Len(l) = 1
      OBVIOUS
    <3>1. Len(l) = 1 /\ 1 \in 1..Len(l) /\ Len(amd) + 1 = 5
      BY <1>3, <2>1
    <3>2. QED
      BY <1>6, <3>1
  <2>6. ~c.dies => Len(l) = 0
    BY <1>3
  <2>7. QED
    BY <1>3, <1>7, <1>9, <1>10, <1>12, <2>1, <2>2, <2>3, <2>4, <2>5, <2>6 DEF S, a
<1>13. QED
  BY <1>11, <1>12

(* One packet before a sequence of them.                                   *)
LEMMA Before ==
  ASSUME NEW S, NEW a \in S, NEW t \in Seq(S)
  PROVE  /\ Len(t) \in Nat /\ <<a>> \o t \in Seq(S) /\ Len(<<a>> \o t) = 1 + Len(t)
         /\ (<<a>> \o t)[1] = a
         /\ \A i \in 1..Len(t) : (<<a>> \o t)[1 + i] = t[i]
<1> DEFINE one == <<a>>
<1>1. one \in Seq(S) /\ Len(one) = 1 /\ one[1] = a
  OBVIOUS
<1> HIDE DEF one
<1>2. /\ Len(t) \in Nat /\ one \o t \in Seq(S) /\ Len(one \o t) = Len(one) + Len(t)
      /\ \A i \in 1..Len(one) : (one \o t)[i] = one[i]
      /\ \A i \in 1..Len(t) : (one \o t)[Len(one) + i] = t[i]
  BY <1>1, Joined
<1>3. QED
  BY <1>1, <1>2 DEF one

(* How a connection ends.                                                  *)
Silent(c) == c.client \in {"plain", "aborts"}
Refused(c) == ~Silent(c) /\ c.refuses
Rejected(c) == ~Silent(c) /\ ~c.refuses /\ c.client = "rejects"
Connected(c) == ~Silent(c) /\ ~c.refuses /\ c.client # "rejects"

LEMMA GreetingLayout ==
  ASSUME NEW c
  PROVE  /\ Greeting(c) \in Seq(Wire(c)) /\ Len(Greeting(c)) = IF c.implicit THEN 0 ELSE 2
         /\ \A i \in 1..Len(Greeting(c)) : Greeting(c)[i] \in Texts(c)
         /\ ~c.implicit => Greeting(c)[1] = Text("server", c.advertises)
<1> DEFINE a == Text("server", c.advertises)
           b == Text("client", c.client # "plain" /\ c.protocol # "POP3")
           S == Wire(c)
<1>1. a \in Texts(c) /\ b \in Texts(c) /\ a \in S /\ b \in S
  BY DEF Texts, Wire
<1>2. Greeting(c) = IF c.implicit THEN << >> ELSE <<a, b>>
  BY DEF Greeting
<1> HIDE DEF a, b, S
<1>3. CASE c.implicit
  <2>1. << >> \in Seq(S) /\ Len(<< >>) = 0
    BY EmptySeq
  <2>2. QED
    BY <1>2, <1>3, <2>1 DEF S
<1>4. CASE ~c.implicit
  <2>1. <<a, b>> \in Seq(S) /\ Len(<<a, b>>) = 2 /\ <<a, b>>[1] = a /\ <<a, b>>[2] = b
    BY <1>1
  <2>2. \A i \in 1..2 : i = 1 \/ i = 2
    OBVIOUS
  <2>3. QED
    BY <1>1, <1>2, <1>4, <2>1, <2>2 DEF S, a
<1>5. QED
  BY <1>3, <1>4

(* The packets s of connection c, the first g of them in plaintext.        *)
Laid(c, g, s) == g = Len(Greeting(c)) /\ s = Packets(c)

(* What stands where in s: the greeting, the hello, and what follows it.   *)
Layout(c, g, s) ==
  /\ s \in Seq(Wire(c)) /\ Len(s) \in Nat /\ g \in {0, 2}
  /\ \A i \in 1..g : i <= Len(s) /\ s[i] \in Texts(c)
  /\ ~c.implicit => g = 2 /\ s[1] = Text("server", c.advertises)
  /\ Silent(c) => Len(s) = g
  /\ ~Silent(c) => s[g + 1] = Hello
  /\ Refused(c) => Len(s) = g + 2 /\ s[g + 2] = Refusal(c)
  /\ Rejected(c) \/ Connected(c) => s[g + 2] = ServerFlight(c)
  /\ Rejected(c) => Len(s) = g + 3 /\ s[g + 3] = Rejection(c)
  /\ Connected(c) => /\ Len(s) = g + 2 + Len(Established(c))
                     /\ \A i \in 1..Len(Established(c)) : s[g + 2 + i] = Established(c)[i]

LEMMA PacketsLayout ==
  ASSUME NEW c, NEW g, NEW s, Laid(c, g, s)
  PROVE  Layout(c, g, s)
<1> DEFINE S == Wire(c)
           e == Established(c)
           r3 == IF c.client = "rejects" THEN <<Rejection(c)>> ELSE e
           r2 == IF c.refuses THEN <<Refusal(c)>> ELSE <<ServerFlight(c)>> \o r3
           r1 == IF Silent(c) THEN << >> ELSE <<Hello>> \o r2
           gr == Greeting(c)
<1>1. s = gr \o r1
  BY DEF Laid, Packets, Rejection, Refusal, Hello, Silent
<1>2. /\ Hello \in S /\ Refusal(c) \in S /\ Rejection(c) \in S /\ ServerFlight(c) \in S
  BY DEF Wire
<1>3. e \in Seq(S) /\ Len(e) \in Nat
  BY EstablishedLayout
<1>4. /\ gr \in Seq(S) /\ Len(gr) = g /\ (g = IF c.implicit THEN 0 ELSE 2)
      /\ (\A i \in 1..g : gr[i] \in Texts(c))
      /\ (~c.implicit => gr[1] = Text("server", c.advertises))
  BY GreetingLayout DEF Laid
<1> HIDE DEF S, e, gr
<1>5. /\ r3 \in Seq(S) /\ Len(r3) \in Nat
      /\ (c.client = "rejects" => Len(r3) = 1 /\ r3[1] = Rejection(c))
      /\ (c.client # "rejects" => r3 = e)
  <2>1. <<Rejection(c)>> \in Seq(S) /\ Len(<<Rejection(c)>>) = 1
        /\ <<Rejection(c)>>[1] = Rejection(c)
    BY <1>2
  <2>2. QED
    BY <1>3, <2>1
<1> HIDE DEF r3
<1> DEFINE r == <<ServerFlight(c)>> \o r3
<1>6. /\ r \in Seq(S) /\ Len(r) = 1 + Len(r3) /\ r[1] = ServerFlight(c)
      /\ \A i \in 1..Len(r3) : r[1 + i] = r3[i]
  BY <1>2, <1>5, Before
<1>7. r2 = IF c.refuses THEN <<Refusal(c)>> ELSE r
  OBVIOUS
<1> HIDE DEF r, r2
<1>8. /\ r2 \in Seq(S) /\ Len(r2) \in Nat
      /\ (c.refuses => Len(r2) = 1 /\ r2[1] = Refusal(c))
      /\ (~c.refuses => r2 = r)
  <2>1. <<Refusal(c)>> \in Seq(S) /\ Len(<<Refusal(c)>>) = 1 /\ <<Refusal(c)>>[1] = Refusal(c)
    BY <1>2
  <2>2. QED
    BY <1>5, <1>6, <1>7, <2>1
<1> DEFINE q == <<Hello>> \o r2
<1>9. /\ q \in Seq(S) /\ Len(q) = 1 + Len(r2) /\ q[1] = Hello
      /\ \A i \in 1..Len(r2) : q[1 + i] = r2[i]
  BY <1>2, <1>8, Before
<1>10. r1 = IF Silent(c) THEN << >> ELSE q
  OBVIOUS
<1> HIDE DEF q, r1
<1>11. /\ r1 \in Seq(S) /\ (Silent(c) => Len(r1) = 0) /\ (~Silent(c) => r1 = q)
  <2>1. << >> \in Seq(S) /\ Len(<< >>) = 0
    BY EmptySeq
  <2>2. QED
    BY <1>9, <1>10, <2>1
<1>12. /\ Len(r1) \in Nat /\ s \in Seq(S) /\ Len(s) = g + Len(r1)
       /\ \A i \in 1..g : s[i] = gr[i]
       /\ \A i \in 1..Len(r1) : s[g + i] = r1[i]
  <2>1. gr \in Seq(S)
    BY <1>4
  <2>2. r1 \in Seq(S)
    BY <1>11
  <2>3. /\ Len(r1) \in Nat /\ gr \o r1 \in Seq(S) /\ Len(gr \o r1) = Len(gr) + Len(r1)
        /\ \A i \in 1..Len(gr) : (gr \o r1)[i] = gr[i]
        /\ \A i \in 1..Len(r1) : (gr \o r1)[Len(gr) + i] = r1[i]
    BY <2>1, <2>2, Joined
  <2>4. QED
    BY <1>1, <1>4, <2>3
<1>13. g \in {0, 2} /\ Len(s) \in Nat
  BY <1>4, <1>12
<1>14. \A i \in 1..g : i <= Len(s) /\ s[i] \in Texts(c)
  BY <1>4, <1>12, <1>13
<1>15. ~c.implicit => g = 2 /\ s[1] = Text("server", c.advertises)
  <2> SUFFICES ASSUME ~c.implicit PROVE g = 2 /\ s[1] = Text("server", c.advertises)
    OBVIOUS
  <2>1. g = 2 /\ 1 \in 1..g
    BY <1>4
  <2>2. QED
    BY <1>4, <1>12, <2>1
<1>16. Silent(c) => Len(s) = g
  BY <1>11, <1>12, <1>13
<1>17. ASSUME ~Silent(c)
       PROVE  /\ Len(s) = g + 1 + Len(r2) /\ s[g + 1] = Hello
              /\ \A i \in 1..Len(r2) : s[g + 1 + i] = r2[i]
  <2>1. Len(r1) = 1 + Len(r2) /\ r1[1] = Hello /\ \A i \in 1..Len(r2) : r1[1 + i] = r2[i]
    BY <1>9, <1>11, <1>17
  <2>2. Len(s) = g + 1 + Len(r2)
    BY <1>8, <1>12, <1>13, <2>1
  <2>3. 1 \in 1..Len(r1)
    BY <1>8, <2>1
  <2>4. \A i \in 1..Len(r2) : 1 + i \in 1..Len(r1) /\ g + (1 + i) = g + 1 + i
    BY <1>8, <1>13, <2>1
  <2>5. QED
    BY <1>12, <2>1, <2>2, <2>3, <2>4
<1>18. Refused(c) => Len(s) = g + 2 /\ s[g + 2] = Refusal(c)
  <2> SUFFICES ASSUME Refused(c) PROVE Len(s) = g + 2 /\ s[g + 2] = Refusal(c)
    OBVIOUS
  <2>1. ~Silent(c) /\ Len(r2) = 1 /\ r2[1] = Refusal(c)
    BY <1>8 DEF Refused
  <2>2. 1 \in 1..Len(r2) /\ g + 1 + 1 = g + 2
    BY <1>13, <2>1
  <2>3. QED
    BY <1>17, <2>1, <2>2
<1>19. ASSUME ~Silent(c), ~c.refuses
       PROVE  /\ Len(s) = g + 2 + Len(r3) /\ s[g + 2] = ServerFlight(c)
              /\ \A i \in 1..Len(r3) : s[g + 2 + i] = r3[i]
  <2>1. Len(r2) = 1 + Len(r3) /\ r2[1] = ServerFlight(c)
        /\ \A i \in 1..Len(r3) : r2[1 + i] = r3[i]
    BY <1>6, <1>8, <1>19
  <2>2. Len(s) = g + 2 + Len(r3)
    BY <1>5, <1>13, <1>17, <1>19, <2>1
  <2>3. 1 \in 1..Len(r2) /\ g + 1 + 1 = g + 2
    BY <1>5, <1>13, <2>1
  <2>4. \A i \in 1..Len(r3) : 1 + i \in 1..Len(r2) /\ g + 1 + (1 + i) = g + 2 + i
    BY <1>5, <1>13, <2>1
  <2>5. QED
    BY <1>17, <1>19, <2>1, <2>2, <2>3, <2>4
<1>20. Rejected(c) \/ Connected(c) => s[g + 2] = ServerFlight(c)
  BY <1>19 DEF Rejected, Connected
<1>21. Rejected(c) => Len(s) = g + 3 /\ s[g + 3] = Rejection(c)
  <2> SUFFICES ASSUME Rejected(c) PROVE Len(s) = g + 3 /\ s[g + 3] = Rejection(c)
    OBVIOUS
  <2>1. Len(r3) = 1 /\ r3[1] = Rejection(c) /\ ~Silent(c) /\ ~c.refuses
    BY <1>5 DEF Rejected
  <2>2. 1 \in 1..Len(r3) /\ g + 2 + 1 = g + 3
    BY <1>13, <2>1
  <2>3. QED
    BY <1>19, <2>1, <2>2
<1>22. Connected(c) => /\ Len(s) = g + 2 + Len(e)
                       /\ \A i \in 1..Len(e) : s[g + 2 + i] = e[i]
  BY <1>5, <1>19 DEF Connected
<1>23. QED
  BY <1>12, <1>13, <1>14, <1>15, <1>16, <1>17, <1>18, <1>20, <1>21, <1>22 DEF S, e, Layout

(***************************************************************************)
(* What a packet gives away: that the client has finished, or data.        *)
(***************************************************************************)
Telling(p) ==
  \/ ApplicationData \in p.records
  \/ p.from = "client" /\ (Finished \in p.types \/ ChangeCipherSpec \in p.records)
Hidden(c) == c.version = "TLS1.3" /\ ~c.keys /\ c.opaque

LEMMA PacketShows ==
  ASSUME NEW from, NEW types, NEW records, NEW p, p = Packet(from, types, records)
  PROVE  /\ p.from = from /\ p.text = FALSE /\ p.types = types /\ p.records = records
         /\ p.fatal = FALSE /\ p.hello = {} /\ p.certificate = {}
BY DEF Packet

LEMMA TextShows ==
  ASSUME NEW c, NEW p \in Texts(c)
  PROVE  /\ p.types = {} /\ p.records = {} /\ p.fatal = FALSE /\ p.hello = {}
         /\ p.certificate = {}
BY DEF Texts, Text, Packet

LEMMA AlertShows ==
  ASSUME NEW from, NEW visible, NEW c, NEW p, p = FatalAlert(from, visible, c)
  PROVE  /\ p.from = from /\ p.text = FALSE /\ p.types = {} /\ p.hello = {}
         /\ p.certificate = {} /\ ChangeCipherSpec \notin p.records
         /\ (visible => p.fatal = TRUE /\ p.records = {Alert})
         /\ (~visible => p.fatal = FALSE)
         /\ (ApplicationData \in p.records => ~visible /\ c.version = "TLS1.3" /\ c.opaque)
BY DEF FatalAlert, Packet, Alert, ChangeCipherSpec, ApplicationData

LEMMA FlightShows ==
  ASSUME NEW c, NEW p, p = ServerFlight(c)
  PROVE  /\ p.from = "server" /\ p.text = FALSE /\ p.fatal = FALSE /\ p.hello = {c}
         /\ ServerHello \in p.types /\ ClientHello \notin p.types
         /\ (ApplicationData \in p.records => Hidden(c))
<1>1. CASE c.version = "TLS1.3"
  <2> DEFINE types == {ServerHello} \cup IF c.keys THEN {Certificate, Finished} ELSE {}
             records == {Handshake, ChangeCipherSpec} \cup Encrypted(c)
             certificates == IF c.keys THEN {c.certificate} ELSE {}
  <2>1. ServerHello \in types /\ ClientHello \notin types
    BY DEF ServerHello, ClientHello, Certificate, Finished
  <2>2. ApplicationData \in records => Hidden(c)
    BY <1>1 DEF Encrypted, Hidden, ApplicationData, Handshake, ChangeCipherSpec
  <2>3. ServerFlight(c) = [Packet("server", types, records) EXCEPT
                             !.hello = {c}, !.certificate = certificates]
    BY <1>1 DEF ServerFlight
  <2> HIDE DEF types, records, certificates
  <2>4. QED
    BY <2>1, <2>2, <2>3 DEF Packet
<1>2. CASE c.version # "TLS1.3"
  <2>1. ServerFlight(c) = [Packet("server", {ServerHello, Certificate}, {Handshake}) EXCEPT
                             !.hello = {c}, !.certificate = {c.certificate}]
    BY <1>2 DEF ServerFlight
  <2>2. QED
    BY <2>1 DEF Packet, ServerHello, ClientHello, Certificate, ApplicationData, Handshake
<1>3. QED
  BY <1>1, <1>2

(* Nothing before the client's last flight tells, nor do refusals.         *)
LEMMA EarlyPackets ==
  ASSUME NEW c, ~Hidden(c), NEW p,
         p \in Texts(c) \/ p = Hello \/ p = Refusal(c) \/ p = Rejection(c) \/ p = ServerFlight(c)
  PROVE  ~Telling(p)
<1>1. CASE p \in Texts(c)
  BY <1>1, TextShows DEF Telling
<1>2. CASE p = Hello
  <2>1. p.types = {ClientHello} /\ p.records = {Handshake}
    BY <1>2 DEF Hello, Packet
  <2>2. QED
    BY <2>1 DEF Telling, ClientHello, Handshake, ApplicationData, ChangeCipherSpec, Finished
<1>3. CASE p = Refusal(c)
  <2>1. p.types = {} /\ p.records = {Alert}
    BY <1>3 DEF Refusal, FatalAlert, Packet
  <2>2. QED
    BY <2>1 DEF Telling, Alert, ApplicationData, ChangeCipherSpec
<1>4. CASE p = Rejection(c)
  <2> DEFINE visible == c.version # "TLS1.3" \/ c.keys
  <2>1. /\ p.types = {} /\ ChangeCipherSpec \notin p.records
        /\ (ApplicationData \in p.records => ~visible /\ c.version = "TLS1.3" /\ c.opaque)
    <3> HIDE DEF visible
    <3>1. p = FatalAlert("client", visible, c)
      BY <1>4 DEF Rejection, visible
    <3>2. CASE visible
      <4>1. p.types = {} /\ p.records = {Alert}
        BY <3>1, <3>2 DEF FatalAlert, Packet
      <4>2. QED
        BY <4>1 DEF ApplicationData, ChangeCipherSpec, Alert
    <3>3. CASE ~visible
      <4> DEFINE shown == IF c.version # "TLS1.3" THEN {Alert}
                          ELSE IF c.opaque THEN {ApplicationData} ELSE {}
      <4>1. p = Packet("client", {}, shown)
        BY <3>1, <3>3 DEF FatalAlert
      <4>2. /\ ChangeCipherSpec \notin shown
            /\ ApplicationData \in shown => c.version = "TLS1.3" /\ c.opaque
        BY DEF ApplicationData, Alert, ChangeCipherSpec
      <4> HIDE DEF shown
      <4>3. p.types = {} /\ p.records = shown
        BY <4>1 DEF Packet
      <4>4. QED
        BY <3>3, <4>2, <4>3
    <3>4. QED
      BY <3>2, <3>3
  <2>2. QED
    BY <2>1 DEF Telling, Hidden
<1>5. CASE p = ServerFlight(c)
  BY <1>5, FlightShows DEF Telling
<1>6. QED
  BY <1>1, <1>2, <1>3, <1>4, <1>5

(* A telling packet does not come before the client's last flight.         *)
LEMMA FlightFirst ==
  ASSUME NEW c, ~Hidden(c), NEW k \in 1..Len(Packets(c)), Telling(Packets(c)[k])
  PROVE  \E j \in 1..k : Packets(c)[j] = ClientFlight(c)
<1>p. PICK g, s : Laid(c, g, s) /\ s = Packets(c)
  BY DEF Laid
<1>1. /\ Len(s) \in Nat /\ g \in {0, 2}
      /\ (\A i \in 1..g : s[i] \in Texts(c))
      /\ (Silent(c) => Len(s) = g)
      /\ (~Silent(c) => s[g + 1] = Hello)
      /\ (Refused(c) => Len(s) = g + 2 /\ s[g + 2] = Refusal(c))
      /\ (Rejected(c) \/ Connected(c) => s[g + 2] = ServerFlight(c))
      /\ (Rejected(c) => Len(s) = g + 3 /\ s[g + 3] = Rejection(c))
      /\ (Connected(c) => /\ Len(s) = g + 2 + Len(Established(c))
                          /\ \A i \in 1..Len(Established(c)) :
                               s[g + 2 + i] = Established(c)[i])
  <2>1. Layout(c, g, s)
    BY <1>p, PacketsLayout
  <2>2. QED
    BY <2>1 DEF Layout
<1>2. ~(s[k] \in Texts(c)) /\ s[k] # Hello /\ s[k] # Refusal(c) /\ s[k] # Rejection(c)
      /\ s[k] # ServerFlight(c)
  BY <1>p, EarlyPackets
<1>3. k \in Nat /\ 1 <= k /\ k <= Len(s)
  BY <1>1, <1>p
<1>4. Connected(c) /\ k > g + 2
  <2>1. k > g
    BY <1>1, <1>2, <1>3
  <2>2. ~Silent(c) /\ k > g + 1
    BY <1>1, <1>2, <1>3, <2>1
  <2>3. ~Refused(c)
    BY <1>1, <1>2, <1>3, <2>2
  <2>4. Rejected(c) \/ Connected(c)
    BY <2>2, <2>3 DEF Refused, Rejected, Connected
  <2>5. k > g + 2
    BY <1>1, <1>2, <1>3, <2>2, <2>4
  <2>6. ~Rejected(c)
    BY <1>1, <1>2, <1>3, <2>5
  <2>7. QED
    BY <2>4, <2>5, <2>6
<1>5. Established(c)[1] = ClientFlight(c) /\ 1 \in 1..Len(Established(c))
  BY EstablishedLayout
<1>6. s[g + 3] = ClientFlight(c) /\ g + 3 \in 1..k
  <2>1. s[g + 2 + 1] = ClientFlight(c) /\ g + 2 + 1 = g + 3
    BY <1>1, <1>4, <1>5
  <2>2. QED
    BY <2>1, <1>1, <1>3, <1>4
<1>7. QED
  BY <1>6, <1>p

(* A handshake that the extractor takes for a success has a packet to tell *)
(* of it, whichever were captured.                                         *)
LEMMA SuccessTells ==
  ASSUME NEW rows, HandshakeSuccess(rows)
  PROVE  \E i \in DOMAIN rows : Telling(rows[i])
BY DEF HandshakeSuccess, ClientHandshakeSucceeded, ApplicationDataFrames, ChangesCipher, Telling

(* The frames of a capture are packets that were sent, in their order.     *)
LEMMA Frames ==
  ASSUME IndInv
  PROVE  /\ Cardinality(captured) \in Nat /\ DOMAIN Rows = 1..Cardinality(captured)
         /\ \A i \in DOMAIN Rows : \E k \in captured : Rows[i] = Packets(Connection)[k]
<1> DEFINE Place(n) == Cardinality({m \in captured : m <= n})
           size == Cardinality(captured)
           place == [n \in captured |-> Place(n)]
<1>1. IsFiniteSet(captured) /\ size \in Nat /\ captured \subseteq Nat
  BY CapturedIsFinite DEF IndInv, TypeOK
<1>2. ASSUME NEW n \in captured
      PROVE  /\ IsFiniteSet({m \in captured : m <= n}) /\ Place(n) \in Nat
             /\ Place(n) <= size /\ Place(n) # 0
  <2> DEFINE upto == {m \in captured : m <= n}
  <2>1. IsFiniteSet(upto) /\ Cardinality(upto) <= size
    BY <1>1, FS_Subset
  <2>2. n \in upto
    BY <1>1
  <2> HIDE DEF upto
  <2>3. Cardinality(upto) \in Nat /\ Cardinality(upto) # 0
    BY <2>1, <2>2, FS_CardinalityType, FS_EmptySet
  <2>4. QED
    BY <2>1, <2>3 DEF upto
<1>3. ASSUME NEW m \in captured, NEW n \in captured, m < n PROVE Place(m) # Place(n)
  <2> DEFINE a == {k \in captured : k <= m}
             b == {k \in captured : k <= n}
  <2>0. m \in Nat /\ n \in Nat /\ \A k \in captured : k \in Nat
    BY <1>1
  <2>1. a \subseteq b
    <3>1. ASSUME NEW k \in captured, k <= m PROVE k <= n
      BY <2>0, <1>3, <3>1
    <3>2. QED
      BY <3>1
  <2>g. n \in b /\ n \notin a
    BY <2>0, <1>3
  <2>f. IsFiniteSet(b)
    BY <1>2
  <2> HIDE DEF a, b
  <2>2. Cardinality(b) # Cardinality(a)
    BY <2>1, <2>f, <2>g, FS_Subset
  <2>3. QED
    BY <2>2 DEF a, b
<1>4. place \in Injection(captured, 1..size)
  <2>1. \A n \in captured : Place(n) \in 1..size
    BY <1>1, <1>2
  <2>2. \A m, n \in captured : Place(m) = Place(n) => m = n
    BY <1>1, <1>3
  <2> HIDE DEF Place, size
  <2>3. QED
    BY <2>1, <2>2 DEF Injection, IsInjective
<1>5. IsFiniteSet(1..size) /\ Cardinality(1..size) = size
  <2>1. 1 \in Int /\ size \in Int /\ (1 > size => size = 0) /\ size - 1 + 1 = size
    BY <1>1
  <2> HIDE DEF size
  <2>2. QED
    BY <2>1, FS_Interval
<1>6. place \in Surjection(captured, 1..size)
  BY <1>4, <1>5, FS_Injection
<1>7. \A i \in 1..size : \E n \in captured : Place(n) = i
  BY <1>6 DEF Surjection
<1>8. Rows = [i \in 1..size |-> Packets(Connection)[CHOOSE n \in captured : Place(n) = i]]
  BY DEF Rows
<1> HIDE DEF Place, size
<1>9. \A i \in 1..size : (CHOOSE n \in captured : Place(n) = i) \in captured
  BY <1>7
<1>10. QED
  BY <1>1, <1>8, <1>9 DEF size

(* What the features of a record say of the rows they are made of.         *)
Hello1(rows) == CHOOSE h \in FirstHello(rows) : TRUE
Leaf1(rows) == CHOOSE c \in FirstCertificate(rows) : TRUE
HandshakeShown(f, rows, protocol) ==
  LET starttls == \E i \in DOMAIN rows : rows[i].text
  IN /\ f.starttls_advertised = starttls
     /\ f.starttls_used = (starttls /\ HasHandshakeType(rows, ClientHello))
     /\ f.handshake_success = HandshakeSuccess(rows)
     /\ f.handshake_failures = HandshakeFailures(rows)
     /\ f.protocol = protocol /\ f.renegotiation_count = 0
NegotiationShown(f, rows) ==
  IF HandshakeSuccess(rows)
  THEN LET hello == Hello1(rows)
           name == CipherSuite(hello.suite)
           exchange == KeyExchange(hello.version, name)
       IN /\ f.tls_version = {hello.version} /\ f.cipher_family = {CipherFamily(name)}
          /\ f.forward_secrecy = {exchange = "ECDHE"}
  ELSE f.tls_version = {} /\ f.cipher_family = {} /\ f.forward_secrecy = {}
CertificateShown(f, rows, trusted) ==
  IF FirstCertificate(rows) = {}
  THEN /\ f.cert_expired = {} /\ f.cert_key_algorithm = {} /\ f.cert_key_length_bits = {}
       /\ f.cert_chain_valid = {} /\ f.hostname_mismatch = {}
  ELSE LET c == Leaf1(rows)
       IN /\ f.cert_expired = {c.expired}
          /\ f.cert_key_algorithm = {IF c.key = "RSA" THEN "RSA" ELSE "UNKNOWN"}
          /\ f.cert_key_length_bits = {c.bits}
          /\ f.cert_chain_valid = IF trusted THEN {c.chain /\ ~c.expired} ELSE {}
          /\ f.hostname_mismatch = IF trusted THEN {c.mismatch} ELSE {}

LEMMA FeaturesShow ==
  ASSUME NEW rows, NEW protocol, NEW trusted, NEW f,
         f = ExtractFeatures(rows, protocol, trusted)
  PROVE  /\ HandshakeShown(f, rows, protocol) /\ NegotiationShown(f, rows)
         /\ CertificateShown(f, rows, trusted)
<1> DEFINE starttls == \E i \in DOMAIN rows : rows[i].text
           used == starttls /\ HasHandshakeType(rows, ClientHello)
           success == HandshakeSuccess(rows)
           failures == HandshakeFailures(rows)
           plain == [NoTls EXCEPT
             !.protocol = protocol, !.starttls_advertised = starttls,
             !.starttls_used = used, !.handshake_success = success,
             !.handshake_failures = failures]
           hello == Hello1(rows)
           leaf == Leaf1(rows)
           tls == IF success THEN NegotiatedTls(plain, hello) ELSE plain
           g == CertificateMetadataOf(tls, leaf)
           Fields == DOMAIN NoTls
<1>1. f = IF FirstCertificate(rows) = {} THEN tls ELSE TrustedCertificateFields(g, leaf, trusted)
  BY DEF ExtractFeatures, Hello1, Leaf1
<1> HIDE DEF starttls, used, success, failures, hello, leaf
<1>2. /\ DOMAIN plain = Fields
      /\ plain.protocol = protocol /\ plain.starttls_advertised = starttls
      /\ plain.starttls_used = used /\ plain.handshake_success = success
      /\ plain.handshake_failures = failures /\ plain.renegotiation_count = 0
      /\ plain.tls_version = {} /\ plain.cipher_family = {} /\ plain.forward_secrecy = {}
      /\ plain.cert_expired = {} /\ plain.cert_key_algorithm = {}
      /\ plain.cert_key_length_bits = {} /\ plain.cert_chain_valid = {}
      /\ plain.hostname_mismatch = {}
  BY DEF NoTls
<1>3. {"protocol", "starttls_advertised", "starttls_used", "handshake_success",
       "handshake_failures", "renegotiation_count", "tls_version", "cipher_family",
       "forward_secrecy", "cert_expired", "cert_key_algorithm", "cert_key_length_bits",
       "cert_chain_valid", "hostname_mismatch"} \subseteq Fields
  BY DEF NoTls
<1> HIDE DEF plain, Fields
<1>4. /\ DOMAIN tls = Fields
      /\ tls.protocol = protocol /\ tls.starttls_advertised = starttls
      /\ tls.starttls_used = used /\ tls.handshake_success = success
      /\ tls.handshake_failures = failures /\ tls.renegotiation_count = 0
      /\ tls.cert_expired = {} /\ tls.cert_key_algorithm = {}
      /\ tls.cert_key_length_bits = {} /\ tls.cert_chain_valid = {}
      /\ tls.hostname_mismatch = {}
  BY <1>2, <1>3 DEF NegotiatedTls
<1>5. /\ (~success => tls.tls_version = {} /\ tls.cipher_family = {}
                      /\ tls.forward_secrecy = {})
      /\ (success =>
            /\ tls.tls_version = {hello.version}
            /\ tls.cipher_family = {CipherFamily(CipherSuite(hello.suite))}
            /\ tls.forward_secrecy =
                 {KeyExchange(hello.version, CipherSuite(hello.suite)) = "ECDHE"})
  BY <1>2, <1>3 DEF NegotiatedTls
<1> HIDE DEF tls
<1>6. CASE FirstCertificate(rows) = {}
  <2>1. f = tls
    BY <1>1, <1>6
  <2>2. CertificateShown(f, rows, trusted)
    BY <1>4, <1>6, <2>1 DEF CertificateShown
  <2>3. HandshakeShown(f, rows, protocol)
    BY <1>4, <2>1 DEF HandshakeShown, starttls, used, success, failures
  <2>4. NegotiationShown(f, rows)
    BY <1>5, <2>1 DEF NegotiationShown, success, hello
  <2>5. QED
    BY <2>2, <2>3, <2>4
<1>7. CASE FirstCertificate(rows) # {}
  <2>1. /\ DOMAIN g = Fields
        /\ g.protocol = protocol /\ g.starttls_advertised = starttls
        /\ g.starttls_used = used /\ g.handshake_success = success
        /\ g.handshake_failures = failures /\ g.renegotiation_count = 0
        /\ g.tls_version = tls.tls_version /\ g.cipher_family = tls.cipher_family
        /\ g.forward_secrecy = tls.forward_secrecy
        /\ g.cert_expired = {leaf.expired}
        /\ g.cert_key_algorithm = {IF leaf.key = "RSA" THEN "RSA" ELSE "UNKNOWN"}
        /\ g.cert_key_length_bits = {leaf.bits}
        /\ g.cert_chain_valid = {} /\ g.hostname_mismatch = {}
    BY <1>3, <1>4 DEF CertificateMetadataOf
  <2> HIDE DEF g
  <2>2. f = TrustedCertificateFields(g, leaf, trusted)
    BY <1>1, <1>7
  <2>3. /\ f.protocol = protocol /\ f.starttls_advertised = starttls
        /\ f.starttls_used = used /\ f.handshake_success = success
        /\ f.handshake_failures = failures /\ f.renegotiation_count = 0
        /\ f.tls_version = tls.tls_version /\ f.cipher_family = tls.cipher_family
        /\ f.forward_secrecy = tls.forward_secrecy
        /\ f.cert_expired = {leaf.expired}
        /\ f.cert_key_algorithm = {IF leaf.key = "RSA" THEN "RSA" ELSE "UNKNOWN"}
        /\ f.cert_key_length_bits = {leaf.bits}
    BY <2>1, <2>2 DEF TrustedCertificateFields
  <2>4. /\ f.cert_chain_valid = IF trusted THEN {leaf.chain /\ ~leaf.expired} ELSE {}
        /\ f.hostname_mismatch = IF trusted THEN {leaf.mismatch} ELSE {}
    BY <1>3, <2>1, <2>2 DEF TrustedCertificateFields
  <2>5. CertificateShown(f, rows, trusted)
    BY <1>7, <2>3, <2>4 DEF CertificateShown, leaf
  <2>6. HandshakeShown(f, rows, protocol)
    BY <2>3 DEF HandshakeShown, starttls, used, success, failures
  <2>7. NegotiationShown(f, rows)
    BY <1>5, <2>3 DEF NegotiationShown, success, hello
  <2>8. QED
    BY <2>5, <2>6, <2>7
<1>8. QED
  BY <1>6, <1>7

(***************************************************************************)
(* From the wire to the record: a session keeps its origin; a lab run is   *)
(* captured whole; and the features of a record are those of its packets,  *)
(* or of its scenario.                                                     *)
(***************************************************************************)
OriginKnown == origin \in Authorized \cup Lab \cup Synthetic

SentOnWire == origin.connection # {} => sent <= Len(Packets(Connection))

LabWhole ==
  origin.source = "synthetic_pcap" =>
    /\ captured = 1..sent
    /\ session # {} => sent = Len(Packets(Connection))

FromOrigin ==
  session # {} =>
    IF origin.source = "synthetic_feature"
    THEN Record.features \in BuildFeatures(origin.scenario)
    ELSE Record.features = ExtractFeatures(Rows, Connection.protocol,
                                           origin.source = "synthetic_pcap")

WireInv == OriginKnown /\ SentOnWire /\ LabWhole /\ FromOrigin

LEMMA LenOfPackets == ASSUME NEW c PROVE Len(Packets(c)) \in Nat
<1>1. PICK g, s : Laid(c, g, s) /\ s = Packets(c)
  BY DEF Laid
<1>2. Layout(c, g, s)
  BY <1>1, PacketsLayout
<1>3. QED
  BY <1>1, <1>2 DEF Layout

(* Only an authorized capture and a lab run come from a connection.        *)
LEMMA OriginHasKind ==
  ASSUME OriginKnown
  PROVE  \/ origin.source = "authorized_capture" /\ origin.connection # {}
         \/ origin.source = "synthetic_pcap" /\ origin.connection # {}
         \/ origin.source = "synthetic_feature" /\ origin.connection = {}
BY DEF OriginKnown, Authorized, Lab, Synthetic, Origin

LEMMA WireInit == ASSUME Init PROVE WireInv
<1>1. sent = 0 /\ captured = {} /\ session = {} /\ OriginKnown
  BY DEF Init, OriginKnown
<1>2. SentOnWire
  BY <1>1, LenOfPackets DEF SentOnWire
<1>3. 1..0 = {}
  OBVIOUS
<1>4. QED
  BY <1>1, <1>2, <1>3 DEF WireInv, LabWhole, FromOrigin

(* While the connection runs there is no record; the next packet of a lab  *)
(* run is captured.                                                        *)
LEMMA WirePacket == ASSUME IndInv, WireInv, Pass \/ Lose PROVE WireInv'
<1>1. /\ session' = {} /\ origin' = origin /\ sent' = sent + 1 /\ sent \in Nat
      /\ sent < Len(Packets(Connection))
  BY DEF IndInv, TypeOK, Pass, Lose
<1>2. OriginKnown'
  BY <1>1 DEF WireInv, OriginKnown
<1>3. Connection' = Connection
  BY <1>1 DEF Connection
<1>4. SentOnWire'
  BY <1>1, <1>3, LenOfPackets DEF SentOnWire
<1>5. LabWhole'
  <2> SUFFICES ASSUME origin.source = "synthetic_pcap" PROVE captured' = 1..sent'
    BY <1>1 DEF LabWhole
  <2>1. captured = 1..sent /\ captured' = captured \cup {sent + 1}
    BY DEF WireInv, LabWhole, Pass, Lose
  <2>2. QED
    BY <1>1, <2>1
<1>6. QED
  BY <1>1, <1>2, <1>4, <1>5 DEF WireInv, FromOrigin

(* What is on the wire and in the capture stays, and so does the record's  *)
(* part that came from it.                                                 *)
LEMMA WireStays ==
  ASSUME WireInv, UNCHANGED <<origin, sent, captured>>,
         session' # {} => session # {} /\ Record'.features = Record.features
  PROVE  WireInv'
<1>1. Connection' = Connection /\ Rows' = Rows
  BY DEF Connection, Rows
<1>2. OriginKnown'
  BY DEF WireInv, OriginKnown
<1>3. SentOnWire' /\ LabWhole'
  BY <1>1 DEF WireInv, SentOnWire, LabWhole
<1>4. FromOrigin'
  BY <1>1 DEF WireInv, FromOrigin
<1>5. QED
  BY <1>2, <1>3, <1>4 DEF WireInv

(* The record is made of all that was captured, when it is made.           *)
LEMMA WireExtracted ==
  ASSUME WireInv, NEW record, Extracted(record),
         origin.source = "synthetic_pcap" => sent = Len(Packets(Connection)),
         IF origin.source = "synthetic_feature"
         THEN record.features \in BuildFeatures(origin.scenario)
         ELSE record.features = ExtractFeatures(Rows, Connection.protocol,
                                                origin.source = "synthetic_pcap")
  PROVE  WireInv'
<1>1. session' = {record} /\ UNCHANGED <<origin, sent, captured>>
  BY DEF Extracted
<1>2. Record' = record
  BY <1>1 DEF Record
<1>3. Connection' = Connection /\ Rows' = Rows
  BY <1>1 DEF Connection, Rows
<1>4. OriginKnown'
  BY <1>1 DEF WireInv, OriginKnown
<1>5. SentOnWire' /\ LabWhole'
  BY <1>1, <1>3 DEF WireInv, SentOnWire, LabWhole
<1>6. FromOrigin'
  BY <1>1, <1>2, <1>3 DEF FromOrigin
<1>7. QED
  BY <1>4, <1>5, <1>6 DEF WireInv

LEMMA WireNext == ASSUME IndInv, WireInv, Next PROVE WireInv'
<1>1. CASE Pass \/ Lose
  BY <1>1, WirePacket
<1>2. CASE ExtractAuthorized
  <2> DEFINE record == ExtractSession(Rows, "authorized_capture", "authorized",
                                      "authorized", Connection.protocol, {}, FALSE)
  <2>1. origin.source = "authorized_capture" /\ Extracted(record)
    BY <1>2 DEF ExtractAuthorized
  <2>2. record.features = ExtractFeatures(Rows, Connection.protocol, FALSE)
    BY DEF ExtractSession
  <2> HIDE DEF record
  <2>3. QED
    BY <2>1, <2>2, WireExtracted
<1>3. CASE ExtractNothing
  <2>1. session' = {} /\ UNCHANGED <<origin, sent, captured>>
    BY <1>3 DEF ExtractNothing, IndInv, TypeOK
  <2>2. QED
    BY <2>1, WireStays
<1>4. CASE ExtractLab
  <2> DEFINE record == ExtractSession(Rows, "synthetic_pcap", origin.scenario, "lab",
                                      Connection.protocol, LabLabels(origin.scenario),
                                      TRUE)
  <2>1. origin.source = "synthetic_pcap" /\ sent = Len(Packets(Connection))
          /\ Extracted(record)
    BY <1>4 DEF ExtractLab
  <2>2. record.features = ExtractFeatures(Rows, Connection.protocol, TRUE)
    BY DEF ExtractSession
  <2> HIDE DEF record
  <2>3. QED
    BY <2>1, <2>2, WireExtracted
<1>5. CASE Generate
  <2>1. PICK f \in BuildFeatures(origin.scenario) :
          Extracted(BuildRecord(origin.scenario, "env", f))
    BY <1>5 DEF Generate
  <2>2. origin.source = "synthetic_feature"
    BY <1>5 DEF Generate
  <2> DEFINE record == BuildRecord(origin.scenario, "env", f)
  <2>3. record.features = f
    BY DEF BuildRecord
  <2> HIDE DEF record
  <2>4. Extracted(record)
    BY <2>1 DEF record
  <2>5. QED
    BY <2>2, <2>3, <2>4, WireExtracted
<1>6. CASE \E p \in Payloads : Submit(p)
  <2>1. PICK p \in Payloads : Submit(p)
    BY <1>6
  <2>2. session # {} /\ UNCHANGED <<origin, sent, captured>>
    BY <2>1 DEF Submit, IndInv, TypeOK
  <2>3. Record'.features = Record.features
    BY <2>1, SubmittedRecord
  <2>4. QED
    BY <2>2, <2>3, WireStays
<1>7. CASE NotScored \/ Infer \/ Answer \/ PersistFails \/ Retry
  <2>1. UNCHANGED <<origin, sent, captured, session>>
    BY <1>7 DEF NotScored, Infer, Answer, PersistFails, Retry
  <2>2. Record' = Record
    BY <2>1 DEF Record
  <2>3. QED
    BY <2>1, <2>2, WireStays
<1>8. QED
  BY <1>1, <1>2, <1>3, <1>4, <1>5, <1>6, <1>7 DEF Next

LEMMA WireStutter == ASSUME WireInv, UNCHANGED vars PROVE WireInv'
<1>1. Record' = Record /\ UNCHANGED <<origin, sent, captured, session>>
  BY DEF vars, Record
<1>2. QED
  BY <1>1, WireStays

(* A record's features are those of the packets that were captured, or of  *)
(* its scenario, from the capture to the verdict.                          *)
THEOREM WireInvariance == Spec => []WireInv
<1>1. IndInv /\ WireInv /\ [Next]_vars => WireInv'
  BY WireNext, WireStutter
<1>2. QED
  BY WireInit, <1>1, Invariance, PTL DEF Spec

(* A captured packet is one of those that were sent.                       *)
LEMMA CapturedAreSent ==
  ASSUME IndInv, SentOnWire, origin.connection # {}
  PROVE  /\ sent \in Nat /\ sent <= Len(Packets(Connection))
         /\ \A k \in captured : k \in 1..sent /\ k \in 1..Len(Packets(Connection))
<1>1. sent \in Nat /\ sent <= Len(Packets(Connection)) /\ captured \subseteq 1..sent
  BY DEF IndInv, TypeOK, SentOnWire
<1>2. QED
  BY <1>1, LenOfPackets

(* Of all connections, whichever packets are captured: the extractor takes *)
(* no handshake for a success whose client had not finished, but for those *)
(* of which TShark shows encrypted records as application data             *)
(* (ml/pcap.py:_handshake_success).                                        *)
THEOREM SuccessIsFinished == Spec => []SuccessHasFinished
<1>1. ASSUME IndInv, WireInv PROVE SuccessHasFinished
  <2> SUFFICES ASSUME session # {}, origin.connection # {},
                      Record.features.handshake_success, ~Hidden(Connection)
               PROVE  ClientFinished(Connection, sent)
    BY DEF SuccessHasFinished, FromWire, Hidden
  <2>1. origin.source # "synthetic_feature"
    BY <1>1, OriginHasKind DEF WireInv
  <2> DEFINE trusted == origin.source = "synthetic_pcap"
  <2>2. Record.features = ExtractFeatures(Rows, Connection.protocol, trusted)
    BY <1>1, <2>1 DEF WireInv, FromOrigin
  <2> HIDE DEF trusted
  <2>r. HandshakeShown(Record.features, Rows, Connection.protocol)
    BY <2>2, FeaturesShow
  <2>3. HandshakeSuccess(Rows)
    BY <2>r DEF HandshakeShown
  <2>4. PICK i \in DOMAIN Rows : Telling(Rows[i])
    BY <2>3, SuccessTells
  <2>5. PICK k \in captured : Rows[i] = Packets(Connection)[k]
    BY <1>1, Frames
  <2>6. k \in 1..sent /\ k \in 1..Len(Packets(Connection)) /\ sent \in Nat
    BY <1>1, <2>5, CapturedAreSent DEF WireInv
  <2>7. \E j \in 1..k : Packets(Connection)[j] = ClientFlight(Connection)
    BY <2>4, <2>5, <2>6, FlightFirst
  <2>8. \A j \in 1..k : j \in 1..sent
    BY <2>6
  <2>9. QED
    BY <2>7, <2>8 DEF ClientFinished
<1>2. QED
  BY <1>1, Invariance, WireInvariance, PTL DEF WireInv

(***************************************************************************)
(* What the extractor makes of a connection that is captured whole.        *)
(***************************************************************************)
LEMMA WholeRows ==
  ASSUME IndInv, captured = 1..sent
  PROVE  DOMAIN Rows = 1..sent /\ \A i \in 1..sent : Rows[i] = Packets(Connection)[i]
<1>1. sent \in Nat
  BY DEF IndInv
<1>2. ASSUME NEW n \in 0..sent PROVE Cardinality(1..n) = n
  <2>1. 1 \in Int /\ n \in Int /\ (1 > n => n = 0) /\ n - 1 + 1 = n
    BY <1>1
  <2>2. QED
    BY <2>1, FS_Interval
<1>3. ASSUME NEW n \in 1..sent PROVE Cardinality({m \in captured : m <= n}) = n
  <2>1. {m \in captured : m <= n} = 1..n /\ n \in 0..sent
    BY <1>1
  <2>2. QED
    BY <1>2, <2>1
<1>4. Cardinality(captured) = sent
  <2>1. sent \in 0..sent
    BY <1>1
  <2>2. QED
    BY <1>2, <2>1
<1>5. ASSUME NEW i \in 1..sent
      PROVE  (CHOOSE n \in captured : Cardinality({m \in captured : m <= n}) = i) = i
  BY <1>3
<1>6. Rows = [i \in 1..sent |->
        Packets(Connection)[CHOOSE n \in captured :
                              Cardinality({m \in captured : m <= n}) = i]]
  BY <1>4 DEF Rows
<1>7. QED
  BY <1>5, <1>6

(* rows are the packets of connection c, g of them in plaintext.           *)
Whole(c, g, s, rows) ==
  /\ Laid(c, g, s)
  /\ DOMAIN rows = 1..Len(s) /\ \A i \in 1..Len(s) : rows[i] = s[i]

LEMMA WholeShows ==
  ASSUME NEW c, NEW g, NEW s, NEW rows, Whole(c, g, s, rows)
  PROVE  /\ g \in {0, 2} /\ Len(s) \in Nat /\ DOMAIN rows = 1..Len(s)
         /\ (\A i \in 1..g : i \in DOMAIN rows /\ rows[i] \in Texts(c))
         /\ (~c.implicit => 1 \in DOMAIN rows /\ rows[1] = Text("server", c.advertises))
         /\ (Silent(c) => Len(s) = g)
         /\ (~Silent(c) => g + 1 \in DOMAIN rows /\ rows[g + 1] = Hello)
         /\ (Refused(c) => /\ Len(s) = g + 2 /\ g + 2 \in DOMAIN rows
                           /\ rows[g + 2] = Refusal(c))
         /\ (Rejected(c) \/ Connected(c) =>
               g + 2 \in DOMAIN rows /\ rows[g + 2] = ServerFlight(c))
         /\ (Rejected(c) => /\ Len(s) = g + 3 /\ g + 3 \in DOMAIN rows
                            /\ rows[g + 3] = Rejection(c))
         /\ (Connected(c) => g + 3 \in DOMAIN rows /\ rows[g + 3] = ClientFlight(c))
         /\ (Connected(c) /\ c.version # "TLS1.3" =>
               /\ g + 4 \in DOMAIN rows /\ rows[g + 4] = ServerFinish(c)
               /\ g + 5 \in DOMAIN rows /\ rows[g + 5] = Data("client", c)
               /\ g + 6 \in DOMAIN rows /\ rows[g + 6] = Data("server", c))
<1>1. /\ Laid(c, g, s) /\ DOMAIN rows = 1..Len(s)
      /\ \A i \in 1..Len(s) : rows[i] = s[i]
  BY DEF Whole
<1>2. /\ Len(s) \in Nat /\ g \in {0, 2}
      /\ (\A i \in 1..g : i <= Len(s) /\ s[i] \in Texts(c))
      /\ (~c.implicit => g = 2 /\ s[1] = Text("server", c.advertises))
      /\ (Silent(c) => Len(s) = g)
      /\ (~Silent(c) => s[g + 1] = Hello)
      /\ (Refused(c) => Len(s) = g + 2 /\ s[g + 2] = Refusal(c))
      /\ (Rejected(c) \/ Connected(c) => s[g + 2] = ServerFlight(c))
      /\ (Rejected(c) => Len(s) = g + 3 /\ s[g + 3] = Rejection(c))
      /\ (Connected(c) => /\ Len(s) = g + 2 + Len(Established(c))
                          /\ \A i \in 1..Len(Established(c)) :
                               s[g + 2 + i] = Established(c)[i])
  <2>1. Layout(c, g, s)
    BY <1>1, PacketsLayout
  <2>2. QED
    BY <2>1 DEF Layout
<1>3. \A i \in 1..g : i \in DOMAIN rows /\ rows[i] \in Texts(c)
  BY <1>1, <1>2
<1>4. ~c.implicit => 1 \in DOMAIN rows /\ rows[1] = Text("server", c.advertises)
  <2> SUFFICES ASSUME ~c.implicit
               PROVE  1 \in DOMAIN rows /\ rows[1] = Text("server", c.advertises)
    OBVIOUS
  <2>1. g = 2 /\ 1 \in 1..g /\ s[1] = Text("server", c.advertises)
    BY <1>2
  <2>2. 1 \in 1..Len(s)
    BY <1>1, <1>3, <2>1
  <2>3. QED
    BY <1>1, <2>1, <2>2
<1>5. Refused(c) => /\ Len(s) = g + 2 /\ g + 2 \in DOMAIN rows
                    /\ rows[g + 2] = Refusal(c)
  BY <1>1, <1>2
<1>6. Rejected(c) => /\ Len(s) = g + 3 /\ g + 3 \in DOMAIN rows
                     /\ rows[g + 3] = Rejection(c)
  BY <1>1, <1>2
<1>7. ASSUME Connected(c)
      PROVE  /\ Len(s) >= g + 3 /\ g + 3 \in DOMAIN rows /\ rows[g + 3] = ClientFlight(c)
             /\ (c.version # "TLS1.3" =>
                  /\ g + 4 \in DOMAIN rows /\ rows[g + 4] = ServerFinish(c)
                  /\ g + 5 \in DOMAIN rows /\ rows[g + 5] = Data("client", c)
                  /\ g + 6 \in DOMAIN rows /\ rows[g + 6] = Data("server", c))
  <2> DEFINE e == Established(c)
  <2>1. /\ Len(e) \in Nat \ {0} /\ e[1] = ClientFlight(c)
        /\ (c.version # "TLS1.3" =>
              /\ Len(e) >= 4 /\ e[2] = ServerFinish(c)
              /\ e[3] = Data("client", c) /\ e[4] = Data("server", c))
    <3>1. Len(e) \in Nat \ {0} /\ e[1] = ClientFlight(c)
      BY EstablishedLayout
    <3>2. c.version # "TLS1.3" =>
            /\ e[2] = ServerFinish(c) /\ e[3] = Data("client", c) /\ e[4] = Data("server", c)
      BY EstablishedLayout
    <3>3. c.version # "TLS1.3" => Len(e) = IF c.dies THEN 5 ELSE 4
      BY EstablishedLayout
    <3> HIDE DEF e
    <3>4. QED
      BY <3>1, <3>2, <3>3
  <2>2. Len(s) = g + 2 + Len(e) /\ \A i \in 1..Len(e) : s[g + 2 + i] = e[i]
    BY <1>2, <1>7
  <2> HIDE DEF e
  <2>3. \A i \in 1..Len(e) : g + 2 + i \in DOMAIN rows /\ rows[g + 2 + i] = e[i]
    BY <1>1, <1>2, <2>1, <2>2
  <2>4. Len(s) >= g + 3 /\ 1 \in 1..Len(e) /\ g + 2 + 1 = g + 3
    BY <1>2, <2>1, <2>2
  <2>5. c.version # "TLS1.3" => 2 \in 1..Len(e) /\ 3 \in 1..Len(e) /\ 4 \in 1..Len(e)
    BY <2>1
  <2>6. g + 2 + 2 = g + 4 /\ g + 2 + 3 = g + 5 /\ g + 2 + 4 = g + 6
    BY <1>2
  <2>7. g + 3 \in DOMAIN rows /\ rows[g + 3] = ClientFlight(c)
    BY <2>1, <2>3, <2>4
  <2>8. QED
    BY <2>1, <2>3, <2>4, <2>5, <2>6, <2>7
<1>8. Silent(c) \/ Refused(c) \/ Rejected(c) \/ Connected(c)
  BY DEF Refused, Rejected, Connected
<1>9. Rejected(c) \/ Connected(c) => g + 2 \in DOMAIN rows /\ rows[g + 2] = ServerFlight(c)
  <2> SUFFICES ASSUME Rejected(c) \/ Connected(c)
               PROVE  g + 2 \in DOMAIN rows /\ rows[g + 2] = ServerFlight(c)
    OBVIOUS
  <2>1. g + 2 \in 1..Len(s)
    BY <1>2, <1>6, <1>7
  <2>2. QED
    BY <1>1, <1>2, <2>1
<1>10. ~Silent(c) => g + 1 \in DOMAIN rows /\ rows[g + 1] = Hello
  <2> SUFFICES ASSUME ~Silent(c) PROVE g + 1 \in DOMAIN rows /\ rows[g + 1] = Hello
    OBVIOUS
  <2>1. g + 1 \in 1..Len(s)
    BY <1>1, <1>2, <1>5, <1>8, <1>9
  <2>2. QED
    BY <1>1, <1>2, <2>1
<1>11. QED
  BY <1>1, <1>2, <1>3, <1>4, <1>5, <1>6, <1>7, <1>9, <1>10

(* The server's choices are those of the flight that carries its hello.    *)
LEMMA HelloFound ==
  ASSUME NEW c, NEW g, NEW s, NEW rows, Whole(c, g, s, rows),
         Rejected(c) \/ Connected(c)
  PROVE  FirstHello(rows) = {c} /\ Hello1(rows) = c
<1>1. /\ g \in {0, 2} /\ Len(s) \in Nat /\ DOMAIN rows = 1..Len(s) /\ ~Silent(c)
      /\ (\A i \in 1..g : rows[i] \in Texts(c)) /\ rows[g + 1] = Hello
      /\ g + 2 \in DOMAIN rows /\ rows[g + 2] = ServerFlight(c)
  BY WholeShows DEF Rejected, Connected
<1>2. rows[g + 2].hello = {c} /\ rows[g + 1].hello = {}
  <2>1. rows[g + 2].hello = {c}
    BY <1>1, FlightShows
  <2>2. rows[g + 1].hello = {}
    BY <1>1 DEF Hello, Packet
  <2>3. QED
    BY <2>1, <2>2
<1>3. \A i \in 1..g : rows[i].hello = {}
  BY <1>1, TextShows
<1>4. \A j \in 1..(g + 2) - 1 : rows[j].hello = {}
  <2>1. \A j \in 1..(g + 2) - 1 : j \in 1..g \/ j = g + 1
    BY <1>1
  <2>2. QED
    BY <1>2, <1>3, <2>1
<1>5. c \in FirstHello(rows)
  BY <1>1, <1>2, <1>4 DEF FirstHello
<1>6. ASSUME NEW h \in FirstHello(rows) PROVE h = c
  <2>1. PICK i \in DOMAIN rows :
          h \in rows[i].hello /\ \A j \in 1..i - 1 : rows[j].hello = {}
    BY DEF FirstHello
  <2>2. ~(g + 2 \in 1..i - 1)
    BY <1>2, <2>1
  <2>3. ~(i \in 1..(g + 2) - 1)
    BY <1>4, <2>1
  <2>4. i = g + 2
    BY <1>1, <2>2, <2>3
  <2>5. QED
    BY <1>2, <2>1, <2>4
<1>7. FirstHello(rows) = {c}
  BY <1>5, <1>6
<1>8. QED
  BY <1>7 DEF Hello1

(* A handshake that completes in TLS 1.2 or before, or with a key log, is  *)
(* seen to succeed, even if an alert ends the connection later.            *)
LEMMA CompletionSeen ==
  ASSUME NEW c, NEW g, NEW s, NEW rows, Whole(c, g, s, rows), Connected(c),
         c.version # "TLS1.3" \/ c.keys
  PROVE  HandshakeSuccess(rows)
<1>1. /\ g \in {0, 2} /\ Len(s) \in Nat /\ DOMAIN rows = 1..Len(s) /\ ~Silent(c)
      /\ (\A i \in 1..g : rows[i] \in Texts(c)) /\ rows[g + 1] = Hello
      /\ g + 2 \in DOMAIN rows /\ rows[g + 2] = ServerFlight(c)
      /\ g + 3 \in DOMAIN rows /\ rows[g + 3] = ClientFlight(c)
      /\ (c.version # "TLS1.3" =>
            /\ rows[g + 4] = ServerFinish(c)
            /\ g + 5 \in DOMAIN rows /\ rows[g + 5] = Data("client", c))
  BY WholeShows DEF Connected
<1>2. HasHandshakeType(rows, ServerHello)
  BY <1>1, FlightShows DEF HasHandshakeType
<1>3. CASE c.keys
  <2>1. rows[g + 3].from = "client" /\ Finished \in rows[g + 3].types
    BY <1>1, <1>3 DEF ClientFlight, Packet
  <2>2. QED
    BY <1>1, <1>2, <2>1 DEF HandshakeSuccess, ClientHandshakeSucceeded
<1>4. CASE c.version # "TLS1.3"
  <2>1. g + 5 \in ApplicationDataFrames(rows)
    BY <1>1, <1>4 DEF ApplicationDataFrames, Data, Packet
  <2>2. /\ rows[g + 1].fatal = FALSE /\ rows[g + 2].fatal = FALSE
        /\ rows[g + 3].fatal = FALSE /\ rows[g + 4].fatal = FALSE
        /\ rows[g + 5].fatal = FALSE
    <3>1. rows[g + 2].fatal = FALSE
      <4>1. rows[g + 2] = ServerFlight(c)
        BY <1>1
      <4>2. QED
        BY <4>1, FlightShows
    <3>2. rows[g + 1].fatal = FALSE /\ rows[g + 3].fatal = FALSE
      BY <1>1 DEF Hello, ClientFlight, Packet
    <3>3. rows[g + 4].fatal = FALSE
      BY <1>1, <1>4 DEF ServerFinish, Packet
    <3>4. rows[g + 5].fatal = FALSE
      <4>1. Data("client", c).fatal = FALSE
        BY DEF Data, Packet
      <4>2. QED
        BY <1>1, <1>4, <4>1
    <3>5. QED
      BY <3>1, <3>2, <3>3, <3>4
  <2>3. \A i \in 1..g : rows[i].fatal = FALSE
    BY <1>1, TextShows
  <2>4. ASSUME NEW a \in FatalAlerts(rows) PROVE g + 5 < a
    <3>1. a \in 1..Len(s) /\ rows[a].fatal
      BY <1>1 DEF FatalAlerts
    <3>2. /\ ~(a \in 1..g) /\ a # g + 1 /\ a # g + 2 /\ a # g + 3 /\ a # g + 4
          /\ a # g + 5
      BY <2>2, <2>3, <3>1
    <3>3. QED
      BY <1>1, <3>1, <3>2
  <2>5. QED
    BY <1>2, <2>1, <2>4 DEF HandshakeSuccess
<1>5. QED
  BY <1>3, <1>4

(* Only a connection that is established has the client's last flight.     *)
LEMMA FinishedIsConnected ==
  ASSUME NEW c, NEW n \in Nat, n <= Len(Packets(c)), ClientFinished(c, n)
  PROVE  Connected(c)
<1>1. PICK g, s : Laid(c, g, s) /\ s = Packets(c)
  BY DEF Laid
<1>2. /\ Len(s) \in Nat /\ g \in {0, 2}
      /\ (\A i \in 1..g : i <= Len(s) /\ s[i] \in Texts(c))
      /\ (Silent(c) => Len(s) = g)
      /\ (~Silent(c) => s[g + 1] = Hello)
      /\ (Refused(c) => Len(s) = g + 2 /\ s[g + 2] = Refusal(c))
      /\ (Rejected(c) => s[g + 2] = ServerFlight(c))
      /\ (Rejected(c) => Len(s) = g + 3 /\ s[g + 3] = Rejection(c))
  <2>1. Layout(c, g, s)
    BY <1>1, PacketsLayout
  <2>2. QED
    BY <2>1 DEF Layout
<1>3. PICK k \in 1..n : s[k] = ClientFlight(c)
  BY <1>1 DEF ClientFinished
<1>4. k \in 1..Len(s)
  BY <1>1, <1>2
<1>5. s[k].from = "client" /\ ChangeCipherSpec \in s[k].records
  BY <1>3 DEF ClientFlight, Packet
<1>6. ~(s[k] \in Texts(c)) /\ s[k] # Hello
  <2>1. ~(s[k] \in Texts(c))
    <3>1. s[k].records # {}
      BY <1>5
    <3>2. QED
      BY <3>1, TextShows
  <2>2. Hello.records = {Handshake}
    BY DEF Hello, Packet
  <2>3. QED
    BY <1>5, <2>1, <2>2 DEF ChangeCipherSpec, Handshake
<1>7. s[k] # Refusal(c) /\ s[k] # Rejection(c)
  <2>1. ChangeCipherSpec \notin Refusal(c).records
    BY AlertShows DEF Refusal
  <2>2. ChangeCipherSpec \notin Rejection(c).records
    <3>1. Rejection(c).records \in {{Alert}, {ApplicationData}, {}}
      BY DEF Rejection, FatalAlert, Packet
    <3>2. QED
      BY <3>1 DEF Alert, ApplicationData, ChangeCipherSpec
  <2>3. QED
    BY <1>5, <2>1, <2>2
<1>8. s[k] # ServerFlight(c)
  BY <1>5, FlightShows
<1>9. Silent(c) \/ Refused(c) \/ Rejected(c) \/ Connected(c)
  BY DEF Refused, Rejected, Connected
<1>10. ~(k \in 1..g) /\ ~Silent(c)
  BY <1>2, <1>4, <1>6
<1>11. k > g + 1
  BY <1>2, <1>4, <1>6, <1>10
<1>12. ~Refused(c)
  BY <1>2, <1>4, <1>7, <1>11
<1>13. ~Rejected(c)
  BY <1>2, <1>4, <1>7, <1>8, <1>11
<1>14. QED
  BY <1>9, <1>10, <1>12, <1>13

(* A refusal is the one fatal alert of its connection.                     *)
LEMMA RefusalCounted ==
  ASSUME NEW c, NEW g, NEW s, NEW rows, Whole(c, g, s, rows), Refused(c)
  PROVE  ~HandshakeSuccess(rows) /\ HandshakeFailures(rows) = 1
<1>1. /\ g \in {0, 2} /\ DOMAIN rows = 1..g + 2 /\ ~Silent(c)
      /\ (\A i \in 1..g : rows[i] \in Texts(c)) /\ rows[g + 1] = Hello
      /\ rows[g + 2] = Refusal(c)
  BY WholeShows DEF Refused
<1>2. \A i \in 1..g : rows[i].types = {} /\ rows[i].fatal = FALSE
  BY <1>1, TextShows
<1>3. rows[g + 1].types = {ClientHello} /\ rows[g + 1].fatal = FALSE
  BY <1>1 DEF Hello, Packet
<1>4. rows[g + 2].types = {} /\ rows[g + 2].fatal = TRUE
  BY <1>1 DEF Refusal, FatalAlert, Packet
<1>5. \A i \in DOMAIN rows : i \in 1..g \/ i = g + 1 \/ i = g + 2
  BY <1>1
<1>6. ~HasHandshakeType(rows, ServerHello)
  BY <1>2, <1>3, <1>4, <1>5 DEF HasHandshakeType, ServerHello, ClientHello
<1>7. FatalAlerts(rows) = {g + 2}
  <2>1. g + 2 \in DOMAIN rows
    BY <1>1
  <2>2. QED
    BY <1>2, <1>3, <1>4, <1>5, <2>1 DEF FatalAlerts
<1>8. ~HandshakeSuccess(rows)
  BY <1>6 DEF HandshakeSuccess, ClientHandshakeSucceeded
<1>9. QED
  BY <1>7, <1>8, FS_Singleton DEF HandshakeFailures

LEMMA GreetingSeen ==
  ASSUME NEW c, NEW g, NEW s, NEW rows, Whole(c, g, s, rows), ~c.implicit
  PROVE  1 \in DOMAIN rows /\ rows[1] = Text("server", c.advertises)
BY WholeShows

(* From a whole capture, the record shows the whole connection.            *)
LEMMA WholeRecord ==
  ASSUME IndInv, WireInv, WholeCapture
  PROVE  /\ HandshakeShown(Record.features, Rows, Connection.protocol)
         /\ NegotiationShown(Record.features, Rows)
         /\ CertificateShown(Record.features, Rows, origin.source = "synthetic_pcap")
         /\ \E g, s : Whole(Connection, g, s, Rows)
<1> DEFINE trusted == origin.source = "synthetic_pcap"
<1>1. /\ session # {} /\ origin.connection # {} /\ captured = 1..sent
      /\ sent = Len(Packets(Connection))
  BY DEF WholeCapture, FromWire
<1>2. origin.source # "synthetic_feature"
  BY <1>1, OriginHasKind DEF WireInv
<1>3. Record.features = ExtractFeatures(Rows, Connection.protocol, trusted)
  BY <1>1, <1>2 DEF WireInv, FromOrigin
<1> HIDE DEF trusted
<1>4. /\ HandshakeShown(Record.features, Rows, Connection.protocol)
      /\ NegotiationShown(Record.features, Rows)
      /\ CertificateShown(Record.features, Rows, trusted)
  BY <1>3, FeaturesShow
<1>5. PICK g, s : Laid(Connection, g, s) /\ s = Packets(Connection)
  BY DEF Laid
<1>6. DOMAIN Rows = 1..sent /\ \A i \in 1..sent : Rows[i] = Packets(Connection)[i]
  BY <1>1, WholeRows
<1>7. Whole(Connection, g, s, Rows)
  BY <1>1, <1>5, <1>6 DEF Whole
<1>8. QED
  BY <1>4, <1>7 DEF trusted

(* A verdict's findings, risk and posture are those of its record.         *)
LEMMA VerdictOfRecord ==
  ASSUME IndInv, NEW v \in verdict
  PROVE  /\ v.result.findings = ExtractRuleFindings(Record.features)
         /\ v.result.floor = HighestRuleSeverity(v.result.findings)
         /\ v.result.risk \in RISK_SEVERITY_ORDER
         /\ v.result.action = Action(v.result.risk, v.result.anomaly, v.result.floor)
         /\ v.posture = CryptographicPosture(Record.features)
         /\ \A id \in v.result.findings : v.result.risk >= Severity(id)
         /\ v.result.findings \subseteq Findings
BY DEF IndInv, OnRecord, Floored, Findings

LEMMA Raised1 ==
  ASSUME IndInv, verdict # {}, NEW id \in FindingIds, Raises(id, Record.features)
  PROVE  id \in Findings
<1>1. PICK v \in verdict : TRUE
  OBVIOUS
<1>2. id \in ExtractRuleFindings(Record.features)
  BY DEF ExtractRuleFindings
<1>3. QED
  BY <1>1, <1>2, VerdictOfRecord

(* Every refusal of a handshake that is captured whole shows: as a failure *)
(* of the record, in the dashboard's bucket and, after STARTTLS, as        *)
(* STLS-002.                                                               *)
THEOREM RefusalIsSeen == Spec => []RefusalSeen
<1>1. ASSUME IndInv, WireInv PROVE RefusalSeen
  <2> SUFFICES ASSUME WholeCapture, verdict # {}, Connection.refuses,
                      Connection.client \in {"rejects", "completes"}
               PROVE  /\ Record.features.handshake_failures = 1
                      /\ \A v \in verdict : v.posture = "handshake_failed"
                      /\ ~Connection.implicit /\ Connection.advertises =>
                           "STLS-002" \in Findings
    BY DEF RefusalSeen
  <2> USE <1>1
  <2>1. Refused(Connection)
    BY DEF Refused, Silent
  <2>2. PICK g, s : Whole(Connection, g, s, Rows)
    BY WholeRecord
  <2>3. ~HandshakeSuccess(Rows) /\ HandshakeFailures(Rows) = 1
    BY <2>1, <2>2, RefusalCounted
  <2>4. HandshakeShown(Record.features, Rows, Connection.protocol)
    BY WholeRecord
  <2>5. /\ ~Record.features.handshake_success /\ Record.features.handshake_failures = 1
        /\ (Record.features.starttls_used <=>
              (\E i \in DOMAIN Rows : Rows[i].text) /\ HasHandshakeType(Rows, ClientHello))
    BY <2>3, <2>4 DEF HandshakeShown
  <2>6. ASSUME NEW v \in verdict PROVE v.posture = "handshake_failed"
    BY <2>5, VerdictOfRecord DEF CryptographicPosture
  <2>7. ASSUME ~Connection.implicit, Connection.advertises PROVE "STLS-002" \in Findings
    <3>1. 1 \in DOMAIN Rows /\ Rows[1] = Text("server", Connection.advertises)
      BY <2>2, <2>7, GreetingSeen
    <3>2. Rows[1].text
      BY <2>7, <3>1 DEF Text, Packet
    <3>3. g + 1 \in DOMAIN Rows /\ Rows[g + 1] = Hello
      BY <2>1, <2>2, WholeShows DEF Refused
    <3>4. ClientHello \in Rows[g + 1].types
      BY <3>3 DEF Hello, Packet
    <3>5. HasHandshakeType(Rows, ClientHello)
      BY <3>3, <3>4 DEF HasHandshakeType
    <3>6. Record.features.starttls_used
      BY <2>5, <3>1, <3>2, <3>5
    <3>7. Raises("STLS-002", Record.features) /\ "STLS-002" \in FindingIds
      BY <2>5, <3>6 DEF Raises, FindingIds
    <3>8. QED
      BY <3>7, Raised1
  <2>8. QED
    BY <2>5, <2>6, <2>7
<1>2. QED
  BY <1>1, Invariance, WireInvariance, PTL

(* An established connection's negotiation is in the record.               *)
LEMMA NegotiationSeen ==
  ASSUME IndInv, WireInv, WholeCapture, ClientFinished(Connection, sent),
         Connection.version # "TLS1.3"
  PROVE  /\ Record.features.handshake_success
         /\ Record.features.tls_version = {Connection.version}
         /\ Record.features.forward_secrecy =
              {KeyExchange(Connection.version, CipherSuite(Connection.suite)) = "ECDHE"}
<1>1. sent \in Nat /\ sent <= Len(Packets(Connection))
  BY DEF IndInv, WholeCapture
<1>2. Connected(Connection)
  BY <1>1, FinishedIsConnected
<1>3. PICK g, s : Whole(Connection, g, s, Rows)
  BY WholeRecord
<1>4. HandshakeSuccess(Rows) /\ Hello1(Rows) = Connection
  BY <1>2, <1>3, CompletionSeen, HelloFound
<1>5. /\ HandshakeShown(Record.features, Rows, Connection.protocol)
      /\ NegotiationShown(Record.features, Rows)
  BY WholeRecord
<1>6. Record.features.handshake_success
  BY <1>4, <1>5 DEF HandshakeShown
<1>7. QED
  BY <1>4, <1>5, <1>6 DEF NegotiationShown

(* A deprecated version is critical for everyone: the rules' floor decides *)
(* the action and the risk whatever models and anomaly detector answer     *)
(* (ml/pcap.py, ml/rules.py, ml/fusion.py, api/schemas.py).                *)
THEOREM DeprecatedIsReviewed == Spec => []DeprecatedReviewed
<1>1. ASSUME IndInv, WireInv PROVE DeprecatedReviewed
  <2> SUFFICES ASSUME WholeCapture, Connection.version \in Deprecated,
                      ClientFinished(Connection, sent), NEW v \in verdict
               PROVE  /\ v.result.action = "critical_review" /\ v.result.risk = Critical
                      /\ v.posture = "deprecated"
    BY DEF DeprecatedReviewed
  <2> USE <1>1
  <2>1. Connection.version # "TLS1.3"
    BY DEF Deprecated
  <2>2. /\ Record.features.handshake_success
        /\ Record.features.tls_version = {Connection.version}
    BY <2>1, NegotiationSeen
  <2>3. Record.features.tls_version \cap Deprecated # {}
    BY <2>2
  <2>4. v.posture = "deprecated"
    BY <2>2, <2>3, VerdictOfRecord DEF CryptographicPosture
  <2>5. "TLS-001" \in v.result.findings
    <3>1. Raises("TLS-001", Record.features) /\ "TLS-001" \in FindingIds
      BY <2>3 DEF Raises, FindingIds
    <3>2. "TLS-001" \in ExtractRuleFindings(Record.features)
      BY <3>1 DEF ExtractRuleFindings
    <3>3. QED
      BY <3>2, VerdictOfRecord
  <2>6. Severity("TLS-001") = Critical /\ Critical = 4 /\ RISK_SEVERITY_ORDER = 0..4
    BY DEF Severity, Critical, Informational, RISK_SEVERITY_ORDER
  <2>7. v.result.risk = Critical
    <3>1. v.result.risk >= 4 /\ v.result.risk \in 0..4
      BY <2>5, <2>6, VerdictOfRecord
    <3>2. QED
      BY <2>6, <3>1
  <2>8. HighestRuleSeverity(v.result.findings) = {Critical}
    <3>1. \A id \in v.result.findings : Severity(id) <= 4
      BY DEF Severity, Critical, High, Medium
    <3>2. QED
      BY <2>5, <2>6, <3>1 DEF HighestRuleSeverity
  <2>9. v.result.action = "critical_review"
    BY <2>8, VerdictOfRecord DEF Action
  <2>10. QED
    BY <2>4, <2>7, <2>9
<1>2. QED
  BY <1>1, Invariance, WireInvariance, PTL

(* The suites without forward secrecy are known as such to the extractor,  *)
(* one of them by not being known at all (ml/pcap.py:_key_exchange).       *)
LEMMA SecrecyOfSuite ==
  ASSUME NEW c, c.version # "TLS1.3", ~ForwardSecret(c)
  PROVE  KeyExchange(c.version, CipherSuite(c.suite)) # "ECDHE"
<1>1. c.suite \in {"TLS_RSA_WITH_3DES_EDE_CBC_SHA", "TLS_RSA_WITH_AES_128_CBC_SHA",
                   "TLS_RSA_WITH_AES_256_CBC_SHA", "TLS_RSA_WITH_AES_128_GCM_SHA256"}
  BY DEF ForwardSecret
<1>2. CipherSuite(c.suite) \in
        {"TLS_RSA_WITH_3DES_EDE_CBC_SHA", "TLS_RSA_WITH_AES_128_CBC_SHA",
         "TLS_RSA_WITH_AES_256_CBC_SHA", "TLS_code"}
  BY <1>1 DEF CipherSuite, CipherSuites
<1>3. QED
  BY <1>2 DEF KeyExchange, CipherFamily

(* A connection established without forward secrecy never passes without   *)
(* FS-001 when it is captured whole (ml/pcap.py, ml/rules.py).             *)
THEOREM SecrecyLossIsFlagged == Spec => []SecrecyLossFlagged
<1>1. ASSUME IndInv, WireInv PROVE SecrecyLossFlagged
  <2> SUFFICES ASSUME WholeCapture, verdict # {}, Connection.version # "TLS1.3",
                      ClientFinished(Connection, sent), ~ForwardSecret(Connection)
               PROVE  "FS-001" \in Findings
    BY DEF SecrecyLossFlagged
  <2> USE <1>1
  <2>1. KeyExchange(Connection.version, CipherSuite(Connection.suite)) # "ECDHE"
    BY SecrecyOfSuite
  <2>2. Record.features.handshake_success /\ Record.features.forward_secrecy = {FALSE}
    BY <2>1, NegotiationSeen
  <2>3. Raises("FS-001", Record.features) /\ "FS-001" \in FindingIds
    BY <2>2 DEF Raises, FindingIds
  <2>4. QED
    BY <2>3, Raised1
<1>2. QED
  BY <1>1, Invariance, WireInvariance, PTL

=============================================================================
