----------------------------- MODULE TestRun_proofs -----------------------------
(***************************************************************************)
(* Proofs about the tests: what their plans have in common, that no logger *)
(* and no log file of one run lives into the next, that what a directory   *)
(* for results holds comes from its own run, and that flows have a server. *)
(***************************************************************************)
EXTENDS TestRun, FiniteSetTheorems, TLAPS

(* The command of a plan that waits for everything that was started in the *)
(* background: loggers start before it, and stop after it.                 *)
Barrier(m) == CASE m = "udp" -> 7 [] m = "clients" -> 10 [] m = "share" -> 6
                [] m = "wsrc" -> Len(Clients["wsrc"]) + 5

(* Which tests have TCP flows, and where their server is started.          *)
Carries == {"udp", "clients"}
TcpAt(m) == IF m = "udp" THEN 2 ELSE 8

-----------------------------------------------------------------------------
(* Plans.                                                                  *)

CommandLists == {Save, SaveAway, SaveTwice}

(* One command of a plan, at its place. *)
InPlace(m, i) ==
  LET c == Plan(m)[i] IN
  /\ c.do \in {"start", "stop", "serve", "wait", "servers", "flows", "clear"}
  /\ c.do = "start" => i < Barrier(m) /\ c.of \subseteq Logs
  /\ c.do = "stop" => /\ i > Barrier(m) /\ c.of \subseteq Logs
                      /\ c.cmds \in CommandLists /\ (m = "clients" => c.cmds = Save)
  /\ c.do = "serve" => i < Barrier(m) /\ c.of \subseteq Servers
  /\ c.do \in {"wait", "servers"} <=> i = Barrier(m)
  /\ c.do = "flows" => i = Barrier(m) - 1 /\ m # "wsrc"
  /\ c.do \in {"clear", "servers"} => m = "wsrc"

(* A logger that is started is stopped. *)
Matched(m) ==
  \A i \in 1 .. Len(Plan(m)) : Plan(m)[i].do = "start" =>
    \A l \in Plan(m)[i].of : \E j \in 1 .. Len(Plan(m)) :
      Plan(m)[j].do = "stop" /\ l \in Plan(m)[j].of

(* The server of the TCP flows is the last to be started. *)
TcpServed(m) ==
  m \in Carries =>
    /\ Plan(m)[TcpAt(m)] = Serve("tcp", "src")
    /\ \A i \in TcpAt(m) + 1 .. Barrier(m) : Plan(m)[i].do # "serve"

Planned(m) ==
  /\ Len(Plan(m)) \in Nat /\ Barrier(m) \in 1 .. Len(Plan(m)) - 1 /\ Barrier(m) > 1
  /\ DOMAIN Plan(m) = 1 .. Len(Plan(m))
  /\ \A i \in 1 .. Len(Plan(m)) : InPlace(m, i)
  /\ Matched(m) /\ TcpServed(m)

(* Two parts of a plan, one after the other. *)
LEMMA Parts ==
  ASSUME NEW S, NEW s \in Seq(S), NEW t \in Seq(S)
  PROVE  /\ s \o t \in Seq(S) /\ Len(s \o t) = Len(s) + Len(t)
         /\ \A i \in 1 .. Len(s) : (s \o t)[i] = s[i]
         /\ \A i \in Len(s) + 1 .. Len(s) + Len(t) : (s \o t)[i] = t[i - Len(s)]
OBVIOUS

(* What stands where in the plan of the UDP flows. *)
UdpCommands(P) ==
  /\ P[1] = Serve("udp", "src") /\ P[2] = Serve("tcp", "src")
  /\ P[3] = Start("tcpprobe", {TcpClient}) /\ P[4] = Start("kmsg", {TcpClient})
  /\ P[5] = Start("tcpdump", {"ap"}) /\ P[6] = Plain("flows") /\ P[7] = Plain("wait")
  /\ P[8] = Stop("tcpprobe", {TcpClient}, SaveTwice)
  /\ P[9] = Stop("kmsg", {TcpClient}, SaveAway) /\ P[10] = Stop("tcpdump", {"ap"}, Save)

LEMMA UdpPlan == Len(Udp) = 10 /\ DOMAIN Udp = 1 .. 10 /\ UdpCommands(Udp)
<1> DEFINE a1 == Serve("udp", "src")  a2 == Serve("tcp", "src")
           a3 == Start("tcpprobe", {TcpClient})  a4 == Start("kmsg", {TcpClient})
           a5 == Start("tcpdump", {"ap"})  a6 == Plain("flows")  a7 == Plain("wait")
           a8 == Stop("tcpprobe", {TcpClient}, SaveTwice)
           a9 == Stop("kmsg", {TcpClient}, SaveAway)  a10 == Stop("tcpdump", {"ap"}, Save)
           S == {a1, a2, a3, a4, a5, a6, a7, a8, a9, a10}
           p == <<a1, a2>>  q == <<a3, a4, a5>>  r == <<a6, a7>>  t == <<a8, a9, a10>>
           pq == p \o q  pqr == pq \o r  P == pqr \o t
<1>1. Udp = P BY DEF Udp, StartLogging, StopLogging
<1>2. UdpCommands(P) <=>
        /\ P[1] = a1 /\ P[2] = a2 /\ P[3] = a3 /\ P[4] = a4 /\ P[5] = a5
        /\ P[6] = a6 /\ P[7] = a7 /\ P[8] = a8 /\ P[9] = a9 /\ P[10] = a10
  BY DEF UdpCommands
<1> HIDE DEF a1, a2, a3, a4, a5, a6, a7, a8, a9, a10
<1>3. p \in Seq(S) /\ q \in Seq(S) /\ r \in Seq(S) /\ t \in Seq(S) OBVIOUS
<1>4. /\ Len(p) = 2 /\ p[1] = a1 /\ p[2] = a2
      /\ Len(q) = 3 /\ q[1] = a3 /\ q[2] = a4 /\ q[3] = a5
      /\ Len(r) = 2 /\ r[1] = a6 /\ r[2] = a7
      /\ Len(t) = 3 /\ t[1] = a8 /\ t[2] = a9 /\ t[3] = a10
  OBVIOUS
<1> HIDE DEF S, p, q, r, t
<1>5. /\ pq \in Seq(S) /\ Len(pq) = 2 + 3
      /\ \A k \in 1 .. 2 : pq[k] = p[k]
      /\ \A k \in 2 + 1 .. 2 + 3 : pq[k] = q[k - 2]
  <2>1. p \in Seq(S) /\ q \in Seq(S) BY <1>3
  <2>2. /\ pq \in Seq(S) /\ Len(pq) = Len(p) + Len(q)
        /\ \A i \in 1 .. Len(p) : pq[i] = p[i]
        /\ \A i \in Len(p) + 1 .. Len(p) + Len(q) : pq[i] = q[i - Len(p)]
    BY <2>1, Parts
  <2> HIDE DEF pq
  <2>3. Len(p) = 2 /\ Len(q) = 3 BY <1>4
  <2>4. QED BY <2>2, <2>3
<1> HIDE DEF pq
<1>6. /\ pqr \in Seq(S) /\ Len(pqr) = 5 + 2
      /\ \A k \in 1 .. 5 : pqr[k] = pq[k]
      /\ \A k \in 5 + 1 .. 5 + 2 : pqr[k] = r[k - 5]
  <2>1. pq \in Seq(S) /\ r \in Seq(S) BY <1>3, <1>5
  <2>2. /\ pqr \in Seq(S) /\ Len(pqr) = Len(pq) + Len(r)
        /\ \A i \in 1 .. Len(pq) : pqr[i] = pq[i]
        /\ \A i \in Len(pq) + 1 .. Len(pq) + Len(r) : pqr[i] = r[i - Len(pq)]
    BY <2>1, Parts
  <2> HIDE DEF pqr
  <2>3. Len(pq) = 5 /\ Len(r) = 2 BY <1>4, <1>5
  <2>4. QED BY <2>2, <2>3
<1> HIDE DEF pqr
<1>7. /\ P \in Seq(S) /\ Len(P) = 7 + 3
      /\ \A k \in 1 .. 7 : P[k] = pqr[k]
      /\ \A k \in 7 + 1 .. 7 + 3 : P[k] = t[k - 7]
  <2>1. pqr \in Seq(S) /\ t \in Seq(S) BY <1>3, <1>6
  <2>2. /\ P \in Seq(S) /\ Len(P) = Len(pqr) + Len(t)
        /\ \A i \in 1 .. Len(pqr) : P[i] = pqr[i]
        /\ \A i \in Len(pqr) + 1 .. Len(pqr) + Len(t) : P[i] = t[i - Len(pqr)]
    BY <2>1, Parts
  <2> HIDE DEF P
  <2>3. Len(pqr) = 7 /\ Len(t) = 3 BY <1>4, <1>6
  <2>4. QED BY <2>2, <2>3
<1> HIDE DEF P
<1>8. /\ P[8] = a8 /\ P[9] = a9 /\ P[10] = a10
  BY <1>7, <1>4
<1>9. /\ P[6] = a6 /\ P[7] = a7
  BY <1>7, <1>6, <1>4
<1>10. /\ P[1] = a1 /\ P[2] = a2 /\ P[3] = a3 /\ P[4] = a4 /\ P[5] = a5
  BY <1>7, <1>6, <1>5, <1>4
<1>11. DOMAIN P = 1 .. 10
  <2>1. DOMAIN P = 1 .. Len(P) BY <1>7
  <2>2. QED BY <2>1, <1>7
<1>12. QED BY <1>1, <1>2, <1>7, <1>8, <1>9, <1>10, <1>11

(* The same for a test from the source, of n clients. *)
SrcCommands(P, n) ==
  /\ P[1] = Start("tcpprobe", {"src"}) /\ P[2] = Start("kmsg", {"ap"})
  /\ P[3] = Start("tcpdump", {"ap"}) /\ P[4] = Plain("clear")
  /\ \A i \in 5 .. n + 4 : P[i] = Serve("tcp", Clients["wsrc"][i - 4])
  /\ P[n + 5] = Plain("servers")
  /\ P[n + 6] = Stop("tcpprobe", {"src"}, SaveTwice)
  /\ P[n + 7] = Stop("kmsg", {"ap"}, SaveAway) /\ P[n + 8] = Stop("tcpdump", {"ap"}, Save)
  /\ P[n + 9] = Plain("clear")

LEMMA SrcPlan ==
  ASSUME "wsrc" \in Modes
  PROVE  LET n == Len(Clients["wsrc"]) IN
         /\ n \in Nat /\ Len(FromSrc) = n + 9 /\ DOMAIN FromSrc = 1 .. n + 9
         /\ SrcCommands(FromSrc, n)
<1> DEFINE n == Len(Clients["wsrc"])
           a1 == Start("tcpprobe", {"src"})  a2 == Start("kmsg", {"ap"})
           a3 == Start("tcpdump", {"ap"})  c == Plain("clear")  w == Plain("servers")
           b1 == Stop("tcpprobe", {"src"}, SaveTwice)  b2 == Stop("kmsg", {"ap"}, SaveAway)
           b3 == Stop("tcpdump", {"ap"}, Save)
           f == [i \in 1 .. n |-> Serve("tcp", Clients["wsrc"][i])]
           S == {a1, a2, a3, c, w, b1, b2, b3} \cup {f[i] : i \in 1 .. n}
           p == <<a1, a2, a3>>  one == <<c>>  ww == <<w>>  q == <<b1, b2, b3>>
           P1 == p \o one  P2 == P1 \o f  P3 == P2 \o ww  P4 == P3 \o q  P == P4 \o one
<1>1. FromSrc = P BY DEF FromSrc, StartLogging, StopLogging
<1>2. n \in Nat BY TestRunAssumption
<1>3. SrcCommands(P, n) <=>
        /\ P[1] = a1 /\ P[2] = a2 /\ P[3] = a3 /\ P[4] = c
        /\ \A i \in 5 .. n + 4 : P[i] = f[i - 4]
        /\ P[n + 5] = w /\ P[n + 6] = b1 /\ P[n + 7] = b2 /\ P[n + 8] = b3 /\ P[n + 9] = c
  <2>1. \A i \in 5 .. n + 4 : f[i - 4] = Serve("tcp", Clients["wsrc"][i - 4])
    <3> SUFFICES ASSUME NEW i \in 5 .. n + 4 PROVE f[i - 4] = Serve("tcp", Clients["wsrc"][i - 4])
      OBVIOUS
    <3>1. i - 4 \in 1 .. n BY <1>2
    <3>2. QED BY <3>1
  <2> HIDE DEF f
  <2>2. QED BY <2>1 DEF SrcCommands
<1>4. f = [i \in 1 .. n |-> f[i]] OBVIOUS
<1> HIDE DEF n, a1, a2, a3, c, w, b1, b2, b3, f
<1>5. f \in Seq(S) /\ Len(f) = n
  <2>1. f \in [1 .. n -> S] BY <1>4
  <2>2. QED BY <2>1, <1>2
<1>6. p \in Seq(S) /\ one \in Seq(S) /\ ww \in Seq(S) /\ q \in Seq(S) OBVIOUS
<1>7. /\ Len(p) = 3 /\ p[1] = a1 /\ p[2] = a2 /\ p[3] = a3
      /\ Len(one) = 1 /\ one[1] = c /\ Len(ww) = 1 /\ ww[1] = w
      /\ Len(q) = 3 /\ q[1] = b1 /\ q[2] = b2 /\ q[3] = b3
  OBVIOUS
<1> HIDE DEF S, p, one, ww, q
<1>8. /\ P1 \in Seq(S) /\ Len(P1) = 4
      /\ \A k \in 1 .. 3 : P1[k] = p[k]
      /\ \A k \in 3 + 1 .. 3 + 1 : P1[k] = one[k - 3]
  <2>1. p \in Seq(S) /\ one \in Seq(S) BY <1>6
  <2>2. /\ P1 \in Seq(S) /\ Len(P1) = Len(p) + Len(one)
        /\ \A i \in 1 .. Len(p) : P1[i] = p[i]
        /\ \A i \in Len(p) + 1 .. Len(p) + Len(one) : P1[i] = one[i - Len(p)]
    BY <2>1, Parts
  <2> HIDE DEF P1
  <2>3. Len(p) = 3 /\ Len(one) = 1 BY <1>7
  <2>4. QED BY <2>2, <2>3, <1>2
<1> HIDE DEF P1
<1>9. /\ P2 \in Seq(S) /\ Len(P2) = 4 + n
      /\ \A k \in 1 .. 4 : P2[k] = P1[k]
      /\ \A k \in 4 + 1 .. 4 + n : P2[k] = f[k - 4]
  <2>1. P1 \in Seq(S) /\ f \in Seq(S) BY <1>5, <1>8
  <2>2. /\ P2 \in Seq(S) /\ Len(P2) = Len(P1) + Len(f)
        /\ \A i \in 1 .. Len(P1) : P2[i] = P1[i]
        /\ \A i \in Len(P1) + 1 .. Len(P1) + Len(f) : P2[i] = f[i - Len(P1)]
    BY <2>1, Parts
  <2> HIDE DEF P2
  <2>3. Len(P1) = 4 /\ Len(f) = n BY <1>5, <1>8
  <2>4. QED BY <2>2, <2>3, <1>2
<1> HIDE DEF P2
<1>10. /\ P3 \in Seq(S) /\ Len(P3) = 5 + n
       /\ \A k \in 1 .. (4 + n) : P3[k] = P2[k]
       /\ \A k \in (4 + n) + 1 .. (4 + n) + 1 : P3[k] = ww[k - (4 + n)]
  <2>1. P2 \in Seq(S) /\ ww \in Seq(S) BY <1>6, <1>9
  <2>2. /\ P3 \in Seq(S) /\ Len(P3) = Len(P2) + Len(ww)
        /\ \A i \in 1 .. Len(P2) : P3[i] = P2[i]
        /\ \A i \in Len(P2) + 1 .. Len(P2) + Len(ww) : P3[i] = ww[i - Len(P2)]
    BY <2>1, Parts
  <2> HIDE DEF P3
  <2>3. Len(P2) = (4 + n) /\ Len(ww) = 1 BY <1>7, <1>9
  <2>4. QED BY <2>2, <2>3, <1>2
<1> HIDE DEF P3
<1>11. /\ P4 \in Seq(S) /\ Len(P4) = 8 + n
       /\ \A k \in 1 .. (5 + n) : P4[k] = P3[k]
       /\ \A k \in (5 + n) + 1 .. (5 + n) + 3 : P4[k] = q[k - (5 + n)]
  <2>1. P3 \in Seq(S) /\ q \in Seq(S) BY <1>6, <1>10
  <2>2. /\ P4 \in Seq(S) /\ Len(P4) = Len(P3) + Len(q)
        /\ \A i \in 1 .. Len(P3) : P4[i] = P3[i]
        /\ \A i \in Len(P3) + 1 .. Len(P3) + Len(q) : P4[i] = q[i - Len(P3)]
    BY <2>1, Parts
  <2> HIDE DEF P4
  <2>3. Len(P3) = (5 + n) /\ Len(q) = 3 BY <1>7, <1>10
  <2>4. QED BY <2>2, <2>3, <1>2
<1> HIDE DEF P4
<1>12. /\ P \in Seq(S) /\ Len(P) = 9 + n
       /\ \A k \in 1 .. (8 + n) : P[k] = P4[k]
       /\ \A k \in (8 + n) + 1 .. (8 + n) + 1 : P[k] = one[k - (8 + n)]
  <2>1. P4 \in Seq(S) /\ one \in Seq(S) BY <1>6, <1>11
  <2>2. /\ P \in Seq(S) /\ Len(P) = Len(P4) + Len(one)
        /\ \A i \in 1 .. Len(P4) : P[i] = P4[i]
        /\ \A i \in Len(P4) + 1 .. Len(P4) + Len(one) : P[i] = one[i - Len(P4)]
    BY <2>1, Parts
  <2> HIDE DEF P
  <2>3. Len(P4) = (8 + n) /\ Len(one) = 1 BY <1>7, <1>11
  <2>4. QED BY <2>2, <2>3, <1>2
<1> HIDE DEF P
<1>13. /\ P[1] = a1 /\ P[2] = a2 /\ P[3] = a3
  BY <1>12, <1>11, <1>10, <1>9, <1>8, <1>7, <1>2
<1>14. P[4] = c
  BY <1>12, <1>11, <1>10, <1>9, <1>8, <1>7, <1>2
<1>15. \A i \in 5 .. n + 4 : P[i] = f[i - 4]
  <2> SUFFICES ASSUME NEW i \in 5 .. n + 4 PROVE P[i] = f[i - 4]
    OBVIOUS
  <2>1. /\ i \in 1 .. (8 + n) /\ i \in 1 .. (5 + n) /\ i \in 1 .. (4 + n)
        /\ i \in 4 + 1 .. 4 + n
    BY <1>2
  <2>2. P[i] = P4[i] /\ P4[i] = P3[i] /\ P3[i] = P2[i] BY <2>1, <1>12, <1>11, <1>10, Zenon
  <2>3. P2[i] = f[i - 4] BY <2>1, <1>9, Zenon
  <2>4. QED BY <2>2, <2>3
<1>16. P[n + 5] = w
  <2>1. P3[(4 + n) + 1] = w BY <1>10, <1>7, <1>2
  <2>2. QED BY <2>1, <1>12, <1>11, <1>2
<1>17. P[n + 6] = b1 /\ P[n + 7] = b2 /\ P[n + 8] = b3
  <2>1. P4[(5 + n) + 1] = b1 /\ P4[(5 + n) + 2] = b2 /\ P4[(5 + n) + 3] = b3 BY <1>11, <1>7, <1>2
  <2>2. /\ n + 6 \in 1 .. (8 + n) /\ n + 7 \in 1 .. (8 + n) /\ n + 8 \in 1 .. (8 + n)
        /\ n + 6 = (5 + n) + 1 /\ n + 7 = (5 + n) + 2 /\ n + 8 = (5 + n) + 3
    BY <1>2
  <2>3. P[n + 6] = P4[n + 6] /\ P[n + 7] = P4[n + 7] /\ P[n + 8] = P4[n + 8]
    BY <2>2, <1>12, Zenon
  <2>4. QED BY <2>1, <2>2, <2>3, Zenon
<1>18. P[n + 9] = c
  <2>1. P[(8 + n) + 1] = c BY <1>12, <1>7, <1>2
  <2>2. QED BY <2>1, <1>2
<1>19. Len(P) = n + 9 BY <1>12, <1>2
<1>20. DOMAIN P = 1 .. n + 9
  <2>1. DOMAIN P = 1 .. Len(P) BY <1>12
  <2>2. QED BY <2>1, <1>19
<1>21. QED BY <1>1, <1>3, <1>2, <1>20, <1>13, <1>14, <1>15, <1>16, <1>17, <1>18, <1>19 DEF n

LEMMA ClientsPlan ==
  /\ Len(FromClients) = 17 /\ DOMAIN FromClients = 1 .. 17
  /\ FromClients[1] = Start("tcpprobe", {"src"}) /\ FromClients[2] = Start("tcpprobe", {"ap"})
  /\ FromClients[3] = Start("tcpprobe", Of("clients")) /\ FromClients[4] = Start("kmsg", {"ap"})
  /\ FromClients[5] = Start("kmsg", Of("clients")) /\ FromClients[6] = Start("tcpdump", {"src"})
  /\ FromClients[7] = Start("tcpdump", {"ap"}) /\ FromClients[8] = Serve("tcp", "src")
  /\ FromClients[9] = Plain("flows") /\ FromClients[10] = Plain("wait")
  /\ FromClients[11] = Stop("tcpdump", {"ap"}, Save)
  /\ FromClients[12] = Stop("tcpdump", {"src"}, Save)
  /\ FromClients[13] = Stop("kmsg", {"ap"}, Save)
  /\ FromClients[14] = Stop("kmsg", Of("clients"), Save)
  /\ FromClients[15] = Stop("tcpprobe", {"src"}, Save)
  /\ FromClients[16] = Stop("tcpprobe", {"ap"}, Save)
  /\ FromClients[17] = Stop("tcpprobe", Of("clients"), Save)
BY DEF FromClients

LEMMA SharePlan ==
  /\ Len(Share) = 10 /\ DOMAIN Share = 1 .. 10
  /\ Share[1] = Start("tcpdump", {"ap"}) /\ Share[2] = Start("tcpdump", {"src"})
  /\ Share[3] = Start("kmsg", {"ap"}) /\ Share[4] = Start("kmsg", Of("share"))
  /\ Share[5] = Plain("flows") /\ Share[6] = Plain("wait")
  /\ Share[7] = Stop("tcpdump", {"ap"}, SaveTwice)
  /\ Share[8] = Stop("tcpdump", {"src"}, SaveTwice)
  /\ Share[9] = Stop("kmsg", {"ap"}, Save) /\ Share[10] = Stop("kmsg", Of("share"), Save)
BY DEF Share

(* What commands are. *)
LEMMA Commands ==
  ASSUME NEW k, NEW H, NEW c, NEW p, NEW h, NEW d
  PROVE  /\ Start(k, H).do = "start" /\ Start(k, H).of = {k} \X H
         /\ Stop(k, H, c).do = "stop" /\ Stop(k, H, c).of = {k} \X H /\ Stop(k, H, c).cmds = c
         /\ Serve(p, h).do = "serve" /\ Serve(p, h).of = {<<p, h>>}
         /\ Plain(d).do = d
BY DEF Start, Stop, Serve, Plain

LEMMA LogSets ==
  /\ \A k \in Kinds : \A H \in SUBSET Hosts : {k} \X H \subseteq Logs
  /\ \A m \in Modes : Of(m) \subseteq Hosts
  /\ "src" \in Hosts /\ "ap" \in Hosts /\ TcpClient \in Hosts
  /\ "tcpprobe" \in Kinds /\ "kmsg" \in Kinds /\ "tcpdump" \in Kinds
BY DEF Logs, Hosts, Kinds, ClientSet

LEMMA ServerSets ==
  /\ <<"udp", "src">> \in Servers /\ <<"tcp", "src">> \in Servers
  /\ \A m \in Modes : \A c \in Of(m) : <<"tcp", c>> \in Servers
BY DEF Servers, ClientSet

LEMMA UdpPlanned == "udp" \in Modes => Planned("udp")
<1> SUFFICES ASSUME "udp" \in Modes PROVE Planned("udp") OBVIOUS
<1> DEFINE P == Plan("udp")
<1>1. P = Udp BY DEF Plan
<1>2. Barrier("udp") = 7 /\ TcpAt("udp") = 2 BY DEF Barrier, TcpAt
<1>3. Len(P) = 10 /\ DOMAIN P = 1 .. 10 /\ UdpCommands(P) BY <1>1, UdpPlan
<1>4. \A i \in 1 .. 10 : InPlace("udp", i)
  <2>1. /\ InPlace("udp", 1) /\ InPlace("udp", 2) /\ InPlace("udp", 6) /\ InPlace("udp", 7)
    BY <1>2, <1>3, Commands, ServerSets DEF UdpCommands, InPlace
  <2>2. /\ InPlace("udp", 3) /\ InPlace("udp", 4) /\ InPlace("udp", 5)
    BY <1>2, <1>3, Commands, LogSets DEF UdpCommands, InPlace
  <2>3. /\ InPlace("udp", 8) /\ InPlace("udp", 9) /\ InPlace("udp", 10)
    BY <1>2, <1>3, Commands, LogSets DEF UdpCommands, InPlace, CommandLists
  <2>4. QED BY <2>1, <2>2, <2>3
<1>5. Matched("udp")
  <2> DEFINE N == Len(P)
  <2> SUFFICES ASSUME NEW i \in 1 .. N, P[i].do = "start", NEW l \in P[i].of
               PROVE  \E j \in 1 .. N : P[j].do = "stop" /\ l \in P[j].of
    BY DEF Matched
  <2>1. N = 10 BY <1>3
  <2> HIDE DEF N, P
  <2>2. i \in {3, 4, 5} BY <2>1, <1>3, Commands DEF UdpCommands
  <2>3. /\ P[3].of = P[8].of /\ P[4].of = P[9].of /\ P[5].of = P[10].of
        /\ P[8].do = "stop" /\ P[9].do = "stop" /\ P[10].do = "stop"
    BY <1>3 DEF UdpCommands, Start, Stop
  <2>4. QED BY <2>1, <2>2, <2>3
<1>6. TcpServed("udp")
  BY <1>2, <1>3, Commands DEF UdpCommands, TcpServed
<1>7. Len(P) \in Nat /\ Barrier("udp") \in 1 .. Len(P) - 1 /\ Barrier("udp") > 1
  <2> DEFINE N == Len(P)
  <2>1. N = 10 BY <1>3
  <2> HIDE DEF N
  <2>2. N \in Nat /\ Barrier("udp") \in 1 .. N - 1 BY <2>1, <1>2
  <2>3. QED BY <2>2, <1>2 DEF N
<1>8. \A i \in 1 .. Len(P) : InPlace("udp", i) BY <1>3, <1>4
<1>9. DOMAIN P = 1 .. Len(P) BY <1>3
<1>10. QED BY <1>5, <1>6, <1>7, <1>8, <1>9, Zenon DEF Planned

LEMMA ClientsPlanned == "clients" \in Modes => Planned("clients")
<1> SUFFICES ASSUME "clients" \in Modes PROVE Planned("clients") OBVIOUS
<1> DEFINE P == Plan("clients")  C == Of("clients")
<1>1. P = FromClients BY DEF Plan
<1>2. Barrier("clients") = 10 /\ TcpAt("clients") = 8 BY DEF Barrier, TcpAt
<1>3. Len(P) = 17 /\ DOMAIN P = 1 .. 17 BY <1>1, ClientsPlan
<1>4. /\ P[1] = Start("tcpprobe", {"src"}) /\ P[2] = Start("tcpprobe", {"ap"})
      /\ P[3] = Start("tcpprobe", C) /\ P[4] = Start("kmsg", {"ap"})
      /\ P[5] = Start("kmsg", C) /\ P[6] = Start("tcpdump", {"src"})
      /\ P[7] = Start("tcpdump", {"ap"}) /\ P[8] = Serve("tcp", "src")
      /\ P[9] = Plain("flows") /\ P[10] = Plain("wait")
  BY <1>1, ClientsPlan
<1>5. /\ P[11] = Stop("tcpdump", {"ap"}, Save) /\ P[12] = Stop("tcpdump", {"src"}, Save)
      /\ P[13] = Stop("kmsg", {"ap"}, Save) /\ P[14] = Stop("kmsg", C, Save)
      /\ P[15] = Stop("tcpprobe", {"src"}, Save) /\ P[16] = Stop("tcpprobe", {"ap"}, Save)
      /\ P[17] = Stop("tcpprobe", C, Save)
  BY <1>1, ClientsPlan
<1>6. C \subseteq Hosts BY LogSets
<1>7. \A i \in 1 .. 17 : InPlace("clients", i)
  <2> HIDE DEF C
  <2>1. ASSUME NEW i \in 1 .. 7, NEW k \in Kinds, NEW H \in SUBSET Hosts, P[i] = Start(k, H)
        PROVE  InPlace("clients", i)
    <3>1. P[i].do = "start" /\ P[i].of \subseteq Logs BY <2>1, LogSets DEF Start
    <3> HIDE DEF P
    <3>2. QED BY <3>1, <1>2 DEF InPlace, P
  <2>2. /\ InPlace("clients", 1) /\ InPlace("clients", 2) /\ InPlace("clients", 3)
        /\ InPlace("clients", 4) /\ InPlace("clients", 5)
        /\ InPlace("clients", 6) /\ InPlace("clients", 7)
    BY <2>1, <1>4, <1>6, LogSets
  <2>3. InPlace("clients", 8) /\ InPlace("clients", 9) /\ InPlace("clients", 10)
    BY <1>2, <1>4, Commands, ServerSets DEF InPlace
  <2>4. InPlace("clients", 11) /\ InPlace("clients", 12) /\ InPlace("clients", 13)
    BY <1>2, <1>5, <1>6, Commands, LogSets DEF InPlace, CommandLists
  <2>5. /\ InPlace("clients", 14) /\ InPlace("clients", 15)
        /\ InPlace("clients", 16) /\ InPlace("clients", 17)
    BY <1>2, <1>5, <1>6, Commands, LogSets DEF InPlace, CommandLists
  <2>6. QED BY <2>1, <2>2, <2>3, <2>4, <2>5
<1>8. Matched("clients")
  <2> DEFINE N == Len(P)
  <2> SUFFICES ASSUME NEW i \in 1 .. N, P[i].do = "start", NEW l \in P[i].of
               PROVE  \E j \in 1 .. N : P[j].do = "stop" /\ l \in P[j].of
    BY DEF Matched
  <2>1. N = 17 BY <1>3
  <2>2. i \in 1 .. 7
    <3>1. P[i].do = "start" /\ i \in 1 .. N OBVIOUS
    <3> HIDE DEF N, P
    <3>2. /\ P[8].do = "serve" /\ P[9].do = "flows" /\ P[10].do = "wait"
          /\ P[11].do = "stop" /\ P[12].do = "stop" /\ P[13].do = "stop" /\ P[14].do = "stop"
          /\ P[15].do = "stop" /\ P[16].do = "stop" /\ P[17].do = "stop"
      BY <1>4, <1>5, Commands
    <3>3. QED BY <3>1, <3>2, <2>1
  <2> HIDE DEF N, P
  <2>3. /\ P[1].of = P[15].of /\ P[2].of = P[16].of /\ P[3].of = P[17].of
        /\ P[15].do = "stop" /\ P[16].do = "stop" /\ P[17].do = "stop"
    BY <1>4, <1>5 DEF Start, Stop
  <2>4. /\ P[4].of = P[13].of /\ P[5].of = P[14].of /\ P[6].of = P[12].of /\ P[7].of = P[11].of
        /\ P[11].do = "stop" /\ P[12].do = "stop" /\ P[13].do = "stop" /\ P[14].do = "stop"
    BY <1>4, <1>5 DEF Start, Stop
  <2>5. CASE i \in {1, 2, 3} BY <2>1, <2>3, <2>5
  <2>6. CASE i \in {4, 5, 6, 7} BY <2>1, <2>4, <2>6
  <2>7. QED BY <2>2, <2>5, <2>6
<1>9. TcpServed("clients")
  BY <1>2, <1>4, Commands DEF TcpServed
<1>10. Len(P) \in Nat /\ Barrier("clients") \in 1 .. Len(P) - 1 /\ Barrier("clients") > 1
  <2> DEFINE N == Len(P)
  <2>1. N = 17 BY <1>3
  <2> HIDE DEF N
  <2>2. N \in Nat /\ Barrier("clients") \in 1 .. N - 1 BY <2>1, <1>2
  <2>3. QED BY <2>2, <1>2 DEF N
<1>11. \A i \in 1 .. Len(P) : InPlace("clients", i) BY <1>3, <1>7
<1>12. DOMAIN P = 1 .. Len(P) BY <1>3
<1>13. QED BY <1>8, <1>9, <1>10, <1>11, <1>12, Zenon DEF Planned

LEMMA SharePlanned == "share" \in Modes => Planned("share")
<1> SUFFICES ASSUME "share" \in Modes PROVE Planned("share") OBVIOUS
<1> DEFINE P == Plan("share")  C == Of("share")
<1>1. P = Share BY DEF Plan
<1>2. Barrier("share") = 6 BY DEF Barrier
<1>3. Len(P) = 10 /\ DOMAIN P = 1 .. 10 BY <1>1, SharePlan
<1>4. /\ P[1] = Start("tcpdump", {"ap"}) /\ P[2] = Start("tcpdump", {"src"})
      /\ P[3] = Start("kmsg", {"ap"}) /\ P[4] = Start("kmsg", C)
      /\ P[5] = Plain("flows") /\ P[6] = Plain("wait")
      /\ P[7] = Stop("tcpdump", {"ap"}, SaveTwice) /\ P[8] = Stop("tcpdump", {"src"}, SaveTwice)
      /\ P[9] = Stop("kmsg", {"ap"}, Save) /\ P[10] = Stop("kmsg", C, Save)
  BY <1>1, SharePlan
<1>5. C \subseteq Hosts BY LogSets
<1>6. \A i \in 1 .. 10 : InPlace("share", i)
  <2> HIDE DEF C
  <2>1. InPlace("share", 1) /\ InPlace("share", 2) /\ InPlace("share", 3)
    BY <1>2, <1>4, <1>5, Commands, LogSets DEF InPlace
  <2>2. InPlace("share", 4) /\ InPlace("share", 5) /\ InPlace("share", 6)
    BY <1>2, <1>4, <1>5, Commands, LogSets DEF InPlace
  <2>3. /\ InPlace("share", 7) /\ InPlace("share", 8) /\ InPlace("share", 9)
        /\ InPlace("share", 10)
    BY <1>2, <1>4, <1>5, Commands, LogSets DEF InPlace, CommandLists
  <2>4. QED BY <2>1, <2>2, <2>3
<1>7. Matched("share")
  <2> DEFINE N == Len(P)
  <2> SUFFICES ASSUME NEW i \in 1 .. N, P[i].do = "start", NEW l \in P[i].of
               PROVE  \E j \in 1 .. N : P[j].do = "stop" /\ l \in P[j].of
    BY DEF Matched
  <2>1. N = 10 BY <1>3
  <2> HIDE DEF N, P
  <2>2. i \in {1, 2, 3, 4} BY <2>1, <1>4, Commands
  <2>3. /\ P[1].of = P[7].of /\ P[2].of = P[8].of /\ P[3].of = P[9].of /\ P[4].of = P[10].of
        /\ P[7].do = "stop" /\ P[8].do = "stop" /\ P[9].do = "stop" /\ P[10].do = "stop"
    BY <1>4 DEF Start, Stop
  <2>4. QED BY <2>1, <2>2, <2>3
<1>8. TcpServed("share")
  BY DEF TcpServed, Carries
<1>9. Len(P) \in Nat /\ Barrier("share") \in 1 .. Len(P) - 1 /\ Barrier("share") > 1
  <2> DEFINE N == Len(P)
  <2>1. N = 10 BY <1>3
  <2> HIDE DEF N
  <2>2. N \in Nat /\ Barrier("share") \in 1 .. N - 1 BY <2>1, <1>2
  <2>3. QED BY <2>2, <1>2 DEF N
<1>10. \A i \in 1 .. Len(P) : InPlace("share", i) BY <1>3, <1>6
<1>11. DOMAIN P = 1 .. Len(P) BY <1>3
<1>12. QED BY <1>7, <1>8, <1>9, <1>10, <1>11, Zenon DEF Planned

LEMMA SrcPlanned == "wsrc" \in Modes => Planned("wsrc")
<1> SUFFICES ASSUME "wsrc" \in Modes PROVE Planned("wsrc") OBVIOUS
<1> DEFINE P == Plan("wsrc")  C == Of("wsrc")  n == Len(Clients["wsrc"])  N == Len(P)
<1>1. P = FromSrc BY DEF Plan
<1>2. Barrier("wsrc") = n + 5 BY DEF Barrier
<1>3. N = n + 9 /\ SrcCommands(P, n) /\ n \in Nat BY <1>1, SrcPlan
<1>4. \A i \in 5 .. n + 4 : Clients["wsrc"][i - 4] \in C
  <2> SUFFICES ASSUME NEW i \in 5 .. n + 4 PROVE Clients["wsrc"][i - 4] \in C OBVIOUS
  <2>1. i - 4 \in 1 .. n BY <1>3
  <2>2. QED BY <2>1 DEF Of
<1> HIDE DEF n, N, C
<1>5. \A i \in 1 .. N : InPlace("wsrc", i)
  <2>1. InPlace("wsrc", 1) /\ InPlace("wsrc", 2) /\ InPlace("wsrc", 3) /\ InPlace("wsrc", 4)
    BY <1>2, <1>3, Commands, LogSets DEF SrcCommands, InPlace
  <2>2. ASSUME NEW i \in 5 .. n + 4 PROVE InPlace("wsrc", i)
    <3>1. P[i].do = "serve" /\ P[i].of \subseteq Servers
      BY <1>3, <1>4, ServerSets, Commands DEF SrcCommands, C
    <3>2. QED BY <3>1, <1>2, <1>3 DEF InPlace
  <2>3. InPlace("wsrc", n + 5)
    BY <1>2, <1>3, Commands DEF SrcCommands, InPlace
  <2>4. InPlace("wsrc", n + 6) /\ InPlace("wsrc", n + 7) /\ InPlace("wsrc", n + 8)
    BY <1>2, <1>3, Commands, LogSets DEF SrcCommands, InPlace, CommandLists
  <2>5. InPlace("wsrc", n + 9)
    BY <1>2, <1>3, Commands DEF SrcCommands, InPlace
  <2>6. \A i \in 1 .. N : i \in {1, 2, 3, 4} \/ i \in 5 .. n + 4
                          \/ i \in {n + 5, n + 6, n + 7, n + 8, n + 9}
    BY <1>3
  <2>7. QED BY <2>1, <2>2, <2>3, <2>4, <2>5, <2>6
<1>6. Matched("wsrc")
  <2> SUFFICES ASSUME NEW i \in 1 .. N, P[i].do = "start", NEW l \in P[i].of
               PROVE  \E j \in 1 .. N : P[j].do = "stop" /\ l \in P[j].of
    BY DEF Matched, N
  <2> HIDE DEF P
  <2>1. i \in {1, 2, 3}
    <3>1. /\ P[4].do = "clear" /\ P[n + 5].do = "servers" /\ P[n + 9].do = "clear"
          /\ P[n + 6].do = "stop" /\ P[n + 7].do = "stop" /\ P[n + 8].do = "stop"
      BY <1>3, Commands DEF SrcCommands
    <3>2. \A k \in 5 .. n + 4 : P[k].do = "serve"
      BY <1>3, Commands DEF SrcCommands
    <3>3. QED BY <3>1, <3>2, <1>3
  <2>2. /\ P[1].of = P[n + 6].of /\ P[2].of = P[n + 7].of /\ P[3].of = P[n + 8].of
        /\ P[n + 6].do = "stop" /\ P[n + 7].do = "stop" /\ P[n + 8].do = "stop"
    BY <1>3 DEF SrcCommands, Start, Stop
  <2>3. n + 6 \in 1 .. N /\ n + 7 \in 1 .. N /\ n + 8 \in 1 .. N BY <1>3
  <2>4. QED BY <2>1, <2>2, <2>3
<1>7. TcpServed("wsrc")
  BY DEF TcpServed, Carries
<1>8. N \in Nat /\ Barrier("wsrc") \in 1 .. N - 1 /\ Barrier("wsrc") > 1
  BY <1>2, <1>3
<1>9. DOMAIN P = 1 .. N
  <2>1. DOMAIN P = 1 .. n + 9 BY <1>1, SrcPlan DEF n
  <2>2. QED BY <2>1, <1>3
<1>10. QED BY <1>5, <1>6, <1>7, <1>8, <1>9, Zenon DEF Planned, N

(* Every plan starts its loggers before it waits and stops them after it.  *)
LEMMA AllPlanned == ASSUME NEW m \in Modes PROVE Planned(m)
BY UdpPlanned, ClientsPlanned, SharePlanned, SrcPlanned, TestRunAssumption

(* What is done when a logger is stopped: it is killed first, and its file *)
(* is deleted last.                                                        *)
LEMMA Saving ==
  ASSUME NEW c \in CommandLists
  PROVE  /\ Len(c) \in 3 .. 5 /\ c[1] = "kill" /\ c[Len(c)] = "delete"
         /\ \A i \in 2 .. Len(c) : c[i] \in {"dir", "root", "delete"}
<1>1. CASE c = Save BY <1>1 DEF Save
<1>2. CASE c = SaveAway BY <1>2 DEF SaveAway
<1>3. CASE c = SaveTwice BY <1>3 DEF SaveTwice
<1>4. QED BY <1>1, <1>2, <1>3 DEF CommandLists

-----------------------------------------------------------------------------
(* Types.                                                                  *)

LEMMA TypeInit == Init => TypeOK
<1> SUFFICES ASSUME Init PROVE TypeOK OBVIOUS
<1>1. Planned(mode) BY AllPlanned DEF Init
<1> DEFINE N == Len(Plan(mode))
<1>2. N \in Nat /\ N >= 1
  <2>1. N \in Nat /\ Barrier(mode) \in 1 .. N - 1 BY <1>1 DEF Planned
  <2> HIDE DEF N
  <2>2. QED BY <2>1
<1>3. step \in 1 .. N BY <1>2 DEF Init
<1>4. Times \in Nat \ {0} BY TestRunAssumption
<1>5. run \in 1 .. Times + 1 BY <1>4 DEF Init
<1>6. 0 \in 0 .. 5 /\ 0 \in 0 .. Times BY <1>4
<1>7. /\ done \in [Logs -> 0 .. 5] /\ file \in [Logs -> 0 .. Times]
      /\ saved \in [Runs -> [Logs -> 0 .. Times]]
      /\ proc \in [Logs -> [Runs -> {"none", "launched", "drain", "reads", "over"}]]
  BY <1>6 DEF Init, NoFile
<1>8. /\ server \in [Servers -> {"none", "starting", "up"}] /\ again \in [Servers -> BOOLEAN]
      /\ tput \in [ClientSet -> {"off", "kill", "listen", "client", "send", "done"}]
      /\ flow \in [ClientSet \cup {TcpClient} -> {"off", "on", "done"}]
  BY DEF Init
<1>9. mode \in Modes /\ stage \in {"kill", "listen"} BY DEF Init
<1>10. QED BY <1>3, <1>5, <1>7, <1>8, <1>9 DEF TypeOK

(* Where the script is. *)
LEMMA Here ==
  ASSUME TypeOK
  PROVE  /\ Planned(mode) /\ InPlace(mode, step) /\ mode \in Modes
         /\ Len(Plan(mode)) \in Nat /\ Barrier(mode) \in 1 .. Len(Plan(mode)) - 1
         /\ step \in 1 .. Len(Plan(mode)) /\ run \in 1 .. Times + 1 /\ Times \in Nat \ {0}
BY AllPlanned, TestRunAssumption DEF TypeOK, Planned

(* On to the next command. *)
LEMMA AdvanceType ==
  ASSUME TypeOK, ~Over, Advance
  PROVE  mode' \in Modes /\ run' \in 1 .. Times + 1 /\ step' \in 1 .. Len(Plan(mode'))
<1> DEFINE N == Len(Plan(mode))
<1>1. N \in Nat /\ step \in 1 .. N /\ run \in 1 .. Times + 1 /\ Times \in Nat \ {0} BY Here
<1>2. mode' = mode /\ mode \in Modes BY DEF Advance, TypeOK
<1>3. IF step < N THEN step' = step + 1 /\ run' = run ELSE step' = 1 /\ run' = run + 1
  BY DEF Advance
<1>4. run <= Times BY <1>1 DEF Over
<1> HIDE DEF N
<1>5. step' \in 1 .. N /\ run' \in 1 .. Times + 1 BY <1>1, <1>3, <1>4
<1>6. QED BY <1>2, <1>5 DEF N

LEMMA KillServersType ==
  ASSUME TypeOK, NEW S, KillServers(S)
  PROVE  server' \in [Servers -> {"none", "starting", "up"}] /\ again' = again
BY DEF TypeOK, KillServers

LEMMA SpawnType ==
  ASSUME TypeOK, NEW s \in Servers, Spawn(s)
  PROVE  server' \in [Servers -> {"none", "starting", "up"}] /\ again' \in [Servers -> BOOLEAN]
<1>1. server' \in [Servers -> {"none", "starting", "up"}] BY DEF TypeOK, Spawn
<1>2. (server[s] = "starting") \in BOOLEAN OBVIOUS
<1>3. again' \in [Servers -> BOOLEAN]
  <2> DEFINE b == server[s] = "starting"
  <2>1. again' = [again EXCEPT ![s] = b] BY DEF Spawn
  <2>2. b \in BOOLEAN BY <1>2
  <2> HIDE DEF b
  <2>3. QED BY <2>1, <2>2 DEF TypeOK
<1>4. QED BY <1>1, <1>3

(* The next command for the log of a logger that is stopped. *)
LEMMA CommandIs ==
  ASSUME TypeOK, NEW l \in Logs, Command(l)
  PROVE  /\ At("stop") /\ l \in Now.of /\ Now.cmds \in CommandLists
         /\ done[l] \in 0 .. 4 /\ done[l] < Len(Now.cmds)
         /\ done' = [done EXCEPT ![l] = @ + 1]
         /\ \/ done[l] = 0 /\ Kill(l)
            \/ done[l] # 0 /\ Now.cmds[done[l] + 1] = "dir" /\ Copy(l)
            \/ done[l] # 0 /\ Now.cmds[done[l] + 1] = "root" /\ UNCHANGED <<proc, file, saved>>
            \/ done[l] # 0 /\ Now.cmds[done[l] + 1] = "delete" /\ Delete(l)
<1> DEFINE C == Now.cmds  d == done[l]  c == C[d + 1]
<1>1. At("stop") /\ l \in Now.of /\ d < Len(C) BY DEF Command
<1>2. C \in CommandLists BY <1>1, Here DEF InPlace, At, Now
<1>3. d \in 0 .. 5 BY DEF TypeOK
<1>4. (CASE c = "kill" -> Kill(l)
         [] c = "dir" -> Copy(l)
         [] c = "root" -> UNCHANGED <<proc, file, saved>>
         [] c = "delete" -> Delete(l))
  BY DEF Command
<1>5. done' = [done EXCEPT ![l] = @ + 1] BY DEF Command
<1> HIDE DEF C, d
<1>6. /\ Len(C) \in 3 .. 5 /\ C[1] = "kill"
      /\ \A i \in 2 .. Len(C) : C[i] \in {"dir", "root", "delete"}
  BY <1>2, Saving
<1>7. d \in 0 .. 4 BY <1>1, <1>3, <1>6
<1>8. CASE d = 0
  <2>1. c = "kill" BY <1>6, <1>8
  <2>2. Kill(l) BY <2>1, <1>4
  <2>3. QED BY <2>2, <1>1, <1>2, <1>5, <1>7, <1>8 DEF C, d
<1>9. CASE d # 0
  <2>1. d + 1 \in 2 .. Len(C) BY <1>1, <1>6, <1>7, <1>9
  <2>2. c \in {"dir", "root", "delete"} BY <2>1, <1>6
  <2>3. \/ c = "dir" /\ Copy(l)
        \/ c = "root" /\ UNCHANGED <<proc, file, saved>>
        \/ c = "delete" /\ Delete(l)
    BY <2>2, <1>4
  <2>4. QED BY <2>3, <1>1, <1>2, <1>5, <1>7, <1>9 DEF C, d
<1>10. QED BY <1>8, <1>9

LEMMA TypeNext == TypeOK /\ [Next]_vars => TypeOK'
<1> SUFFICES ASSUME TypeOK, [Next]_vars PROVE TypeOK' OBVIOUS
<1> USE DEF script, logging, iperf, flows
<1> DEFINE States == {"none", "launched", "drain", "reads", "over"}
<1>1. /\ mode \in Modes /\ run \in 1 .. Times + 1 /\ step \in 1 .. Len(Plan(mode))
      /\ stage \in {"kill", "listen"}
      /\ done \in [Logs -> 0 .. 5] /\ proc \in [Logs -> [Runs -> States]]
      /\ file \in [Logs -> 0 .. Times] /\ saved \in [Runs -> [Logs -> 0 .. Times]]
      /\ server \in [Servers -> {"none", "starting", "up"}] /\ again \in [Servers -> BOOLEAN]
      /\ tput \in [ClientSet -> {"off", "kill", "listen", "client", "send", "done"}]
      /\ flow \in [ClientSet \cup {TcpClient} -> {"off", "on", "done"}]
  BY DEF TypeOK
<1>2. Times \in Nat \ {0} BY TestRunAssumption
<1>3. ASSUME NEW p \in [Runs -> States] PROVE Killed(p) \in [Runs -> States]
  BY DEF Killed
<1>4. CASE StartLogs
  <2>1. proc' \in [Logs -> [Runs -> States]]
    <3> SUFFICES ASSUME NEW l \in Logs
                 PROVE  [(IF l[1] = "tcpprobe" THEN Killed(proc[l]) ELSE proc[l])
                           EXCEPT ![run] = "launched"] \in [Runs -> States]
      BY <1>1, <1>4 DEF StartLogs
    <3> DEFINE q == IF l[1] = "tcpprobe" THEN Killed(proc[l]) ELSE proc[l]
    <3>1. q \in [Runs -> States] BY <1>1, <1>3
    <3> HIDE DEF q
    <3>2. QED BY <3>1 DEF q
  <2>2. QED BY <2>1, <1>1, <1>4, AdvanceType DEF StartLogs, At, TypeOK
<1>5. ASSUME NEW l \in Logs, Command(l) PROVE TypeOK'
  <2>1. At("stop") /\ done[l] \in 0 .. 4 /\ done' = [done EXCEPT ![l] = @ + 1]
    BY <1>5, CommandIs
  <2>2. Kill(l) \/ Copy(l) \/ Delete(l) \/ UNCHANGED <<proc, file, saved>>
    BY <1>5, CommandIs
  <2>3. run \in Runs BY <2>1, <1>1, <1>2 DEF At, Over, Runs
  <2>4. done' \in [Logs -> 0 .. 5] BY <2>1, <1>1
  <2>5. Killed(proc[l]) \in [Runs -> States] BY <1>1, <1>3
  <2>6. 0 \in 0 .. Times BY <1>2
  <2>7. /\ proc' \in [Logs -> [Runs -> States]] /\ file' \in [Logs -> 0 .. Times]
        /\ saved' \in [Runs -> [Logs -> 0 .. Times]]
    <3>1. CASE Kill(l) BY <3>1, <2>5, <1>1 DEF Kill
    <3>2. CASE Copy(l)
      <4>1. file[l] \in 0 .. Times BY <1>1
      <4>2. [saved EXCEPT ![run][l] = file[l]] \in [Runs -> [Logs -> 0 .. Times]]
        BY <4>1, <2>3, <1>1
      <4>3. saved' \in [Runs -> [Logs -> 0 .. Times]] BY <4>2, <3>2, <1>1 DEF Copy
      <4>4. QED BY <4>3, <3>2, <1>1 DEF Copy
    <3>3. CASE Delete(l) BY <3>3, <2>6, <1>1 DEF Delete, NoFile
    <3>4. CASE UNCHANGED <<proc, file, saved>> BY <3>4, <1>1
    <3>5. QED BY <3>1, <3>2, <3>3, <3>4, <2>2
  <2>8. QED BY <2>4, <2>7, <1>1, <1>5 DEF Command, TypeOK
<1>6. CASE Stopped
  <2>1. done' \in [Logs -> 0 .. 5] BY <1>6 DEF Stopped
  <2>2. QED BY <2>1, <1>1, <1>6, AdvanceType DEF Stopped, At, TypeOK
<1>7. CASE ServeKill
  BY <1>1, <1>7, KillServersType DEF ServeKill, TypeOK
<1>8. CASE ServeSpawn
  <2>1. PICK s \in Now.of : Spawn(s) BY <1>8 DEF ServeSpawn
  <2>2. s \in Servers BY <2>1, <1>8, Here DEF ServeSpawn, At, Now, InPlace
  <2>3. QED BY <2>1, <2>2, <1>1, <1>8, SpawnType DEF ServeSpawn, TypeOK
<1>9. CASE ServeUp
  BY <1>1, <1>9, AdvanceType DEF ServeUp, At, TypeOK
<1>10. CASE Clear
  BY <1>1, <1>10, AdvanceType, KillServersType DEF Clear, At, TypeOK
<1>11. CASE WaitServers
  BY <1>1, <1>11, AdvanceType DEF WaitServers, At, TypeOK
<1>12. CASE Launch
  <2>1. /\ tput' \in [ClientSet -> {"off", "kill", "listen", "client", "send", "done"}]
        /\ flow' \in [ClientSet \cup {TcpClient} -> {"off", "on", "done"}]
    BY <1>1, <1>12 DEF Launch
  <2>2. QED BY <2>1, <1>1, <1>12, AdvanceType DEF Launch, At, TypeOK
<1>13. CASE Wait
  <2>1. /\ tput' \in [ClientSet -> {"off", "kill", "listen", "client", "send", "done"}]
        /\ flow' \in [ClientSet \cup {TcpClient} -> {"off", "on", "done"}]
    BY <1>1, <1>13 DEF Wait
  <2>2. QED BY <2>1, <1>1, <1>13, AdvanceType DEF Wait, At, TypeOK
<1>14. ASSUME NEW l \in Logs, NEW r \in Runs, Logger(l, r) PROVE TypeOK'
  <2>1. r \in 0 .. Times BY <1>2 DEF Runs
  <2>2. CASE Arrive(l, r)
    <3>1. file' \in [Logs -> 0 .. Times] BY <2>1, <2>2, <1>1 DEF Arrive
    <3>2. proc' \in [Logs -> [Runs -> States]] BY <2>2, <1>1 DEF Arrive
    <3>3. QED BY <3>1, <3>2, <2>2, <1>1 DEF Arrive, TypeOK
  <2>3. CASE DrainKmsg(l, r)
    <3>1. proc' \in [Logs -> [Runs -> States]] BY <2>3, <1>1 DEF DrainKmsg
    <3>2. QED BY <3>1, <2>3, <1>1 DEF DrainKmsg, TypeOK
  <2>4. QED BY <2>2, <2>3, <1>14 DEF Logger
<1>15. ASSUME NEW s \in Servers, Listens(s) PROVE TypeOK'
  BY <1>1, <1>15 DEF Listens, TypeOK
<1>16. ASSUME NEW c \in ClientSet, Tput(c) PROVE TypeOK'
  <2>1. CASE TputKill(c) BY <2>1, <1>1, KillServersType DEF TputKill, TypeOK
  <2>2. CASE TputSpawn(c)
    BY <2>2, <1>1, SpawnType, ServerSets DEF TputSpawn, UdpServer, TypeOK
  <2>3. CASE TputUp(c) BY <2>3, <1>1 DEF TputUp, TypeOK
  <2>4. CASE TputSend(c) BY <2>4, <1>1 DEF TputSend, TypeOK
  <2>5. QED BY <2>1, <2>2, <2>3, <2>4, <1>16 DEF Tput
<1>17. ASSUME NEW c \in DOMAIN flow, FlowEnds(c) PROVE TypeOK'
  BY <1>1, <1>17 DEF FlowEnds, TypeOK
<1>18. CASE UNCHANGED vars BY <1>1, <1>18 DEF vars, TypeOK
<1>19. QED
  BY <1>4, <1>5, <1>6, <1>7, <1>8, <1>9, <1>10, <1>11, <1>12, <1>13, <1>14, <1>15, <1>16,
     <1>17, <1>18 DEF Next, Script

(* The variables of the tests stay in their types. *)
THEOREM TypeCorrect == Spec => []TypeOK
<1>1. QED BY TypeInit, TypeNext, PTL DEF Spec

-----------------------------------------------------------------------------
(* Logs.                                                                   *)

(* A command of the plan has been done for the log. *)
Done(m, s, d, l) == \E i \in 1 .. s - 1 : Plan(m)[i].do = d /\ l \in Plan(m)[i].of
Started(l) == Done(mode, step, "start", l)
Ended(l) == Done(mode, step, "stop", l)
Stops(l) == At("stop") /\ l \in Now.of
Off == {"none", "over"}

(* Commands are counted only while the logger is being stopped. *)
InvDone(l) == done[l] # 0 => Stops(l) /\ done[l] <= Len(Now.cmds)

(* No logger of an earlier run is left, none of a later one is there; a    *)
(* file is of this run, and there is none when all is over.                *)
InvRuns(l) == \A r \in Runs : /\ r < run => proc[l][r] \in Off
                              /\ r > run => proc[l][r] = "none"
InvFile(l) == file[l] \in {NoFile, run} /\ (Over => file[l] = NoFile)

(* Nothing is there before the start; the logger is off once it has been   *)
(* killed, and its file gone once the last command has been done.          *)
InvNew(l) == ~Over /\ ~Started(l) => proc[l][run] = "none" /\ file[l] = NoFile
InvKilled(l) == ~Over /\ (Ended(l) \/ done[l] # 0) => proc[l][run] \in Off
InvGone(l) ==
  ~Over /\ (Ended(l) \/ (Stops(l) /\ done[l] = Len(Now.cmds))) => file[l] = NoFile

(* After the wait no ssh is on its way to start a logger. *)
InvConn(l) == ~Over /\ step > Barrier(mode) => proc[l][run] # "launched"

(* What a test from the clients logs is on its way, on the host, or saved. *)
InvKept(l) ==
  mode = "clients" /\ ~Over /\ Started(l) /\ l[1] # "kmsg" =>
    /\ proc[l][run] = "launched" \/ file[l] = run \/ saved[run][l] = run
    /\ done[l] >= 2 => saved[run][l] = run

LogInv(l) ==
  /\ InvDone(l) /\ InvRuns(l) /\ InvFile(l) /\ InvNew(l)
  /\ InvKilled(l) /\ InvGone(l) /\ InvConn(l) /\ InvKept(l)

LInv == OwnLogs /\ \A l \in Logs : LogInv(l)

LEMMA LogsInit == Init => LInv
<1> SUFFICES ASSUME Init PROVE LInv OBVIOUS
<1>1. step = 1 /\ run = 1 /\ Times \in Nat \ {0} BY TestRunAssumption DEF Init
<1>2. OwnLogs
  <2> SUFFICES ASSUME NEW r \in Runs, NEW l \in Logs PROVE saved[r][l] = 0 /\ ~(r < run)
    BY DEF OwnLogs
  <2>1. QED BY <1>1 DEF Init, NoFile, Runs
<1>3. ASSUME NEW l \in Logs PROVE LogInv(l)
  <2>1. ~Started(l) /\ ~Ended(l) BY <1>1 DEF Started, Ended, Done
  <2>2. done[l] = 0 /\ file[l] = NoFile /\ \A r \in Runs : proc[l][r] = "none" BY DEF Init
  <2>3. run \in Runs BY <1>1 DEF Runs
  <2>4. ~Over BY <1>1 DEF Over
  <2>5. InvDone(l) /\ InvRuns(l) /\ InvFile(l) /\ InvNew(l)
    BY <2>2, <2>3, <2>4 DEF InvDone, InvRuns, InvFile, InvNew, Off
  <2>6. InvKilled(l) /\ InvConn(l) /\ InvKept(l)
    BY <2>1, <2>2, <2>3 DEF InvKilled, InvConn, InvKept, Off
  <2>7. InvGone(l) BY <2>2 DEF InvGone
  <2>8. QED BY <2>5, <2>6, <2>7 DEF LogInv
<1>4. QED BY <1>2, <1>3 DEF LInv

(* What concerns neither the script nor the loggers. *)
LEMMA LogsStay ==
  ASSUME LInv, UNCHANGED <<script, logging>>
  PROVE  LInv'
<1>1. /\ mode' = mode /\ run' = run /\ step' = step /\ done' = done /\ proc' = proc
      /\ file' = file /\ saved' = saved
  BY DEF script, logging
<1>2. OwnLogs' BY <1>1 DEF LInv, OwnLogs
<1>3. ASSUME NEW l \in Logs PROVE LogInv(l)'
  <2>1. LogInv(l) BY DEF LInv
  <2>2. /\ Started(l)' = Started(l) /\ Ended(l)' = Ended(l) /\ Stops(l)' = Stops(l)
        /\ Over' = Over /\ Now' = Now
    BY <1>1 DEF Started, Ended, Stops, Over, Now, At
  <2>3. InvDone(l)' /\ InvRuns(l)' /\ InvFile(l)' /\ InvNew(l)'
    BY <2>1, <2>2, <1>1 DEF LogInv, InvDone, InvRuns, InvFile, InvNew
  <2>4. InvKilled(l)' /\ InvGone(l)' /\ InvConn(l)' /\ InvKept(l)'
    BY <2>1, <2>2, <1>1 DEF LogInv, InvKilled, InvGone, InvConn, InvKept
  <2>5. QED BY <2>3, <2>4 DEF LogInv
<1>4. QED BY <1>2, <1>3 DEF LInv

(* The script goes on from a command that starts no logger: nothing is     *)
(* there of a log that has been stopped.                                   *)
LEMMA Stopping ==
  ASSUME TypeOK, LInv, ~Over, NEW l \in Logs, Stops(l) => done[l] = Len(Now.cmds)
  PROVE  /\ Stops(l) => done[l] # 0
         /\ Ended(l) \/ Stops(l) => proc[l][run] \in Off /\ file[l] = NoFile
<1>1. LogInv(l) BY DEF LInv
<1>2. Stops(l) => done[l] # 0
  <2> SUFFICES ASSUME Stops(l) PROVE done[l] # 0 OBVIOUS
  <2>1. Now.cmds \in CommandLists BY Here DEF Stops, At, Now, InPlace
  <2>2. Len(Now.cmds) \in 3 .. 5 BY <2>1, Saving
  <2> DEFINE len == Len(Now.cmds)
  <2>3. done[l] = len OBVIOUS
  <2> HIDE DEF len
  <2>4. len # 0 BY <2>2 DEF len
  <2>5. QED BY <2>3, <2>4
<1>3. QED BY <1>1, <1>2 DEF LogInv, InvKilled, InvGone

LEMMA LogsNext ==
  ASSUME TypeOK, LInv, ~Over, Advance, step < Len(Plan(mode)), Now.do # "start",
         \A l \in Logs : Stops(l) => done[l] = Len(Now.cmds),
         step = Barrier(mode) => Connected,
         done' = [l \in Logs |-> 0], UNCHANGED <<proc, file, saved>>
  PROVE  LInv'
<1>1. mode' = mode /\ run' = run /\ step' = step + 1 BY DEF Advance
<1>2. /\ Barrier(mode) \in Nat /\ step \in Nat \ {0} /\ run \in Runs
      /\ \A i \in 1 .. Len(Plan(mode)) : InPlace(mode, i)
      /\ step + 1 \in 1 .. Len(Plan(mode))
  <2>1. /\ Barrier(mode) \in 1 .. Len(Plan(mode)) - 1 /\ step \in 1 .. Len(Plan(mode))
        /\ Len(Plan(mode)) \in Nat /\ run \in 1 .. Times + 1 /\ Times \in Nat
    BY Here
  <2>2. run \in Runs BY <2>1 DEF Over, Runs
  <2> DEFINE N == Len(Plan(mode))
  <2> HIDE DEF N
  <2>3. Barrier(mode) \in Nat /\ step \in Nat \ {0} /\ step + 1 \in 1 .. N
    BY <2>1 DEF N
  <2>4. QED BY <2>2, <2>3, Here DEF Planned, N
<1>3. ~Over' BY <1>1 DEF Over
<1>4. OwnLogs' BY <1>1 DEF LInv, OwnLogs
<1>5. ASSUME NEW l \in Logs PROVE LogInv(l)'
  <2>1. LogInv(l) BY DEF LInv
  <2>2. Started(l)' <=> Started(l)
    <3>1. \A i : i \in 1 .. (step + 1) - 1 <=> i \in 1 .. step - 1 \/ i = step BY <1>2
    <3>2. QED BY <3>1, <1>1 DEF Started, Done, Now
  <2>3. Ended(l)' => Ended(l) \/ Stops(l)
    <3>1. \A i : i \in 1 .. (step + 1) - 1 <=> i \in 1 .. step - 1 \/ i = step BY <1>2
    <3>2. QED BY <3>1, <1>1 DEF Ended, Done, Stops, At, Now
  <2>4. done'[l] = 0 OBVIOUS
  <2>5. Ended(l)' => proc[l][run] \in Off /\ file[l] = NoFile BY <2>3, Stopping
  <2>6. Stops(l)' => Len(Now'.cmds) # 0
    <3>1. InPlace(mode, step + 1) BY <1>2
    <3>2. Now' = Plan(mode)[step + 1] BY <1>1 DEF Now
    <3>3. Stops(l)' => Now'.do = "stop" BY DEF Stops, At
    <3>4. Now'.do = "stop" => Now'.cmds \in CommandLists BY <3>1, <3>2 DEF InPlace
    <3>5. QED BY <3>3, <3>4, Saving
  <2>7. InvDone(l)' BY <2>4 DEF InvDone
  <2>8. InvRuns(l)' /\ InvFile(l)' /\ InvNew(l)'
    BY <2>1, <2>2, <1>1, <1>3 DEF LogInv, InvRuns, InvFile, InvNew
  <2>9. InvKilled(l)' BY <2>4, <2>5, <1>1 DEF InvKilled
  <2>10. InvGone(l)' BY <2>4, <2>5, <2>6 DEF InvGone
  <2>11. InvConn(l)'
    <3>1. CASE step > Barrier(mode) BY <3>1, <2>1, <1>1 DEF LogInv, InvConn
    <3>2. CASE step = Barrier(mode) BY <3>2, <1>1, <1>2 DEF Connected, InvConn
    <3>3. CASE step < Barrier(mode) BY <3>3, <1>1, <1>2 DEF InvConn
    <3>4. QED BY <3>1, <3>2, <3>3, <1>2
  <2>12. InvKept(l)'
    BY <2>1, <2>2, <2>4, <1>1 DEF LogInv, InvKept
  <2>13. QED BY <2>7, <2>8, <2>9, <2>10, <2>11, <2>12 DEF LogInv
<1>6. QED BY <1>4, <1>5 DEF LInv

(* On to the next time: every log of the plan has been stopped. *)
LEMMA LogsWrap ==
  ASSUME TypeOK, LInv, ~Over, Advance, ~(step < Len(Plan(mode))),
         \A l \in Logs : Stops(l) => done[l] = Len(Now.cmds),
         done' = [l \in Logs |-> 0], UNCHANGED <<proc, file, saved>>
  PROVE  LInv'
<1> DEFINE N == Len(Plan(mode))  B == Barrier(mode)
<1>1. mode' = mode /\ run' = run + 1 /\ step' = 1 BY DEF Advance
<1>2. /\ N \in Nat /\ B \in 1 .. N - 1 /\ step = N /\ run \in Runs /\ run # 0
      /\ B > 1 /\ Matched(mode)
  <2>1. /\ B \in 1 .. N - 1 /\ B > 1 /\ step \in 1 .. N /\ N \in Nat
        /\ run \in 1 .. Times + 1 /\ Times \in Nat /\ Matched(mode)
    BY Here DEF Planned
  <2>2. ~(step < N) OBVIOUS
  <2> HIDE DEF N
  <2>3. run \in Runs /\ run # 0 BY <2>1 DEF Over, Runs
  <2>4. QED BY <2>1, <2>2, <2>3
<1>3. \A i \in 1 .. N : InPlace(mode, i) BY Here DEF Planned
<1>4. DOMAIN Plan(mode) = 1 .. N BY Here DEF Planned
<1> HIDE DEF N
<1>5. ASSUME NEW l \in Logs PROVE proc[l][run] \in Off /\ file[l] = NoFile
  <2>1. LogInv(l) BY DEF LInv
  <2>2. CASE Started(l)
    <3>1. PICK i \in 1 .. step - 1 : Plan(mode)[i].do = "start" /\ l \in Plan(mode)[i].of
      BY <2>2 DEF Started, Done
    <3>2. PICK j \in 1 .. N : Plan(mode)[j].do = "stop" /\ l \in Plan(mode)[j].of
      <4>1. i \in 1 .. N BY <1>2
      <4>2. QED BY <4>1, <3>1, <1>2 DEF Matched, N
    <3>3. j \in 1 .. step - 1 \/ j = step BY <1>2
    <3>4. Ended(l) \/ Stops(l) BY <3>2, <3>3 DEF Ended, Done, Stops, At, Now
    <3>5. QED BY <3>4, Stopping
  <2>3. CASE ~Started(l) BY <2>1, <2>3 DEF LogInv, InvNew, Off
  <2>4. QED BY <2>2, <2>3
<1>6. OwnLogs'
  <2> SUFFICES ASSUME NEW r \in Runs, NEW l \in Logs, r < run', mode' = "clients",
                      NEW i \in DOMAIN Plan(mode'),
                      Plan(mode')[i].do = "start", l \in Plan(mode')[i].of, l[1] # "kmsg"
               PROVE  saved'[r][l] = r
    BY DEF LInv, OwnLogs
  <2>1. i \in 1 .. N BY <1>1, <1>4
  <2>2. mode = "clients" /\ Plan(mode)[i].do = "start" /\ l \in Plan(mode)[i].of BY <1>1
  <2>3. CASE r < run BY <2>2, <2>3, <1>1, <1>4, <2>1 DEF LInv, OwnLogs
  <2>4. CASE r = run
    <3>1. i < B BY <1>3, <2>1, <2>2 DEF InPlace
    <3>2. i \in 1 .. step - 1 BY <3>1, <2>1, <1>2
    <3>3. Started(l) BY <3>2, <2>2 DEF Started, Done
    <3>4. LogInv(l) BY DEF LInv
    <3>5. proc[l][run] = "launched" \/ file[l] = run \/ saved[run][l] = run
      BY <3>3, <3>4, <2>2 DEF LogInv, InvKept
    <3>6. saved[run][l] = run BY <3>5, <1>5, <1>2 DEF Off, NoFile
    <3>7. QED BY <3>6, <2>4
  <2>5. r \in Nat /\ run \in Nat /\ r < run + 1 BY <1>1, <1>2 DEF Runs
  <2>6. QED BY <2>3, <2>4, <2>5
<1>7. ASSUME NEW l \in Logs PROVE LogInv(l)'
  <2>1. LogInv(l) BY DEF LInv
  <2>2. ~Started(l)' /\ ~Ended(l)' BY <1>1 DEF Started, Ended, Done
  <2>3. done'[l] = 0 OBVIOUS
  <2>4. ~Stops(l)'
    <3>1. InPlace(mode, 1)
      <4>1. 1 \in 1 .. N BY <1>2
      <4>2. QED BY <4>1, <1>3
    <3>2. Plan(mode)[1].do # "stop" BY <3>1, <1>2 DEF InPlace
    <3>3. QED BY <3>2, <1>1 DEF Stops, At, Now
  <2>5. InvDone(l)' BY <2>3 DEF InvDone
  <2>6. InvRuns(l)'
    <3>1. \A r \in Runs : /\ r < run + 1 => r < run \/ r = run
                          /\ r > run + 1 => r > run
      BY <1>2 DEF Runs
    <3>2. QED BY <3>1, <2>1, <1>1, <1>5 DEF LogInv, InvRuns
  <2>7. InvFile(l)' BY <1>5 DEF InvFile, NoFile
  <2>8. InvNew(l)'
    <3> SUFFICES ASSUME ~Over' PROVE proc[l][run + 1] = "none"
      BY <1>1, <1>5 DEF InvNew, NoFile
    <3>1. run + 1 \in Runs /\ run + 1 > run
      <4>1. Times \in Nat BY TestRunAssumption
      <4>2. ~(run + 1 > Times) BY <1>1 DEF Over
      <4>3. QED BY <4>1, <4>2, <1>2 DEF Runs
    <3>2. QED BY <3>1, <2>1 DEF LogInv, InvRuns
  <2>9. InvKilled(l)' BY <2>2, <2>3 DEF InvKilled
  <2>10. InvGone(l)' BY <2>2, <2>4 DEF InvGone
  <2>11. InvConn(l)' BY <1>1, <1>2 DEF InvConn
  <2>12. InvKept(l)' BY <2>2 DEF InvKept
  <2>13. QED BY <2>5, <2>6, <2>7, <2>8, <2>9, <2>10, <2>11, <2>12 DEF LogInv
<1>8. QED BY <1>6, <1>7 DEF LInv

(* The script goes on; a wait is over when every ssh has connected. *)
LEMMA LogsAdvance ==
  ASSUME TypeOK, LInv, ~Over, Advance, Now.do # "start",
         \A l \in Logs : Stops(l) => done[l] = Len(Now.cmds),
         step = Barrier(mode) => Connected,
         done' = [l \in Logs |-> 0], UNCHANGED <<proc, file, saved>>
  PROVE  LInv'
BY LogsNext, LogsWrap

(* The same for a command that stops no logger. *)
LEMMA LogsPass ==
  ASSUME TypeOK, LInv, ~Over, Advance, Now.do \notin {"start", "stop"},
         step = Barrier(mode) => Connected, UNCHANGED logging
  PROVE  LInv'
<1>1. done = [l \in Logs |-> 0]
  <2>1. \A l \in Logs : done[l] = 0 BY DEF LInv, LogInv, InvDone, Stops, At
  <2>2. QED BY <2>1 DEF TypeOK
<1>2. \A l \in Logs : ~Stops(l) BY DEF Stops, At
<1>3. QED BY <1>1, <1>2, LogsAdvance DEF logging

LEMMA LogsStart ==
  ASSUME TypeOK, LInv, StartLogs
  PROVE  LInv'
<1> DEFINE N == Len(Plan(mode))  B == Barrier(mode)
<1>1. ~Over /\ Now.do = "start" /\ Advance BY DEF StartLogs, At
<1>2. /\ N \in Nat /\ B \in 1 .. N - 1 /\ step \in 1 .. N /\ step < B /\ run \in Runs
  <2>1. /\ B \in 1 .. N - 1 /\ step \in 1 .. N /\ N \in Nat
        /\ run \in 1 .. Times + 1 /\ Times \in Nat /\ step < B
    BY Here, <1>1 DEF InPlace, Now
  <2> HIDE DEF N
  <2>2. QED BY <2>1, <1>1 DEF Over, Runs
<1>3. IF step < N THEN step' = step + 1 /\ run' = run ELSE step' = 1 /\ run' = run + 1
  BY <1>1 DEF Advance
<1>4. \A i \in 1 .. N : InPlace(mode, i) BY Here DEF Planned
<1>5. mode' = mode BY <1>1 DEF Advance
<1>6. Now.of \subseteq Logs BY Here, <1>1 DEF InPlace, Now
<1> HIDE DEF N
<1>7. step' = step + 1 /\ run' = run BY <1>2, <1>3
<1>8. ~Over' BY <1>1, <1>7 DEF Over
<1>9. OwnLogs' BY <1>5, <1>7 DEF LInv, OwnLogs, StartLogs
<1>10. ASSUME NEW l \in Logs PROVE LogInv(l)'
  <2>1. LogInv(l) BY DEF LInv
  <2>2. done[l] = 0 /\ done'[l] = 0 /\ file'[l] = file[l] /\ saved' = saved
    BY <2>1, <1>1 DEF LogInv, InvDone, Stops, At, StartLogs
  <2>3. Started(l)' <=> Started(l) \/ l \in Now.of
    <3>1. \A i : i \in 1 .. (step + 1) - 1 <=> i \in 1 .. step - 1 \/ i = step BY <1>2
    <3>2. QED BY <3>1, <1>1, <1>5, <1>7 DEF Started, Done, Now
  <2>4. ~Ended(l)'
    <3> SUFFICES ASSUME NEW i \in 1 .. (step + 1) - 1, Plan(mode)[i].do = "stop" PROVE FALSE
      BY <1>5, <1>7 DEF Ended, Done
    <3>1. i \in 1 .. N /\ i <= B BY <1>2
    <3>2. i > B BY <3>1, <1>4 DEF InPlace
    <3>3. QED BY <3>1, <3>2, <1>2
  <2>5. ~Stops(l)'
    <3>1. step + 1 \in 1 .. N BY <1>2
    <3>2. InPlace(mode, step + 1) BY <3>1, <1>4
    <3>3. Plan(mode)[step + 1].do # "stop" BY <3>2, <1>2 DEF InPlace
    <3>4. QED BY <3>3, <1>5, <1>7 DEF Stops, At, Now
  <2>6. proc'[l] = IF l \notin Now.of THEN proc[l]
                   ELSE [(IF l[1] = "tcpprobe" THEN Killed(proc[l]) ELSE proc[l])
                           EXCEPT ![run] = "launched"]
    BY DEF StartLogs
  <2>7. \A r \in Runs : r # run => proc'[l][r] = proc[l][r]
                                   \/ (proc[l][r] \notin Off /\ proc'[l][r] = "over")
    BY <2>6 DEF Killed, TypeOK, Off
  <2>8. l \in Now.of => proc'[l][run] = "launched"
    BY <2>6, <1>2 DEF Killed, TypeOK
  <2>9. l \notin Now.of => proc'[l] = proc[l] BY <2>6
  <2>10. InvDone(l)' /\ InvGone(l)' /\ InvKilled(l)'
    BY <2>2, <2>4, <2>5 DEF InvDone, InvGone, InvKilled
  <2>11. InvRuns(l)'
    <3>1. \A r \in Runs : r < run \/ r > run => r # run BY <1>2 DEF Runs
    <3>2. QED BY <3>1, <2>1, <2>7, <1>7 DEF LogInv, InvRuns, Off
  <2>12. InvFile(l)' BY <2>1, <2>2, <1>7, <1>8 DEF LogInv, InvFile, NoFile
  <2>13. InvNew(l)' BY <2>1, <2>2, <2>3, <2>9, <1>1, <1>7 DEF LogInv, InvNew, NoFile
  <2>14. InvConn(l)' BY <1>2, <1>5, <1>7 DEF InvConn
  <2>15. InvKept(l)'
    BY <2>1, <2>2, <2>3, <2>8, <2>9, <1>1, <1>5, <1>7 DEF LogInv, InvKept
  <2>16. QED BY <2>10, <2>11, <2>12, <2>13, <2>14, <2>15 DEF LogInv
<1>11. QED BY <1>9, <1>10 DEF LInv

(* A logger that connects is of this run; none is, once its log has been   *)
(* stopped.                                                                *)
LEMMA OfThisRun ==
  ASSUME TypeOK, LInv, NEW l \in Logs, NEW r \in Runs, proc[l][r] \in {"launched", "drain"}
  PROVE  /\ r = run /\ ~Over /\ Started(l) /\ ~Ended(l) /\ done[l] = 0
         /\ ~(Stops(l) /\ done[l] = Len(Now.cmds))
<1>1. LogInv(l) BY DEF LInv
<1>2. proc[l][r] \notin Off BY DEF Off
<1>3. r = run /\ ~Over
  <2>1. ~(r < run) /\ ~(r > run) BY <1>1, <1>2 DEF LogInv, InvRuns, Off
  <2>2. run \in 1 .. Times + 1 /\ Times \in Nat BY Here
  <2>3. QED BY <2>1, <2>2 DEF Runs, Over
<1>4. Started(l) BY <1>1, <1>2, <1>3 DEF LogInv, InvNew, Off
<1>5. ~Ended(l) /\ done[l] = 0 BY <1>1, <1>2, <1>3 DEF LogInv, InvKilled
<1>6. ~(Stops(l) /\ done[l] = Len(Now.cmds))
  <2> SUFFICES ASSUME Stops(l) PROVE done[l] # Len(Now.cmds) OBVIOUS
  <2>1. Now.cmds \in CommandLists BY Here DEF Stops, At, Now, InPlace
  <2> DEFINE len == Len(Now.cmds)
  <2>2. len \in 3 .. 5 BY <2>1, Saving
  <2> HIDE DEF len
  <2>3. len # 0 BY <2>2
  <2>4. done[l] # len BY <2>3, <1>5
  <2>5. QED BY <2>4 DEF len
<1>7. QED BY <1>3, <1>4, <1>5, <1>6

LEMMA LogsLogger ==
  ASSUME TypeOK, LInv, NEW l \in Logs, NEW r \in Runs, Logger(l, r)
  PROVE  LInv'
<1>1. proc[l][r] \in {"launched", "drain"} BY DEF Logger, Arrive, DrainKmsg
<1>2. /\ r = run /\ ~Over /\ Started(l) /\ ~Ended(l) /\ done[l] = 0
      /\ ~(Stops(l) /\ done[l] = Len(Now.cmds))
  BY <1>1, OfThisRun
<1>3. /\ mode' = mode /\ run' = run /\ step' = step /\ done' = done /\ saved' = saved
  BY DEF Logger, Arrive, DrainKmsg, script
<1>4. \E s \in {"drain", "reads"} : proc' = [proc EXCEPT ![l][r] = s]
  BY DEF Logger, Arrive, DrainKmsg
<1>5. \/ file' = [file EXCEPT ![l] = run]
      \/ file' = file /\ l[1] = "kmsg"
  BY <1>2 DEF Logger, Arrive, DrainKmsg
<1>6. OwnLogs' BY <1>3 DEF LInv, OwnLogs
<1>7. ASSUME NEW k \in Logs PROVE LogInv(k)'
  <2>1. LogInv(k) BY DEF LInv
  <2>2. /\ Started(k)' = Started(k) /\ Ended(k)' = Ended(k) /\ Stops(k)' = Stops(k)
        /\ Over' = Over /\ Now' = Now
    BY <1>3 DEF Started, Ended, Stops, Over, Now, At
  <2>3. CASE k # l
    <3>1. proc'[k] = proc[k] /\ file'[k] = file[k] BY <2>3, <1>4, <1>5 DEF TypeOK
    <3>2. InvDone(k)' /\ InvRuns(k)' /\ InvFile(k)' /\ InvNew(k)'
      BY <2>1, <2>2, <3>1, <1>3 DEF LogInv, InvDone, InvRuns, InvFile, InvNew
    <3>3. InvKilled(k)' /\ InvGone(k)' /\ InvConn(k)' /\ InvKept(k)'
      BY <2>1, <2>2, <3>1, <1>3 DEF LogInv, InvKilled, InvGone, InvConn, InvKept
    <3>4. QED BY <3>2, <3>3 DEF LogInv
  <2>4. CASE k = l
    <3>1. /\ proc'[l][run] \in {"drain", "reads"}
          /\ \A q \in Runs : q # run => proc'[l][q] = proc[l][q]
      BY <1>2, <1>4 DEF TypeOK
    <3>2. file'[l] = run \/ (file'[l] = file[l] /\ l[1] = "kmsg") BY <1>5 DEF TypeOK
    <3>3. InvDone(l)' BY <1>2, <1>3 DEF InvDone
    <3>4. InvRuns(l)'
      <4>1. \A q \in Runs : q < run \/ q > run => q # run BY <1>2 DEF Runs
      <4>2. QED BY <4>1, <3>1, <2>1, <2>4, <1>3 DEF LogInv, InvRuns
    <3>5. InvFile(l)' BY <3>2, <2>1, <2>2, <2>4, <1>2, <1>3 DEF LogInv, InvFile
    <3>6. InvNew(l)' /\ InvKilled(l)' /\ InvGone(l)'
      BY <2>2, <2>4, <1>2, <1>3 DEF InvNew, InvKilled, InvGone
    <3>7. InvConn(l)' BY <3>1, <1>3 DEF InvConn
    <3>8. InvKept(l)' BY <3>2, <1>2, <1>3 DEF InvKept
    <3>9. QED BY <2>4, <3>3, <3>4, <3>5, <3>6, <3>7, <3>8 DEF LogInv
  <2>5. QED BY <2>3, <2>4
<1>8. QED BY <1>6, <1>7 DEF LInv

LEMMA LogsCommand ==
  ASSUME TypeOK, LInv, NEW l \in Logs, Command(l)
  PROVE  LInv'
<1> DEFINE C == Now.cmds  d == done[l]
<1>1. /\ At("stop") /\ l \in Now.of /\ C \in CommandLists /\ d \in 0 .. 4 /\ d < Len(C)
      /\ done' = [done EXCEPT ![l] = d + 1]
  BY CommandIs
<1>2. \/ d = 0 /\ Kill(l)
      \/ d # 0 /\ C[d + 1] = "dir" /\ Copy(l)
      \/ d # 0 /\ C[d + 1] = "root" /\ UNCHANGED <<proc, file, saved>>
      \/ d # 0 /\ C[d + 1] = "delete" /\ Delete(l)
  BY CommandIs
<1>3. /\ mode' = mode /\ run' = run /\ step' = step BY DEF Command, script
<1>4. ~Over /\ Stops(l) BY <1>1 DEF Stops, At
<1>5. run \in Runs
  <2>1. run \in 1 .. Times + 1 /\ Times \in Nat BY Here
  <2>2. QED BY <2>1, <1>4 DEF Over, Runs
<1>6. step > Barrier(mode) /\ (mode = "clients" => C = Save)
  BY Here, <1>1 DEF At, Now, InPlace
<1>7. /\ Len(C) \in 3 .. 5 /\ C[Len(C)] = "delete" BY <1>1, Saving
<1>8. ASSUME NEW k \in Logs
      PROVE  /\ Started(k)' = Started(k) /\ Ended(k)' = Ended(k) /\ Stops(k)' = Stops(k)
             /\ Over' = Over /\ Now' = Now
  BY <1>3 DEF Started, Ended, Stops, Over, Now, At
<1>9. LogInv(l) BY DEF LInv
<1>10. C = Save => C[1] = "kill" /\ C[2] = "dir" /\ C[3] = "delete" /\ Len(C) = 3 BY DEF Save
<1> HIDE DEF C, d
<1>11. proc[l][run] # "launched" BY <1>4, <1>6, <1>9 DEF LogInv, InvConn
<1>12. d # 0 => proc[l][run] \in Off BY <1>4, <1>9 DEF LogInv, InvKilled, d
<1>13. done'[l] = d + 1 /\ d + 1 # 0 BY <1>1 DEF TypeOK
<1>14. /\ \A r \in Runs : proc'[l][r] = proc[l][r]
                          \/ (proc[l][r] \notin Off /\ proc'[l][r] = "over")
       /\ proc'[l][run] \in Off
  <2>1. CASE Kill(l)
    <3>1. proc'[l] = Killed(proc[l]) BY <2>1 DEF Kill, TypeOK
    <3>2. \A r \in Runs : proc'[l][r] = IF proc[l][r] \in {"drain", "reads"}
                                         THEN "over" ELSE proc[l][r]
      BY <3>1 DEF Killed
    <3>3. proc[l][run] \in {"none", "launched", "drain", "reads", "over"}
      BY <1>5 DEF TypeOK
    <3>4. QED BY <3>2, <3>3, <1>5, <1>11 DEF Off
  <2>2. CASE d # 0
    <3>1. proc' = proc \/ Kill(l) BY <1>2 DEF Copy, Delete
    <3>2. QED BY <2>1, <3>1, <1>12, <2>2
  <2>3. QED BY <2>1, <2>2, <1>2
<1>15. /\ file'[l] \in {file[l], NoFile}
       /\ d + 1 = Len(C) => file'[l] = NoFile
  <2>1. CASE Kill(l) /\ d = 0 BY <2>1, <1>7 DEF Kill
  <2>2. CASE C[d + 1] = "delete" /\ Delete(l) BY <2>2 DEF Delete, TypeOK
  <2>3. CASE C[d + 1] \in {"dir", "root"} /\ file' = file BY <2>3, <1>7
  <2>4. QED BY <2>1, <2>2, <2>3, <1>2 DEF Copy
<1>16. file[l] \in {NoFile, run} BY <1>9 DEF LogInv, InvFile
<1>17. \/ saved' = saved
       \/ saved' = [saved EXCEPT ![run][l] = run] /\ file[l] = run
  BY <1>2, <1>16 DEF Kill, Copy, Delete
<1>18. OwnLogs'
  <2> SUFFICES ASSUME NEW r \in Runs, NEW k \in Logs
               PROVE  /\ saved'[r][k] \in {0, r}
                      /\ r < run => saved'[r][k] = saved[r][k]
    BY <1>3 DEF LInv, OwnLogs
  <2>1. r < run => r # run BY <1>5 DEF Runs
  <2>2. saved'[r][k] = saved[r][k] \/ (r = run /\ saved'[r][k] = run)
    BY <1>17, <1>5 DEF TypeOK
  <2>3. QED BY <2>1, <2>2 DEF LInv, OwnLogs
<1>19. ASSUME NEW k \in Logs, k # l PROVE LogInv(k)'
  <2>1. LogInv(k) BY DEF LInv
  <2>2. /\ done'[k] = done[k] /\ proc'[k] = proc[k] /\ file'[k] = file[k]
        /\ saved'[run][k] = saved[run][k]
    <3>1. done'[k] = done[k] BY <1>1, <1>19 DEF TypeOK
    <3>2. proc'[k] = proc[k] /\ file'[k] = file[k]
      BY <1>2, <1>19 DEF TypeOK, Kill, Copy, Delete
    <3>3. saved'[run][k] = saved[run][k] BY <1>17, <1>19, <1>5 DEF TypeOK
    <3>4. QED BY <3>1, <3>2, <3>3
  <2>3. InvDone(k)' /\ InvRuns(k)' /\ InvFile(k)' /\ InvNew(k)'
    BY <2>1, <2>2, <1>3, <1>8 DEF LogInv, InvDone, InvRuns, InvFile, InvNew
  <2>4. InvKilled(k)' /\ InvGone(k)' /\ InvConn(k)' /\ InvKept(k)'
    BY <2>1, <2>2, <1>3, <1>8 DEF LogInv, InvKilled, InvGone, InvConn, InvKept
  <2>5. QED BY <2>3, <2>4 DEF LogInv
<1>20. LogInv(l)'
  <2>1. InvDone(l)' BY <1>1, <1>4, <1>7, <1>8, <1>13 DEF InvDone, C
  <2>2. InvRuns(l)' BY <1>3, <1>9, <1>14 DEF LogInv, InvRuns, Off
  <2>3. InvFile(l)' BY <1>3, <1>4, <1>8, <1>15, <1>16 DEF InvFile
  <2>4. InvNew(l)' BY <1>3, <1>5, <1>8, <1>9, <1>14, <1>15 DEF LogInv, InvNew, Off
  <2>5. InvKilled(l)' BY <1>3, <1>14 DEF InvKilled
  <2>6. InvGone(l)' BY <1>3, <1>8, <1>9, <1>13, <1>15 DEF LogInv, InvGone, C
  <2>7. InvConn(l)' BY <1>3, <1>14 DEF InvConn, Off
  <2>8. InvKept(l)'
    <3> SUFFICES ASSUME mode = "clients", Started(l), l[1] # "kmsg"
                 PROVE  /\ file'[l] = run \/ saved'[run][l] = run
                        /\ d + 1 >= 2 => saved'[run][l] = run
      BY <1>3, <1>8, <1>13 DEF InvKept
    <3>1. file[l] = run \/ saved[run][l] = run
      BY <1>4, <1>9, <1>11 DEF LogInv, InvKept
    <3>2. d >= 2 => saved[run][l] = run BY <1>4, <1>9 DEF LogInv, InvKept, d
    <3>3. C[1] = "kill" /\ C[2] = "dir" /\ C[3] = "delete" /\ Len(C) = 3 BY <1>6, <1>10
    <3>4. run # NoFile BY <1>5 DEF Runs, NoFile
    <3>5. CASE d = 0 BY <3>1, <3>5, <1>2 DEF Kill
    <3>6. CASE d = 1
      <4>1. Copy(l) BY <3>3, <3>6, <1>2
      <4>2. saved'[run][l] = IF file[l] = NoFile THEN saved[run][l] ELSE file[l]
        BY <4>1, <1>5 DEF Copy, TypeOK
      <4>3. QED BY <4>2, <3>1, <3>4, <1>16
    <3>7. CASE d = 2
      <4>1. saved' = saved BY <3>3, <3>7, <1>2 DEF Delete
      <4>2. QED BY <4>1, <3>2, <3>7
    <3>8. QED BY <3>3, <3>5, <3>6, <3>7, <1>1
  <2>9. QED BY <2>1, <2>2, <2>3, <2>4, <2>5, <2>6, <2>7, <2>8 DEF LogInv
<1>21. QED BY <1>18, <1>19, <1>20 DEF LInv

LEMMA LogsStep == TypeOK /\ LInv /\ [Next]_vars => LInv'
<1> SUFFICES ASSUME TypeOK, LInv, [Next]_vars PROVE LInv' OBVIOUS
<1> USE DEF At
<1>1. \A l \in Logs : Now.do # "stop" => ~Stops(l) BY DEF Stops
<1>2. CASE StartLogs BY <1>2, LogsStart
<1>3. ASSUME NEW l \in Logs, Command(l) PROVE LInv' BY <1>3, LogsCommand
<1>4. CASE Stopped
  <2>1. step # Barrier(mode) BY <1>4, Here DEF Stopped, InPlace, Now
  <2>2. \A l \in Logs : Stops(l) => done[l] = Len(Now.cmds) BY <1>4 DEF Stopped, Stops
  <2>3. QED BY <1>4, <2>1, <2>2, LogsAdvance DEF Stopped
<1>5. CASE ServeUp
  <2>1. step # Barrier(mode) BY <1>5, Here DEF ServeUp, InPlace, Now
  <2>2. QED BY <1>5, <2>1, LogsPass DEF ServeUp
<1>6. CASE Clear
  <2>1. step # Barrier(mode) BY <1>6, Here DEF Clear, InPlace, Now
  <2>2. QED BY <1>6, <2>1, LogsPass DEF Clear
<1>7. CASE WaitServers BY <1>7, LogsPass DEF WaitServers
<1>8. CASE Launch
  <2>1. step # Barrier(mode) BY <1>8, Here DEF Launch, InPlace, Now
  <2>2. QED BY <1>8, <2>1, LogsPass DEF Launch
<1>9. CASE Wait BY <1>9, LogsPass DEF Wait
<1>10. ASSUME NEW l \in Logs, NEW r \in Runs, Logger(l, r) PROVE LInv'
  BY <1>10, LogsLogger
<1>11. CASE ServeKill \/ ServeSpawn BY <1>11, LogsStay DEF ServeKill, ServeSpawn
<1>12. ASSUME NEW s \in Servers, Listens(s) PROVE LInv' BY <1>12, LogsStay DEF Listens
<1>13. ASSUME NEW c \in ClientSet, Tput(c) PROVE LInv'
  BY <1>13, LogsStay DEF Tput, TputKill, TputSpawn, TputUp, TputSend
<1>14. ASSUME NEW c \in DOMAIN flow, FlowEnds(c) PROVE LInv' BY <1>14, LogsStay DEF FlowEnds
<1>15. CASE UNCHANGED vars BY <1>15, LogsStay DEF vars
<1>16. QED
  BY <1>2, <1>3, <1>4, <1>5, <1>6, <1>7, <1>8, <1>9, <1>10, <1>11, <1>12, <1>13, <1>14,
     <1>15 DEF Next, Script

LEMMA LogsKept == Spec => [](TypeOK /\ LInv)
<1>1. QED BY TypeInit, TypeNext, LogsInit, LogsStep, PTL DEF Spec

(* What is in the directory of a run comes from that run, and a test from  *)
(* the clients saves all its captures and tcp_probe logs.                  *)
THEOREM LogsOfTheirRun == Spec => []OwnLogs
<1>1. LInv => OwnLogs BY DEF LInv
<1>2. QED BY <1>1, LogsKept, PTL

(* No two loggers read the same log at a time: those that read are of the  *)
(* run that is going on.                                                   *)
THEOREM ReadersAlone == Spec => []OneReader
<1>1. TypeOK /\ LInv => OneReader
  <2> SUFFICES ASSUME TypeOK, LInv, NEW l \in Logs
               PROVE  Cardinality({r \in Runs : proc[l][r] \in {"drain", "reads"}}) <= 1
    BY DEF OneReader
  <2> DEFINE R == {r \in Runs : proc[l][r] \in {"drain", "reads"}}
  <2>1. R \subseteq {run}
    <3> SUFFICES ASSUME NEW r \in R PROVE r = run OBVIOUS
    <3>1. LogInv(l) BY DEF LInv
    <3>2. ~(r < run) /\ ~(r > run) BY <3>1 DEF LogInv, InvRuns, Off
    <3>3. run \in 1 .. Times + 1 /\ Times \in Nat BY Here
    <3>4. QED BY <3>2, <3>3 DEF Runs
  <2> HIDE DEF R
  <2>2. IsFiniteSet({run}) /\ Cardinality({run}) = 1 BY FS_Singleton
  <2>3. Cardinality(R) <= Cardinality({run}) /\ IsFiniteSet(R) BY <2>1, <2>2, FS_Subset
  <2>4. Cardinality(R) \in Nat BY <2>3, FS_CardinalityType
  <2>5. Cardinality(R) <= 1 BY <2>2, <2>3, <2>4
  <2>6. QED BY <2>5 DEF R
<1>2. QED BY <1>1, LogsKept, PTL

(* A test that is over leaves no logger that reads, and no log file.       *)
THEOREM HostsLeftClean == Spec => []HostsClean
<1>1. TypeOK /\ LInv => HostsClean
  <2> SUFFICES ASSUME TypeOK, LInv, Over, NEW l \in Logs, NEW r \in Runs
               PROVE  file[l] = NoFile /\ proc[l][r] \in {"none", "over"}
    <3>1. \E r \in Runs : TRUE
      <4>1. 1 \in Runs BY TestRunAssumption DEF Runs
      <4>2. QED BY <4>1
    <3>2. QED BY <3>1 DEF HostsClean
  <2>1. LogInv(l) BY DEF LInv
  <2>2. r < run
    <3>1. run \in 1 .. Times + 1 /\ Times \in Nat BY Here
    <3>2. QED BY <3>1 DEF Over, Runs
  <2>3. QED BY <2>1, <2>2 DEF LogInv, InvFile, InvRuns, Off
<1>2. QED BY <1>1, LogsKept, PTL

-----------------------------------------------------------------------------
(* Flows.                                                                  *)

(* A TCP flow lasts only while the script waits for it, ...                *)
InvFlow ==
  \A c \in ClientSet \cup {TcpClient} :
    flow[c] = "on" => step = Barrier(mode) /\ mode \in Carries

(* ... and its server, once it listens, is not touched until then.         *)
InvTcp ==
  mode \in Carries /\ TcpAt(mode) < step /\ step <= Barrier(mode)
    => server[<<"tcp", "src">>] = "up"

(* So do UDP flows; only the first tput kills and starts servers.          *)
First == Clients[mode][1]
InvTput ==
  \A c \in ClientSet : /\ tput[c] # "off" => step = Barrier(mode) /\ mode \in {"udp", "share"}
                       /\ tput[c] \in {"kill", "listen"} => c = First
InvUdp == tput[First] \in {"client", "send", "done"} => server[UdpServer] = "up"

FInv == InvFlow /\ InvTcp /\ InvTput /\ InvUdp

LEMMA FirstIsClient == ASSUME TypeOK PROVE First \in ClientSet
<1>1. Clients[mode] \in Seq(Of(mode)) /\ Clients[mode] # << >> /\ mode \in Modes
  BY TestRunAssumption DEF TypeOK
<1>2. 1 \in 1 .. Len(Clients[mode])
  <2> DEFINE q == Clients[mode]  S == Of(mode)
  <2>1. q \in Seq(S) /\ q # << >> BY <1>1
  <2> HIDE DEF q, S
  <2>2. 1 \in 1 .. Len(q) BY <2>1
  <2>3. QED BY <2>2 DEF q
<1>3. QED BY <1>1, <1>2 DEF First, Of, ClientSet

LEMMA FlowsInit == Init => FInv
<1> SUFFICES ASSUME Init PROVE FInv OBVIOUS
<1>1. TypeOK BY TypeInit
<1>2. step = 1 /\ TcpAt(mode) >= 1 BY DEF Init, TcpAt
<1>3. First \in ClientSet BY <1>1, FirstIsClient
<1>4. InvFlow /\ InvTput /\ InvUdp BY <1>3 DEF Init, InvFlow, InvTput, InvUdp
<1>5. InvTcp BY <1>2 DEF InvTcp, TcpAt
<1>6. QED BY <1>4, <1>5 DEF FInv

LEMMA FlowsStay ==
  ASSUME FInv, UNCHANGED <<script, flows>>, server'[<<"tcp", "src">>] = server[<<"tcp", "src">>],
         server'[UdpServer] = server[UdpServer]
  PROVE  FInv'
<1>1. mode' = mode /\ step' = step /\ tput' = tput /\ flow' = flow BY DEF script, flows
<1>2. First' = First BY <1>1 DEF First
<1>3. UdpServer' = UdpServer BY DEF UdpServer
<1>4. InvFlow' /\ InvTput' BY <1>1, <1>2 DEF FInv, InvFlow, InvTput
<1>5. InvTcp' BY <1>1 DEF FInv, InvTcp
<1>6. InvUdp' BY <1>1, <1>2 DEF FInv, InvUdp, UdpServer
<1>7. QED BY <1>4, <1>5, <1>6 DEF FInv

(* No flow is there while the script is anywhere else. *)
LEMMA NoFlow ==
  ASSUME FInv, TypeOK, step # Barrier(mode)
  PROVE  /\ \A c \in ClientSet : tput[c] = "off"
         /\ \A c \in ClientSet \cup {TcpClient} : flow[c] # "on"
BY DEF FInv, InvTput, InvFlow

(* The script goes on, and no flow is left or started. *)
LEMMA FlowsAdvance ==
  ASSUME TypeOK, ~Over, Advance,
         \A c \in ClientSet : tput'[c] = "off",
         \A c \in ClientSet \cup {TcpClient} : flow'[c] # "on",
         mode \in Carries /\ TcpAt(mode) < step + 1 /\ step + 1 <= Barrier(mode)
           => server'[<<"tcp", "src">>] = "up"
  PROVE  FInv'
<1>1. /\ Barrier(mode) \in Nat /\ step \in Nat
      /\ \/ step' = step + 1
         \/ step' = 1
  <2> DEFINE N == Len(Plan(mode))
  <2>1. Barrier(mode) \in 1 .. N - 1 /\ step \in 1 .. N BY Here
  <2>2. step' = step + 1 \/ step' = 1 BY DEF Advance
  <2> HIDE DEF N
  <2>3. QED BY <2>1, <2>2
<1>2. mode' = mode BY DEF Advance
<1>3. TcpAt(mode) \in {2, 8} BY DEF TcpAt
<1>4. InvFlow' /\ InvTput' BY DEF InvFlow, InvTput
<1>5. InvTcp'
  <2> SUFFICES ASSUME mode \in Carries, TcpAt(mode) < step', step' <= Barrier(mode)
               PROVE  server'[<<"tcp", "src">>] = "up"
    BY <1>2 DEF InvTcp, TcpAt, Barrier
  <2>1. step' = step + 1 BY <1>1, <1>3
  <2>2. QED BY <2>1
<1>6. InvUdp'
  <2>1. First \in ClientSet BY FirstIsClient
  <2>2. First' = First BY <1>2 DEF First
  <2>3. QED BY <2>1, <2>2 DEF InvUdp
<1>7. QED BY <1>4, <1>5, <1>6 DEF FInv

(* The server of the TCP flows, once it listens, is there until the wait. *)
LEMMA TcpStays ==
  ASSUME TypeOK, FInv, mode \in Carries, TcpAt(mode) < step + 1, step + 1 <= Barrier(mode),
         Now.do # "serve"
  PROVE  server[<<"tcp", "src">>] = "up"
<1>1. step \in Nat /\ Barrier(mode) \in Nat
  <2>1. step \in 1 .. Len(Plan(mode)) /\ Barrier(mode) \in 1 .. Len(Plan(mode)) - 1 BY Here
  <2> DEFINE N == Len(Plan(mode))
  <2> HIDE DEF N
  <2>2. QED BY <2>1 DEF N
<1>2. TcpAt(mode) \in {2, 8} BY DEF TcpAt
<1>3. step # TcpAt(mode)
  <2>1. Plan(mode)[TcpAt(mode)].do = "serve" BY Here DEF Planned, TcpServed, Serve
  <2>2. QED BY <2>1 DEF Now
<1>4. TcpAt(mode) < step /\ step <= Barrier(mode) BY <1>1, <1>2, <1>3
<1>5. QED BY <1>4 DEF FInv, InvTcp

(* No server is started between that one and the wait. *)
LEMMA NoServe ==
  ASSUME TypeOK, At("serve"), mode \in Carries, step <= Barrier(mode)
  PROVE  ~(TcpAt(mode) < step)
<1> SUFFICES ASSUME TcpAt(mode) < step PROVE FALSE OBVIOUS
<1>1. step \in Nat /\ Barrier(mode) \in Nat
  <2>1. step \in 1 .. Len(Plan(mode)) /\ Barrier(mode) \in 1 .. Len(Plan(mode)) - 1 BY Here
  <2> DEFINE N == Len(Plan(mode))
  <2> HIDE DEF N
  <2>2. QED BY <2>1 DEF N
<1>2. TcpAt(mode) \in {2, 8} BY DEF TcpAt
<1>3. step \in TcpAt(mode) + 1 .. Barrier(mode) BY <1>1, <1>2
<1>4. Plan(mode)[step].do # "serve" BY <1>3, Here DEF Planned, TcpServed
<1>5. QED BY <1>4 DEF At, Now

(* Servers are killed or started only before that one, or after the wait. *)
LEMMA FlowsServe ==
  ASSUME TypeOK, FInv, ServeKill \/ ServeSpawn
  PROVE  FInv'
<1>1. At("serve") /\ UNCHANGED <<script, flows>> BY DEF ServeKill, ServeSpawn, flows
<1>2. mode' = mode /\ step' = step /\ tput' = tput /\ flow' = flow BY <1>1 DEF script, flows
<1>3. step # Barrier(mode) BY <1>1, Here DEF At, Now, InPlace
<1>4. First' = First BY <1>2 DEF First
<1>5. InvFlow' /\ InvTput' BY <1>2, <1>4 DEF FInv, InvFlow, InvTput
<1>6. InvTcp' BY <1>1, <1>2, NoServe DEF InvTcp
<1>7. InvUdp' BY <1>2, <1>3, <1>4, NoFlow, FirstIsClient DEF InvUdp
<1>8. QED BY <1>5, <1>6, <1>7 DEF FInv

LEMMA FlowsLaunch ==
  ASSUME TypeOK, FInv, Launch
  PROVE  FInv'
<1> DEFINE N == Len(Plan(mode))  B == Barrier(mode)
<1>1. Now.do = "flows" /\ Advance BY DEF Launch, At
<1>2. step = B - 1 BY <1>1, Here DEF InPlace, Now
<1>3. B \in 1 .. N - 1 /\ N \in Nat BY Here
<1>4. mode' = mode BY <1>1 DEF Advance
<1>5. step < N => step' = step + 1 BY <1>1 DEF Advance
<1> HIDE DEF N
<1>6. step' = step + 1 /\ step + 1 = B BY <1>2, <1>3, <1>5
<1>7. First' = First BY <1>4 DEF First
<1>8. /\ \A c \in ClientSet : tput'[c] = IF c \notin UdpFlows(mode) THEN "off"
                                         ELSE IF c = First THEN "kill" ELSE "client"
      /\ \A c \in ClientSet \cup {TcpClient} :
           flow'[c] = IF c \in TcpFlows(mode) THEN "on" ELSE "off"
      /\ server' = server
  BY DEF Launch, First, TypeOK, iperf
<1>9. InvFlow' BY <1>4, <1>6, <1>8 DEF InvFlow, TcpFlows, Carries
<1>10. InvTcp' BY <1>1, <1>4, <1>6, <1>8, TcpStays DEF InvTcp
<1>11. InvTput'
  <2> SUFFICES ASSUME NEW c \in ClientSet
               PROVE  /\ tput'[c] # "off" => step' = B /\ mode \in {"udp", "share"}
                      /\ tput'[c] \in {"kill", "listen"} => c = First
    BY <1>4, <1>7 DEF InvTput
  <2>1. QED BY <1>6, <1>8 DEF UdpFlows
<1>12. InvUdp' BY <1>7, <1>8, FirstIsClient DEF InvUdp
<1>13. QED BY <1>9, <1>10, <1>11, <1>12 DEF FInv

LEMMA FlowsTput ==
  ASSUME TypeOK, FInv, NEW c \in ClientSet, Tput(c)
  PROVE  FInv'
<1>1. mode' = mode /\ step' = step /\ flow' = flow
  BY DEF Tput, TputKill, TputSpawn, TputUp, TputSend, script, flows
<1>2. First' = First BY <1>1 DEF First
<1>3. First \in ClientSet BY FirstIsClient
<1>4. <<"tcp", "src">> # UdpServer /\ UdpServer \in Servers BY ServerSets DEF UdpServer
<1>5. tput[c] # "off" BY DEF Tput, TputKill, TputSpawn, TputUp, TputSend
<1>6. server'[<<"tcp", "src">>] = server[<<"tcp", "src">>]
  <2>1. <<"tcp", "src">> \in Servers BY ServerSets
  <2>2. CASE KillServers({UdpServer}) BY <2>1, <2>2, <1>4 DEF KillServers
  <2>3. CASE Spawn(UdpServer) BY <2>3, <1>4 DEF Spawn, TypeOK
  <2>4. CASE server' = server BY <2>4
  <2>5. QED BY <2>2, <2>3, <2>4 DEF Tput, TputKill, TputSpawn, TputUp, TputSend, iperf
<1>7. InvFlow' BY <1>1 DEF FInv, InvFlow
<1>8. InvTcp' BY <1>1, <1>6 DEF FInv, InvTcp
<1>9. \E s \in {"listen", "client", "send", "done"} :
        /\ tput' = [tput EXCEPT ![c] = s]
        /\ s = "listen" => c = First
        /\ s = "client" /\ c = First => server'[UdpServer] = "up"
        /\ s \in {"send", "done"} => tput[c] \in {"client", "send"} /\ server' = server
        /\ s # "listen" => server' = server
  <2>1. CASE TputKill(c) BY <2>1 DEF TputKill, FInv, InvTput
  <2>2. CASE TputSpawn(c)
    <3>1. tput' = [tput EXCEPT ![c] = "listen"] BY <2>2 DEF TputSpawn, flows, TypeOK
    <3>2. QED BY <3>1, <2>2 DEF TputSpawn, FInv, InvTput
  <2>3. CASE TputUp(c) BY <2>3 DEF TputUp, iperf
  <2>4. CASE TputSend(c) BY <2>4 DEF TputSend, iperf
  <2>5. QED BY <2>1, <2>2, <2>3, <2>4 DEF Tput
<1>10. PICK s \in {"listen", "client", "send", "done"} :
        /\ tput' = [tput EXCEPT ![c] = s]
        /\ s = "listen" => c = First
        /\ s = "client" /\ c = First => server'[UdpServer] = "up"
        /\ s \in {"send", "done"} => tput[c] \in {"client", "send"} /\ server' = server
        /\ s # "listen" => server' = server
  BY <1>9
<1>11. tput'[c] = s /\ \A b \in ClientSet : b # c => tput'[b] = tput[b]
  BY <1>10 DEF TypeOK
<1>12. InvTput'
  <2> SUFFICES ASSUME NEW b \in ClientSet
               PROVE  /\ tput'[b] # "off" => step = Barrier(mode) /\ mode \in {"udp", "share"}
                      /\ tput'[b] \in {"kill", "listen"} => b = First
    BY <1>1, <1>2 DEF InvTput
  <2>1. CASE b = c BY <2>1, <1>5, <1>10, <1>11 DEF FInv, InvTput
  <2>2. CASE b # c BY <2>2, <1>11 DEF FInv, InvTput
  <2>3. QED BY <2>1, <2>2
<1>13. InvUdp'
  <2> SUFFICES ASSUME tput'[First] \in {"client", "send", "done"} PROVE server'[UdpServer] = "up"
    BY <1>2 DEF InvUdp, UdpServer
  <2>1. CASE First = c BY <2>1, <1>10, <1>11 DEF FInv, InvUdp
  <2>2. CASE First # c
    <3>1. s # "listen" BY <2>2, <1>10
    <3>2. tput'[First] = tput[First] BY <2>2, <1>3, <1>11
    <3>3. QED BY <3>1, <3>2, <1>10 DEF FInv, InvUdp
  <2>3. QED BY <2>1, <2>2
<1>14. QED BY <1>7, <1>8, <1>12, <1>13 DEF FInv

LEMMA FlowsStep == TypeOK /\ FInv /\ [Next]_vars => FInv'
<1> SUFFICES ASSUME TypeOK, FInv, [Next]_vars PROVE FInv' OBVIOUS
<1> USE DEF At
<1> DEFINE Tcp == <<"tcp", "src">>
           Goes == mode \in Carries /\ TcpAt(mode) < step + 1 /\ step + 1 <= Barrier(mode)
<1>1. ASSUME ~Over, Advance, Now.do \notin {"serve", "clear", "wait", "servers", "flows"},
             UNCHANGED <<server, flows>>
      PROVE  FInv'
  <2>1. step # Barrier(mode) BY <1>1, Here DEF InPlace, Now
  <2>2. Goes => server'[Tcp] = "up" BY <1>1, TcpStays
  <2>3. /\ \A c \in ClientSet : tput'[c] = "off"
        /\ \A c \in ClientSet \cup {TcpClient} : flow'[c] # "on"
    BY <1>1, <2>1, NoFlow DEF flows
  <2>4. QED BY <1>1, <2>2, <2>3, FlowsAdvance
<1>2. CASE StartLogs BY <1>1, <1>2 DEF StartLogs, iperf
<1>3. ASSUME NEW l \in Logs, Command(l) PROVE FInv'
  BY <1>3, FlowsStay DEF Command, iperf, UdpServer
<1>4. CASE Stopped BY <1>1, <1>4 DEF Stopped, iperf
<1>5. CASE ServeKill \/ ServeSpawn BY <1>5, FlowsServe
<1>6. CASE ServeUp
  <2>1. ~Over /\ Advance /\ Now.do = "serve" /\ UNCHANGED <<iperf, flows>>
        /\ \A s \in Now.of : server[s] = "up"
    BY <1>6 DEF ServeUp
  <2>2. step # Barrier(mode) BY <2>1, Here DEF InPlace, Now
  <2>3. Goes => server'[Tcp] = "up"
    <3> SUFFICES ASSUME Goes PROVE server[Tcp] = "up" BY <2>1 DEF iperf
    <3>1. step \in Nat /\ Barrier(mode) \in Nat
      <4>1. step \in 1 .. Len(Plan(mode)) /\ Barrier(mode) \in 1 .. Len(Plan(mode)) - 1 BY Here
      <4> DEFINE N == Len(Plan(mode))
      <4> HIDE DEF N
      <4>2. QED BY <4>1 DEF N
    <3>2. TcpAt(mode) \in {2, 8} BY DEF TcpAt
    <3>3. step <= Barrier(mode) BY <3>1
    <3>4. ~(TcpAt(mode) < step) BY <3>3, <2>1, NoServe
    <3>5. step = TcpAt(mode) BY <3>1, <3>2, <3>4
    <3>6. Now = Serve("tcp", "src") BY <3>5, Here DEF Planned, TcpServed, Now
    <3>7. Tcp \in Now.of BY <3>6 DEF Serve
    <3>8. QED BY <3>7, <2>1
  <2>4. /\ \A c \in ClientSet : tput'[c] = "off"
        /\ \A c \in ClientSet \cup {TcpClient} : flow'[c] # "on"
    BY <2>1, <2>2, NoFlow DEF flows
  <2>5. QED BY <2>1, <2>3, <2>4, FlowsAdvance
<1>7. CASE Clear
  <2>1. ~Over /\ Advance /\ Now.do = "clear" /\ UNCHANGED flows BY <1>7 DEF Clear
  <2>2. step # Barrier(mode) /\ mode \notin Carries
    BY <2>1, Here DEF InPlace, Now, Carries
  <2>3. /\ \A c \in ClientSet : tput'[c] = "off"
        /\ \A c \in ClientSet \cup {TcpClient} : flow'[c] # "on"
    BY <2>1, <2>2, NoFlow DEF flows
  <2>4. QED BY <2>1, <2>2, <2>3, FlowsAdvance
<1>8. CASE WaitServers
  <2>1. ~Over /\ Advance /\ Now.do = "servers" /\ UNCHANGED flows BY <1>8 DEF WaitServers
  <2>2. mode = "wsrc" BY <2>1, Here DEF InPlace, Now
  <2>3. /\ \A c \in ClientSet : tput'[c] = "off"
        /\ \A c \in ClientSet \cup {TcpClient} : flow'[c] # "on"
    BY <2>1, <2>2 DEF flows, FInv, InvTput, InvFlow, Carries
  <2>4. QED BY <2>1, <2>2, <2>3, FlowsAdvance DEF Carries
<1>9. CASE Launch BY <1>9, FlowsLaunch
<1>10. CASE Wait
  <2>1. ~Over /\ Advance /\ Now.do = "wait" BY <1>10 DEF Wait
  <2>2. step = Barrier(mode) BY <2>1, Here DEF InPlace, Now
  <2>3. ~(step + 1 <= Barrier(mode))
    <3>1. step \in 1 .. Len(Plan(mode)) BY Here
    <3>2. QED BY <2>2, <3>1
  <2>4. /\ \A c \in ClientSet : tput'[c] = "off"
        /\ \A c \in ClientSet \cup {TcpClient} : flow'[c] # "on"
    BY <1>10 DEF Wait, TypeOK
  <2>5. QED BY <2>1, <2>3, <2>4, FlowsAdvance
<1>11. ASSUME NEW l \in Logs, NEW r \in Runs, Logger(l, r) PROVE FInv'
  BY <1>11, FlowsStay DEF Logger, Arrive, DrainKmsg, iperf, UdpServer
<1>12. ASSUME NEW s \in Servers, Listens(s) PROVE FInv'
  <2>1. /\ mode' = mode /\ step' = step /\ tput' = tput /\ flow' = flow
        /\ server' = [server EXCEPT ![s] = "up"]
    BY <1>12 DEF Listens, script, flows
  <2>2. First' = First BY <2>1 DEF First
  <2>3. \A t \in Servers : server[t] = "up" => server'[t] = "up" BY <2>1 DEF TypeOK
  <2>4. Tcp \in Servers /\ UdpServer \in Servers BY ServerSets DEF UdpServer
  <2>5. InvFlow' /\ InvTput' BY <2>1, <2>2 DEF FInv, InvFlow, InvTput
  <2>6. InvTcp' BY <2>1, <2>3, <2>4 DEF FInv, InvTcp
  <2>7. InvUdp' BY <2>1, <2>2, <2>3, <2>4 DEF FInv, InvUdp, UdpServer
  <2>8. QED BY <2>5, <2>6, <2>7 DEF FInv
<1>13. ASSUME NEW c \in ClientSet, Tput(c) PROVE FInv' BY <1>13, FlowsTput
<1>14. ASSUME NEW c \in DOMAIN flow, FlowEnds(c) PROVE FInv'
  <2>1. /\ mode' = mode /\ step' = step /\ tput' = tput /\ server' = server
        /\ flow' = [flow EXCEPT ![c] = "done"]
    BY <1>14 DEF FlowEnds, script, iperf
  <2>2. First' = First BY <2>1 DEF First
  <2>3. InvFlow' BY <2>1 DEF FInv, InvFlow, TypeOK
  <2>4. InvTput' BY <2>1, <2>2 DEF FInv, InvTput
  <2>5. InvTcp' BY <2>1 DEF FInv, InvTcp
  <2>6. InvUdp' BY <2>1, <2>2 DEF FInv, InvUdp, UdpServer
  <2>7. QED BY <2>3, <2>4, <2>5, <2>6 DEF FInv
<1>15. CASE UNCHANGED vars BY <1>15, FlowsStay DEF vars, iperf, UdpServer
<1>16. QED
  BY <1>2, <1>3, <1>4, <1>5, <1>6, <1>7, <1>8, <1>9, <1>10, <1>11, <1>12, <1>13, <1>14,
     <1>15 DEF Next, Script

(* TCP flows have a server for as long as they last, UDP flows from the    *)
(* moment the first tput has found its own to listen.                      *)
THEOREM FlowsHaveServers == Spec => []FlowsHeard
<1>1. TypeOK /\ FInv => FlowsHeard
  <2> SUFFICES ASSUME TypeOK, FInv PROVE FlowsHeard OBVIOUS
  <2>1. ASSUME NEW c \in DOMAIN flow, flow[c] = "on" PROVE server[<<"tcp", "src">>] = "up"
    <3>1. step = Barrier(mode) /\ mode \in Carries BY <2>1 DEF FInv, InvFlow, TypeOK
    <3>2. TcpAt(mode) < Barrier(mode) /\ Barrier(mode) \in Nat
      BY <3>1 DEF TcpAt, Barrier, Carries
    <3>3. QED BY <3>1, <3>2 DEF FInv, InvTcp
  <2>2. QED BY <2>1 DEF FInv, InvUdp, First, FlowsHeard
<1>2. QED BY <1>1, TypeInit, TypeNext, FlowsInit, FlowsStep, PTL DEF Spec
=============================================================================
