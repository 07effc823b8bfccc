----------------------------- MODULE AthTx_proofs -----------------------------
(***************************************************************************)
(* Proofs about AthTx: the lists always hold each transmit buffer exactly  *)
(* once, every frame in the driver is covered by a node reference, and the *)
(* tail drop bounds the video queue.                                       *)
(***************************************************************************)
EXTENDS AthTx, FiniteSetTheorems, TLAPS

(* The first n buffers of one list are put at the end of another. *)
Transfer(L, from, to, n) ==
  [L EXCEPT ![from] = SubSeq(@, n + 1, Len(@)),
            ![to] = @ \o SubSeq(L[from], 1, n)]

(* What a transfer leaves at each position of the two lists. *)
LEMMA TransferShape ==
  ASSUME NEW L \in [Lists -> Seq(Bufs)], NEW from \in Lists, NEW to \in Lists, from # to,
         NEW n \in 0 .. Len(L[from])
  PROVE  LET M == Transfer(L, from, to, n) IN
         /\ M \in [Lists -> Seq(Bufs)]
         /\ \A l \in Lists \ {from, to} : M[l] = L[l]
         /\ Len(M[from]) = Len(L[from]) - n
         /\ Len(M[to]) = Len(L[to]) + n
         /\ \A i \in 1 .. Len(M[from]) : M[from][i] = L[from][i + n]
         /\ \A i \in 1 .. Len(L[to]) : M[to][i] = L[to][i]
         /\ \A i \in 1 .. n : M[to][Len(L[to]) + i] = L[from][i]
<1>1. L[from] \in Seq(Bufs) /\ L[to] \in Seq(Bufs) OBVIOUS
<1>2. SubSeq(L[from], n + 1, Len(L[from])) \in Seq(Bufs)
      /\ Len(SubSeq(L[from], n + 1, Len(L[from]))) = Len(L[from]) - n
      /\ \A i \in 1 .. Len(L[from]) - n :
           SubSeq(L[from], n + 1, Len(L[from]))[i] = L[from][i + n]
  BY <1>1
<1>3. SubSeq(L[from], 1, n) \in Seq(Bufs)
      /\ Len(SubSeq(L[from], 1, n)) = n
      /\ \A i \in 1 .. n : SubSeq(L[from], 1, n)[i] = L[from][i]
  BY <1>1
<1>4. /\ L[to] \o SubSeq(L[from], 1, n) \in Seq(Bufs)
      /\ Len(L[to] \o SubSeq(L[from], 1, n)) = Len(L[to]) + n
      /\ \A i \in 1 .. Len(L[to]) : (L[to] \o SubSeq(L[from], 1, n))[i] = L[to][i]
      /\ \A i \in 1 .. n : (L[to] \o SubSeq(L[from], 1, n))[Len(L[to]) + i] = L[from][i]
  BY <1>1, <1>3
<1>5. Transfer(L, from, to, n)[from] = SubSeq(L[from], n + 1, Len(L[from]))
      /\ Transfer(L, from, to, n)[to] = L[to] \o SubSeq(L[from], 1, n)
      /\ \A l \in Lists \ {from, to} : Transfer(L, from, to, n)[l] = L[l]
  BY DEF Transfer
<1>6. Transfer(L, from, to, n) \in [Lists -> Seq(Bufs)]
  BY <1>2, <1>4 DEF Transfer
<1> QED BY <1>2, <1>4, <1>5, <1>6

(* A transfer neither loses nor duplicates a buffer. *)
LEMMA TransferConserves ==
  ASSUME NEW L \in [Lists -> Seq(Bufs)], NEW from \in Lists, NEW to \in Lists, from # to,
         NEW n \in 0 .. Len(L[from]), Conserved(L)
  PROVE  Conserved(Transfer(L, from, to, n))
<1> DEFINE M == Transfer(L, from, to, n)
           s == L[from]
           t == L[to]
           d == Len(t)
<1> HIDE DEF M
<1>0. s \in Seq(Bufs) /\ t \in Seq(Bufs) /\ d \in Nat /\ n \in Nat OBVIOUS
<1>1. /\ M \in [Lists -> Seq(Bufs)]
      /\ \A l \in Lists \ {from, to} : M[l] = L[l]
      /\ Len(M[from]) = Len(s) - n
      /\ Len(M[to]) = d + n
      /\ \A i \in 1 .. Len(M[from]) : M[from][i] = s[i + n]
      /\ \A i \in 1 .. d : M[to][i] = t[i]
      /\ \A i \in 1 .. n : M[to][d + i] = s[i]
  BY TransferShape DEF M
<1>2. \A l \in Lists : DOMAIN M[l] = 1 .. Len(M[l]) /\ DOMAIN L[l] = 1 .. Len(L[l])
                       /\ Len(M[l]) \in Nat /\ Len(L[l]) \in Nat
  BY <1>1
<1>. HIDE DEF s, t, d
<1>3. /\ n \in Nat /\ d \in Nat /\ Len(s) \in Nat /\ n <= Len(s)
      /\ DOMAIN s = 1 .. Len(s) /\ DOMAIN t = 1 .. d
      /\ DOMAIN M[from] = 1 .. Len(s) - n /\ DOMAIN M[to] = 1 .. d + n
  BY <1>1, <1>2 DEF s, t, d
<1>a. \A i \in 1 .. Len(s) - n : M[from][i] = s[i + n]
  BY <1>1
<1>b. \A i \in 1 .. d : M[to][i] = t[i]
  BY <1>1
<1>c. \A i \in 1 .. n : M[to][d + i] = s[i]
  BY <1>1
<1>. DEFINE InOld(i) == i \in DOMAIN t /\ M[to][i] = t[i]
            InNew(i) == i - d \in DOMAIN s /\ i - d <= n /\ M[to][i] = s[i - d]
<1>4. \A i \in DOMAIN M[to] : InOld(i) \/ InNew(i)
  <2> SUFFICES ASSUME NEW i \in 1 .. d + n PROVE InOld(i) \/ InNew(i)
    BY <1>3
  <2>1. CASE i <= d BY <2>1, <1>b, <1>3
  <2>2. CASE i > d
    <3>1. i - d \in 1 .. n /\ i = d + (i - d) BY <2>2, <1>3
    <3>2. M[to][d + (i - d)] = s[i - d] BY <3>1, <1>c
    <3> QED BY <3>1, <3>2, <1>3
  <2> QED BY <2>1, <2>2, <1>3
<1>5. \A i \in DOMAIN M[from] : i + n \in DOMAIN s /\ M[from][i] = s[i + n]
  <2> SUFFICES ASSUME NEW i \in 1 .. Len(s) - n
               PROVE i + n \in DOMAIN s /\ M[from][i] = s[i + n]
    BY <1>3
  <2>1. i + n \in 1 .. Len(s) BY <1>3
  <2> QED BY <2>1, <1>a, <1>3
<1>6. /\ \A i, j \in DOMAIN s : s[i] = s[j] => i = j
      /\ \A i, j \in DOMAIN t : t[i] = t[j] => i = j
      /\ \A i \in DOMAIN s, j \in DOMAIN t : s[i] # t[j]
  BY DEF Conserved, Once, Apart, s, t
<1>7. Once(M[to])
  <2> SUFFICES ASSUME NEW i \in DOMAIN M[to], NEW j \in DOMAIN M[to], M[to][i] = M[to][j]
               PROVE i = j
    BY DEF Once
  <2>1. i \in Int /\ j \in Int /\ d \in Int BY <1>3
  <2>2. CASE InOld(i) /\ InOld(j) BY <2>2, <1>6
  <2>3. CASE InNew(i) /\ InNew(j)
    <3>1. i - d = j - d BY <2>3, <1>6
    <3> QED BY <3>1, <2>1
  <2>4. CASE InOld(i) /\ InNew(j) BY <2>4, <1>6
  <2>5. CASE InNew(i) /\ InOld(j) BY <2>5, <1>6
  <2> QED BY <1>4, <2>2, <2>3, <2>4, <2>5
<1>8. Once(M[from])
  <2> SUFFICES ASSUME NEW i \in DOMAIN M[from], NEW j \in DOMAIN M[from],
                      M[from][i] = M[from][j]
               PROVE i = j
    BY DEF Once
  <2>1. i + n = j + n BY <1>5, <1>6
  <2> QED BY <2>1, <1>3
<1>9. Apart(M[from], M[to]) /\ Apart(M[to], M[from])
  <2> SUFFICES ASSUME NEW i \in DOMAIN M[from], NEW j \in DOMAIN M[to]
               PROVE M[from][i] # M[to][j]
    BY DEF Apart
  <2>1. i + n \in DOMAIN s /\ M[from][i] = s[i + n] BY <1>5
  <2>2. CASE InOld(j) BY <2>1, <2>2, <1>6
  <2>3. CASE InNew(j)
    <3>1. i + n # j - d BY <2>3, <1>3
    <3> QED BY <3>1, <2>1, <2>3, <1>6
  <2> QED BY <2>2, <2>3, <1>4
<1>10. ASSUME NEW l \in Lists \ {from, to}
       PROVE Apart(M[from], L[l]) /\ Apart(M[to], L[l])
             /\ Apart(L[l], M[from]) /\ Apart(L[l], M[to])
  <2>1. /\ \A i \in DOMAIN s, j \in DOMAIN L[l] : s[i] # L[l][j]
        /\ \A i \in DOMAIN t, j \in DOMAIN L[l] : t[i] # L[l][j]
    BY DEF Conserved, Apart, s, t
  <2>2. \A i \in DOMAIN M[from], j \in DOMAIN L[l] : M[from][i] # L[l][j]
    BY <2>1, <1>5
  <2>3. \A i \in DOMAIN M[to], j \in DOMAIN L[l] : M[to][i] # L[l][j]
    BY <2>1, <1>4
  <2> QED BY <2>2, <2>3 DEF Apart
<1>11. \A l, m \in Lists : l # m => Apart(M[l], M[m])
  BY <1>9, <1>10, <1>1 DEF Conserved
<1>12. \A l \in Lists : Once(M[l])
  BY <1>7, <1>8, <1>1 DEF Conserved
<1>13. ASSUME NEW b \in Bufs PROVE \E l \in Lists : On(b, M[l])
  <2>0. PICK l \in Lists : On(b, L[l])
    BY DEF Conserved
  <2>1. PICK i \in DOMAIN L[l] : L[l][i] = b
    BY <2>0 DEF On
  <2>2. CASE l \notin {from, to} BY <2>1, <2>2, <1>1 DEF On
  <2>3. CASE l = to
    <3>1. i \in 1 .. d /\ t[i] = b BY <2>1, <2>3, <1>3 DEF t
    <3>2. i \in DOMAIN M[to] /\ M[to][i] = b BY <3>1, <1>b, <1>3
    <3> QED BY <3>2 DEF On
  <2>4. CASE l = from /\ i <= n
    <3>1. i \in 1 .. n /\ s[i] = b BY <2>1, <2>4, <1>3 DEF s
    <3>2. d + i \in DOMAIN M[to] /\ M[to][d + i] = b BY <3>1, <1>c, <1>3
    <3> QED BY <3>2 DEF On
  <2>5. CASE l = from /\ i > n
    <3>1. i \in DOMAIN s /\ s[i] = b BY <2>1, <2>5 DEF s
    <3>2. i - n \in 1 .. Len(s) - n /\ (i - n) + n = i BY <3>1, <2>5, <1>3
    <3>3. i - n \in DOMAIN M[from] /\ M[from][i - n] = b
      BY <3>1, <3>2, <1>3, <1>5
    <3> QED BY <3>3 DEF On
  <2>6. i \in Nat BY <2>0, <2>1, <1>2
  <2> QED BY <2>2, <2>3, <2>4, <2>5, <2>6, <1>3
<1> QED BY <1>11, <1>12, <1>13 DEF Conserved, M

(* Moving one buffer is a transfer of one. *)
LEMMA MoveIsTransfer ==
  ASSUME NEW L \in [Lists -> Seq(Bufs)], NEW from \in Lists, NEW to \in Lists, from # to,
         L[from] # << >>
  PROVE  [L EXCEPT ![from] = Tail(@), ![to] = Append(@, Head(L[from]))]
           = Transfer(L, from, to, 1)
<1>1. L[from] \in Seq(Bufs) /\ L[to] \in Seq(Bufs) OBVIOUS
<1>2. Len(L[from]) \in Nat \ {0} BY <1>1
<1>3. Tail(L[from]) = SubSeq(L[from], 1 + 1, Len(L[from])) BY <1>1, <1>2
<1>4. Append(L[to], Head(L[from])) = L[to] \o SubSeq(L[from], 1, 1) BY <1>1, <1>2
<1>5. Transfer(L, from, to, 1)
        = [L EXCEPT ![from] = SubSeq(L[from], 1 + 1, Len(L[from])),
                    ![to] = L[to] \o SubSeq(L[from], 1, 1)]
  BY Zenon DEF Transfer
<1> QED BY <1>3, <1>4, <1>5, Zenon

(* Moving one buffer: the types, the lengths, and every buffer still once. *)
LEMMA MoveLemma ==
  ASSUME NEW L \in [Lists -> Seq(Bufs)], NEW from \in Lists, NEW to \in Lists, from # to,
         L[from] # << >>
  PROVE  LET M == [L EXCEPT ![from] = Tail(@), ![to] = Append(@, Head(L[from]))] IN
         /\ M \in [Lists -> Seq(Bufs)]
         /\ Len(M[from]) = Len(L[from]) - 1 /\ Len(M[to]) = Len(L[to]) + 1
         /\ \A l \in Lists \ {from, to} : M[l] = L[l]
         /\ Conserved(L) => Conserved(M)
<1>1. L[from] \in Seq(Bufs) /\ 1 \in 0 .. Len(L[from]) OBVIOUS
<1> DEFINE M == [L EXCEPT ![from] = Tail(@), ![to] = Append(@, Head(L[from]))]
           T == Transfer(L, from, to, 1)
<1>2. M = T BY MoveIsTransfer
<1> HIDE DEF M, T
<1>3. /\ T \in [Lists -> Seq(Bufs)]
      /\ \A l \in Lists \ {from, to} : T[l] = L[l]
      /\ Len(T[from]) = Len(L[from]) - 1 /\ Len(T[to]) = Len(L[to]) + 1
  BY <1>1, TransferShape DEF T
<1>4. Conserved(L) => Conserved(T) BY <1>1, TransferConserves DEF T
<1> QED BY <1>2, <1>3, <1>4 DEF M

(* A buffer put back at the tail of the list it was the head of. *)
LEMMA Rotation ==
  ASSUME NEW L \in [Lists -> Seq(Bufs)], NEW l \in Lists, L[l] # << >>
  PROVE  LET M == [L EXCEPT ![l] = Append(Tail(@), Head(@))] IN
         /\ M \in [Lists -> Seq(Bufs)]
         /\ Len(M[l]) = Len(L[l])
         /\ Conserved(L) => Conserved(M)
<1> DEFINE s == L[l]
           r == Append(Tail(s), Head(s))
           M == [L EXCEPT ![l] = r]
<1>1. s \in Seq(Bufs) /\ Len(s) \in Nat \ {0} OBVIOUS
<1> HIDE DEF s
<1>2. r \in Seq(Bufs) /\ Len(r) = Len(s) /\ DOMAIN r = 1 .. Len(s) /\ DOMAIN s = 1 .. Len(s)
  BY <1>1
<1>3. \A i \in 1 .. Len(s) : r[i] = IF i < Len(s) THEN s[i + 1] ELSE s[1]
  BY <1>1
<1>4. M \in [Lists -> Seq(Bufs)] /\ M[l] = r /\ \A m \in Lists \ {l} : M[m] = L[m]
  BY <1>2
<1>5. ASSUME Conserved(L) PROVE Conserved(M)
  <2>1. \A i, j \in 1 .. Len(s) : s[i] = s[j] => i = j
    BY <1>5, <1>2 DEF Conserved, Once, s
  <2>2. Once(r)
    <3> SUFFICES ASSUME NEW i \in 1 .. Len(s), NEW j \in 1 .. Len(s), r[i] = r[j]
                 PROVE i = j
      BY <1>2 DEF Once
    <3> HIDE DEF r
    <3>1. CASE i < Len(s) /\ j < Len(s)
      <4>1. s[i + 1] = s[j + 1] /\ i + 1 \in 1 .. Len(s) /\ j + 1 \in 1 .. Len(s)
        BY <3>1, <1>1, <1>3
      <4>2. i + 1 = j + 1 BY <4>1, <2>1
      <4> QED BY <4>2
    <3>2. CASE i < Len(s) /\ ~(j < Len(s))
      <4>1. s[i + 1] = s[1] /\ i + 1 \in 1 .. Len(s) /\ 1 \in 1 .. Len(s)
        BY <3>2, <1>1, <1>3
      <4>2. i + 1 = 1 BY <4>1, <2>1
      <4> QED BY <4>2
    <3>3. CASE ~(i < Len(s)) /\ j < Len(s)
      <4>1. s[j + 1] = s[1] /\ j + 1 \in 1 .. Len(s) /\ 1 \in 1 .. Len(s)
        BY <3>3, <1>1, <1>3
      <4>2. j + 1 = 1 BY <4>1, <2>1
      <4> QED BY <4>2
    <3> QED BY <3>1, <3>2, <3>3, <1>1
  <2>3. \A i \in 1 .. Len(s) : \E j \in 1 .. Len(s) : r[i] = s[j]
    BY <1>1, <1>3
  <2>4. \A m \in Lists \ {l} : Apart(s, L[m]) /\ Apart(L[m], s)
    BY <1>5 DEF Conserved, s
  <2>5. \A m \in Lists \ {l} : Apart(r, L[m]) /\ Apart(L[m], r)
    <3> SUFFICES ASSUME NEW m \in Lists \ {l}, NEW i \in 1 .. Len(s), NEW k \in DOMAIN L[m]
                 PROVE r[i] # L[m][k]
      BY <1>2 DEF Apart
    <3> HIDE DEF r
    <3>1. PICK j \in 1 .. Len(s) : r[i] = s[j] BY <2>3
    <3> QED BY <3>1, <2>4, <1>2 DEF Apart
  <2>6. \A j \in 1 .. Len(s) : \E i \in 1 .. Len(s) : r[i] = s[j]
    <3> SUFFICES ASSUME NEW j \in 1 .. Len(s) PROVE \E i \in 1 .. Len(s) : r[i] = s[j]
      OBVIOUS
    <3>1. CASE j = 1
      <4>1. r[Len(s)] = s[1] /\ Len(s) \in 1 .. Len(s) BY <1>1, <1>3
      <4> QED BY <4>1, <3>1
    <3>2. CASE j # 1
      <4>1. j - 1 \in 1 .. Len(s) /\ j - 1 < Len(s) /\ (j - 1) + 1 = j BY <3>2, <1>1
      <4>2. r[j - 1] = s[j] BY <4>1, <1>3
      <4> QED BY <4>1, <4>2
    <3> QED BY <3>1, <3>2
  <2>7. \A b \in Bufs : On(b, s) => On(b, r)
    BY <2>6, <1>2 DEF On
  <2>8. \A b \in Bufs : \E m \in Lists : On(b, M[m])
    <3> SUFFICES ASSUME NEW b \in Bufs PROVE \E m \in Lists : On(b, M[m])
      OBVIOUS
    <3>1. PICK m \in Lists : On(b, L[m]) BY <1>5 DEF Conserved
    <3>2. CASE m = l BY <3>1, <3>2, <2>7, <1>4 DEF s
    <3>3. CASE m # l BY <3>1, <3>3, <1>4
    <3> QED BY <3>2, <3>3
  <2>9. \A m \in Lists : Once(M[m])
    BY <2>2, <1>4, <1>5 DEF Conserved
  <2>10. \A m, k \in Lists : m # k => Apart(M[m], M[k])
    BY <2>5, <1>4, <1>5 DEF Conserved
  <2> QED BY <2>8, <2>9, <2>10 DEF Conserved
<1> QED BY <1>2, <1>4, <1>5 DEF s

-----------------------------------------------------------------------------
(* What each kind of step does to the lists.                               *)

(* The lists and their lengths after a buffer has moved. *)
LEMMA MoveStep ==
  ASSUME TypeOK, NEW from \in Lists, NEW to \in Lists, from # to,
         list[from] # << >>, Move(from, to)
  PROVE  /\ list' \in [Lists -> Seq(Bufs)]
         /\ Len(list'[from]) = Len(list[from]) - 1
         /\ Len(list'[to]) = Len(list[to]) + 1
         /\ \A l \in Lists \ {from, to} : list'[l] = list[l]
         /\ Conserved(list) => Conserved(list')
<1> DEFINE M == [list EXCEPT ![from] = Tail(@), ![to] = Append(@, Head(list[from]))]
<1>1. list \in [Lists -> Seq(Bufs)] BY DEF TypeOK, BufferTypes
<1>2. list' = M BY Zenon DEF Move
<1>3. /\ M \in [Lists -> Seq(Bufs)]
      /\ Len(M[from]) = Len(list[from]) - 1 /\ Len(M[to]) = Len(list[to]) + 1
      /\ \A l \in Lists \ {from, to} : M[l] = list[l]
      /\ Conserved(list) => Conserved(M)
  BY <1>1, MoveLemma
<1> HIDE DEF M
<1> QED BY <1>2, <1>3

(* The lists after the buffers for further fragments were taken. *)
LEMMA AllocFragsStep ==
  ASSUME TypeOK, AllocFrags, Frags(pkt) \in Nat \ {0}
  PROVE  /\ list' \in [Lists -> Seq(Bufs)]
         /\ Len(list'["pool"]) = Len(list["pool"]) - (Frags(pkt) - 1)
         /\ Len(list'["sender"]) = Len(list["sender"]) + (Frags(pkt) - 1)
         /\ \A l \in Lists \ {"pool", "sender"} : list'[l] = list[l]
         /\ Conserved(list) => Conserved(list')
<1>1. list \in [Lists -> Seq(Bufs)] BY DEF TypeOK, BufferTypes
<1>2. "pool" \in Lists /\ "sender" \in Lists /\ "pool" # "sender" BY DEF Lists
<1> DEFINE n == Frags(pkt) - 1
<1>3. n \in 0 .. Len(list["pool"])
  BY <1>1, <1>2 DEF AllocFrags
<1>4. list' = Transfer(list, "pool", "sender", n)
  BY <1>1, <1>2 DEF AllocFrags, Transfer
<1> HIDE DEF n
<1> DEFINE T == Transfer(list, "pool", "sender", n)
<1> HIDE DEF T
<1>5. /\ T \in [Lists -> Seq(Bufs)]
      /\ \A l \in Lists \ {"pool", "sender"} : T[l] = list[l]
      /\ Len(T["pool"]) = Len(list["pool"]) - n
      /\ Len(T["sender"]) = Len(list["sender"]) + n
  <2>1. ASSUME NEW from \in Lists, NEW to \in Lists, from # to, n \in 0 .. Len(list[from])
        PROVE  LET S == Transfer(list, from, to, n) IN
               /\ S \in [Lists -> Seq(Bufs)]
               /\ \A l \in Lists \ {from, to} : S[l] = list[l]
               /\ Len(S[from]) = Len(list[from]) - n
               /\ Len(S[to]) = Len(list[to]) + n
    BY <1>1, <2>1, TransferShape
  <2> QED BY <1>2, <1>3, <2>1, Zenon DEF T
<1>6. Conserved(list) => Conserved(T)
  BY <1>1, <1>2, <1>3, TransferConserves DEF T
<1>7. list' = T BY <1>4 DEF T
<1> QED BY <1>5, <1>6, <1>7 DEF n

(* All of one list put behind another. *)
LEMMA EmptyInto ==
  ASSUME NEW L \in [Lists -> Seq(Bufs)], NEW from \in Lists, NEW to \in Lists, from # to
  PROVE  LET M == [L EXCEPT ![to] = @ \o L[from], ![from] = << >>] IN
         /\ M \in [Lists -> Seq(Bufs)]
         /\ Len(M[from]) = 0 /\ Len(M[to]) = Len(L[to]) + Len(L[from])
         /\ \A l \in Lists \ {from, to} : M[l] = L[l]
         /\ Conserved(L) => Conserved(M)
<1> DEFINE M == [L EXCEPT ![to] = @ \o L[from], ![from] = << >>]
           T == Transfer(L, from, to, Len(L[from]))
<1>1. L[from] \in Seq(Bufs) /\ L[to] \in Seq(Bufs) /\ Len(L[from]) \in 0 .. Len(L[from])
  OBVIOUS
<1>2. SubSeq(L[from], 1, Len(L[from])) = L[from]
      /\ SubSeq(L[from], Len(L[from]) + 1, Len(L[from])) = << >>
  BY <1>1
<1>3. /\ DOMAIN M = Lists /\ DOMAIN T = Lists
      /\ M[from] = << >> /\ M[to] = L[to] \o L[from]
      /\ T[from] = SubSeq(L[from], Len(L[from]) + 1, Len(L[from]))
      /\ T[to] = L[to] \o SubSeq(L[from], 1, Len(L[from]))
      /\ \A l \in Lists \ {from, to} : M[l] = L[l] /\ T[l] = L[l]
  BY DEF Transfer
<1>4. M = T
  <2>1. \A l \in Lists : M[l] = T[l] BY <1>2, <1>3
  <2>2. M = [l \in Lists |-> M[l]] /\ T = [l \in Lists |-> T[l]] BY DEF Transfer
  <2> HIDE DEF M, T
  <2> QED BY <2>1, <2>2
<1> HIDE DEF M, T
<1>5. /\ T \in [Lists -> Seq(Bufs)]
      /\ \A l \in Lists \ {from, to} : T[l] = L[l]
      /\ Len(T[from]) = Len(L[from]) - Len(L[from])
      /\ Len(T[to]) = Len(L[to]) + Len(L[from])
  BY <1>1, TransferShape DEF T
<1>6. Conserved(L) => Conserved(T) BY <1>1, TransferConserves DEF T
<1> QED BY <1>1, <1>4, <1>5, <1>6 DEF M

(* The lists after a shortage: the sender's buffers are in the pool. *)
LEMMA AllocShortStep ==
  ASSUME TypeOK, AllocShort
  PROVE  /\ list' \in [Lists -> Seq(Bufs)]
         /\ Len(list'["sender"]) = 0
         /\ \A l \in Lists \ {"pool", "sender"} : list'[l] = list[l]
         /\ Conserved(list) => Conserved(list')
<1>1. list \in [Lists -> Seq(Bufs)] /\ "pool" \in Lists /\ "sender" \in Lists
  BY DEF TypeOK, BufferTypes, Lists
<1> DEFINE A == [list EXCEPT !["sender"] = @ \o list["pool"], !["pool"] = << >>]
           B == [A EXCEPT !["pool"] = @ \o A["sender"], !["sender"] = << >>]
<1>2. /\ A \in [Lists -> Seq(Bufs)]
      /\ \A l \in Lists \ {"pool", "sender"} : A[l] = list[l]
      /\ Conserved(list) => Conserved(A)
  BY <1>1, EmptyInto
<1>3. A["sender"] = list["sender"] \o list["pool"] /\ A["pool"] = << >> /\ DOMAIN A = Lists
  BY <1>1
<1>4. << >> \o (list["sender"] \o list["pool"]) = list["sender"] \o list["pool"]
  BY <1>1
<1>5. list' = B
  <2>1. list' = [list EXCEPT !["pool"] = list["sender"] \o list["pool"], !["sender"] = << >>]
    BY DEF AllocShort
  <2>2. DOMAIN list' = Lists /\ DOMAIN B = Lists
        /\ list' = [l \in Lists |-> list'[l]] /\ B = [l \in Lists |-> B[l]]
    BY <2>1, <1>1
  <2>3. list'["pool"] = B["pool"] /\ list'["sender"] = B["sender"]
    BY <2>1, <1>1, <1>3, <1>4
  <2>4. \A l \in Lists \ {"pool", "sender"} : list'[l] = B[l]
    BY <2>1, <1>1, <1>2
  <2> HIDE DEF B
  <2> QED BY <2>2, <2>3, <2>4
<1> HIDE DEF A
<1>6. /\ B \in [Lists -> Seq(Bufs)] /\ Len(B["sender"]) = 0
      /\ \A l \in Lists \ {"pool", "sender"} : B[l] = A[l]
      /\ Conserved(A) => Conserved(B)
  BY <1>1, <1>2, EmptyInto
<1> HIDE DEF B
<1> QED BY <1>2, <1>5, <1>6

(* The lists after hardstart_fail. *)
LEMMA FailStep ==
  ASSUME TypeOK, HardstartFail
  PROVE  /\ list' \in [Lists -> Seq(Bufs)]
         /\ Len(list'["sender"]) = 0
         /\ \A l \in Lists \ {"pool", "sender"} : list'[l] = list[l]
         /\ Conserved(list) => Conserved(list')
<1>1. list \in [Lists -> Seq(Bufs)] /\ "pool" \in Lists /\ "sender" \in Lists
  BY DEF TypeOK, BufferTypes, Lists
<1> DEFINE M == [list EXCEPT !["pool"] = @ \o list["sender"], !["sender"] = << >>]
<1>2. list' = M BY DEF HardstartFail
<1>3. /\ M \in [Lists -> Seq(Bufs)] /\ Len(M["sender"]) = 0
      /\ \A l \in Lists \ {"pool", "sender"} : M[l] = list[l]
      /\ Conserved(list) => Conserved(M)
  BY <1>1, EmptyInto
<1> HIDE DEF M
<1> QED BY <1>2, <1>3

(* The lists after a fragment, not a whole packet, failed to start. *)
LEMMA StartFailsStep ==
  ASSUME TypeOK, StartFails, "single" \notin StartErrors
  PROVE  /\ list' \in [Lists -> Seq(Bufs)]
         /\ Len(list'["sender"]) = Len(list["sender"])
         /\ \A l \in Lists \ {"sender"} : list'[l] = list[l]
         /\ Conserved(list) => Conserved(list')
<1>1. list \in [Lists -> Seq(Bufs)] /\ "sender" \in Lists /\ list["sender"] # << >>
  BY DEF TypeOK, BufferTypes, Lists, StartFails
<1> DEFINE M == [list EXCEPT !["sender"] = Append(Tail(@), Head(@))]
<1>2. list' = M BY DEF StartFails
<1>3. \A l \in Lists \ {"sender"} : M[l] = list[l] BY <1>1
<1>4. /\ M \in [Lists -> Seq(Bufs)] /\ Len(M["sender"]) = Len(list["sender"])
      /\ Conserved(list) => Conserved(M)
  BY <1>1, Rotation
<1> HIDE DEF M
<1> QED BY <1>2, <1>3, <1>4

-----------------------------------------------------------------------------
(* The inductive invariant.                                                *)

(* How long the lists in the hands of the four actors are, and what they   *)
(* remember of their frames.                                               *)
HandsShape ==
  /\ Len(list["mgmt"]) = IF mpc = "start" THEN 1 ELSE 0
  /\ Len(list["tasklet"]) = IF tpc \in {"free", "put"} THEN 1 ELSE 0
  /\ Len(list["reset"]) = IF rpc = "free" THEN 1 ELSE 0
SenderShape ==
  /\ spc # "idle" => pkt \in Packets
  /\ spc \in {"idle", "check", "requeued", "get"} => Len(list["sender"]) = 0
  /\ spc \in {"encap", "alloc"} => Len(list["sender"]) <= 1
  /\ spc = "alloc" => left = Frags(pkt)
  /\ spc \in {"start", "panic"} => Len(list["sender"]) <= left
CountShape == tpc \in {"reap", "free", "put"} => tq \in 1 .. 3
Shape == HandsShape /\ SenderShape /\ CountShape
IInv == TypeOK /\ Shape

(* While a packet is on its way the tail drop has found few packets in the *)
(* video queue, and every frame started since counts against its fragments. *)
DepthInv ==
  /\ DepthBounded
  /\ spc \in {"get", "encap", "alloc"} => PacketDepth <= TailDrop
  /\ spc = "start" => PacketDepth + left <= TailDrop + Frags(pkt)

(* What the types say of one list. *)
LEMMA ListType ==
  ASSUME TypeOK, NEW l \in Lists
  PROVE  /\ list[l] \in Seq(Bufs) /\ Len(list[l]) \in Nat
         /\ list[l] = << >> <=> Len(list[l]) = 0
         /\ list[l] # << >> => Head(list[l]) \in Bufs /\ list[l][1] \in Bufs
<1>1. list[l] \in Seq(Bufs) BY DEF TypeOK, BufferTypes
<1> QED BY <1>1

(* The names of the lists. *)
LEMMA ListNames ==
  /\ {"BE", "VI", "VO", "pool", "sender", "mgmt", "tasklet", "reset"} = Lists
  /\ Queues = {"BE", "VI", "VO"} /\ Queues \subseteq Lists
  /\ \A i \in 1 .. 3 : Order[i] \in Queues
  /\ Len(Order) = 3
BY DEF Lists, Queues, Order

(* The invariant holds at the start. *)
LEMMA InvInit == Init => IInv
<1> SUFFICES ASSUME Init PROVE IInv
  OBVIOUS
<1>1. PICK pool \in [1 .. Cardinality(Bufs) -> Bufs] :
        list = [l \in Lists |-> IF l = "pool" THEN pool ELSE << >>]
  BY DEF Init
<1>2. Cardinality(Bufs) \in Nat BY ParameterAssumption, FS_CardinalityType
<1>3. pool \in Seq(Bufs) BY <1>2
<1>4. list \in [Lists -> Seq(Bufs)] BY <1>1, <1>3
<1>5. \A l \in Lists \ {"pool"} : list[l] = << >> BY <1>1
<1>6. TypeOK
  <2>1. \A q \in Queues : done[q] <= Len(list[q])
    BY <1>5 DEF Init, Queues, Lists
  <2>2. done \in [Queues -> Nat] /\ refs \in Int /\ frame \in [Bufs -> Frames \cup {NoFrame}]
    BY DEF Init
  <2>3. BufferTypes BY <1>4, <2>1, <2>2 DEF BufferTypes
  <2>4. HostTypes BY DEF Init, HostTypes
  <2>5. ReapTypes BY DEF Init, ReapTypes
  <2> QED BY <2>3, <2>4, <2>5 DEF TypeOK
<1>7. Shape
  BY <1>5, ListNames DEF Init, Shape, HandsShape, SenderShape, CountShape
<1> QED BY <1>6, <1>7 DEF IInv

(* Every step keeps the types and the shape of the lists. *)
LEMMA InvStep == IInv /\ [Next]_vars => IInv'
<1> SUFFICES ASSUME IInv, [Next]_vars PROVE IInv'
  OBVIOUS
<1> USE DEF IInv, Shape, senderVars, taskletVars, resetVars, flowVars, hwVars
<1>t. TypeOK OBVIOUS
<1>b. BufferTypes BY <1>t DEF TypeOK
<1>a. HostTypes /\ ReapTypes BY <1>t DEF TypeOK
<1>h. HandsShape OBVIOUS
<1>s. SenderShape OBVIOUS
<1>c. CountShape OBVIOUS
<1>p. \A p \in Packets : Frags(p) \in Nat \ {0} /\ Queue(p) \in {"BE", "VI"}
  BY FrameAssumption
<1>n. /\ Len(list["sender"]) \in Nat /\ Len(list["mgmt"]) \in Nat
      /\ Len(list["tasklet"]) \in Nat /\ Len(list["reset"]) \in Nat
      /\ left \in Nat
  BY <1>t, <1>a, ListType DEF Lists, HostTypes, ReapTypes
<1>z. /\ list["mgmt"] = << >> => Len(list["mgmt"]) = 0
      /\ list["tasklet"] = << >> => Len(list["tasklet"]) = 0
      /\ list["reset"] = << >> => Len(list["reset"]) = 0
  OBVIOUS
<1>q. \A q \in Queues : Len(list[q]) \in Nat
  BY <1>t, ListType, ListNames
<1>o. \A i \in 1 .. 3 : Order[i] \in Queues
  BY ListNames
<1>e. Len(Order) = 3
  BY ListNames
<1>1. ASSUME NEW p \in Packets, Xmit(p) PROVE IInv'
  <2>0. BufferTypes' BY <1>1, <1>b, <1>q DEF Xmit, BufferTypes
  <2>1. HostTypes' BY <1>1, <1>a, <1>e DEF Xmit, HostTypes
  <2>1r. ReapTypes' BY <1>1, <1>a, <1>e DEF Xmit, ReapTypes
  <2>2. HandsShape' BY <1>1, <1>h DEF Xmit, HandsShape
  <2>3. SenderShape' BY <1>1, <1>s, <1>n, <1>p DEF Xmit, SenderShape
  <2>4. CountShape' BY <1>1, <1>a, <1>b, <1>c, <1>e
      DEF Xmit, HostTypes, ReapTypes, BufferTypes, CountShape
  <2> QED BY <2>0, <2>1, <2>2, <2>3, <2>4, <2>1r DEF TypeOK
<1>2. ASSUME Retry PROVE IInv'
  <2>0. BufferTypes' BY <1>2, <1>b, <1>q DEF Retry, BufferTypes
  <2>1. HostTypes' BY <1>2, <1>a, <1>e DEF Retry, HostTypes
  <2>1r. ReapTypes' BY <1>2, <1>a, <1>e DEF Retry, ReapTypes
  <2>2. HandsShape' BY <1>2, <1>h DEF Retry, HandsShape
  <2>3. SenderShape' BY <1>2, <1>s, <1>n, <1>p DEF Retry, SenderShape
  <2>4. CountShape' BY <1>2, <1>a, <1>b, <1>c, <1>e
      DEF Retry, HostTypes, ReapTypes, BufferTypes, CountShape
  <2> QED BY <2>0, <2>1, <2>2, <2>3, <2>4, <2>1r DEF TypeOK
<1>3. ASSUME CheckDepth PROVE IInv'
  <2>0. BufferTypes' BY <1>3, <1>b, <1>q DEF CheckDepth, BufferTypes
  <2>1. HostTypes' BY <1>3, <1>a, <1>e DEF CheckDepth, HostTypes
  <2>1r. ReapTypes' BY <1>3, <1>a, <1>e DEF CheckDepth, ReapTypes
  <2>2. HandsShape' BY <1>3, <1>h DEF CheckDepth, HandsShape
  <2>3. SenderShape' BY <1>3, <1>s, <1>n, <1>p DEF CheckDepth, SenderShape
  <2>4. CountShape' BY <1>3, <1>a, <1>b, <1>c, <1>e
      DEF CheckDepth, HostTypes, ReapTypes, BufferTypes, CountShape
  <2> QED BY <2>0, <2>1, <2>2, <2>3, <2>4, <2>1r DEF TypeOK
<1>4. ASSUME Encap PROVE IInv'
  <2>0. Frags(pkt) \in Nat \ {0} BY <1>4, <1>s, <1>p DEF Encap, SenderShape
  <2>b. BufferTypes' BY <1>4, <1>b DEF Encap, BufferTypes
  <2>1. HostTypes' BY <1>4, <1>a, <2>0 DEF Encap, HostTypes
  <2>1r. ReapTypes' BY <1>4, <1>a, <2>0 DEF Encap, ReapTypes
  <2>2. HandsShape' BY <1>4, <1>h DEF Encap, HandsShape
  <2>3. SenderShape' BY <1>4, <1>s, <1>n, <2>0 DEF Encap, SenderShape
  <2>4. CountShape' BY <1>4, <1>c DEF Encap, CountShape
  <2> QED BY <2>b, <2>1, <2>2, <2>3, <2>4, <2>1r DEF TypeOK
<1>5. ASSUME StartNull PROVE IInv'
  <2>0. BufferTypes' BY <1>5, <1>b, <1>q DEF StartNull, BufferTypes
  <2>1. HostTypes' BY <1>5, <1>a, <1>e DEF StartNull, HostTypes
  <2>1r. ReapTypes' BY <1>5, <1>a, <1>e DEF StartNull, ReapTypes
  <2>2. HandsShape' BY <1>5, <1>h DEF StartNull, HandsShape
  <2>3. SenderShape' BY <1>5, <1>s, <1>n, <1>p DEF StartNull, SenderShape
  <2>4. CountShape' BY <1>5, <1>a, <1>b, <1>c, <1>e
      DEF StartNull, HostTypes, ReapTypes, BufferTypes, CountShape
  <2> QED BY <2>0, <2>1, <2>2, <2>3, <2>4, <2>1r DEF TypeOK
<1>6. ASSUME Started PROVE IInv'
  <2>0. BufferTypes' BY <1>6, <1>b, <1>q DEF Started, BufferTypes
  <2>1. HostTypes' BY <1>6, <1>a, <1>e DEF Started, HostTypes
  <2>1r. ReapTypes' BY <1>6, <1>a, <1>e DEF Started, ReapTypes
  <2>2. HandsShape' BY <1>6, <1>h DEF Started, HandsShape
  <2>3. SenderShape' BY <1>6, <1>s, <1>n, <1>p DEF Started, SenderShape
  <2>4. CountShape' BY <1>6, <1>a, <1>b, <1>c, <1>e
      DEF Started, HostTypes, ReapTypes, BufferTypes, CountShape
  <2> QED BY <2>0, <2>1, <2>2, <2>3, <2>4, <2>1r DEF TypeOK
<1>7. ASSUME TxStart PROVE IInv'
  <2>0. BufferTypes' BY <1>7, <1>b, <1>q DEF TxStart, BufferTypes
  <2>1. HostTypes' BY <1>7, <1>a, <1>e DEF TxStart, HostTypes
  <2>1r. ReapTypes' BY <1>7, <1>a, <1>e DEF TxStart, ReapTypes
  <2>2. HandsShape' BY <1>7, <1>h DEF TxStart, HandsShape
  <2>3. SenderShape' BY <1>7, <1>s, <1>n, <1>p DEF TxStart, SenderShape
  <2>4. CountShape' BY <1>7, <1>a, <1>b, <1>c, <1>e
      DEF TxStart, HostTypes, ReapTypes, BufferTypes, CountShape
  <2> QED BY <2>0, <2>1, <2>2, <2>3, <2>4, <2>1r DEF TypeOK
<1>8. ASSUME TxQueue PROVE IInv'
  <2>0. BufferTypes' BY <1>8, <1>b, <1>q DEF TxQueue, BufferTypes
  <2>1. HostTypes' BY <1>8, <1>a, <1>e DEF TxQueue, HostTypes
  <2>1r. ReapTypes' BY <1>8, <1>a, <1>e DEF TxQueue, ReapTypes
  <2>2. HandsShape' BY <1>8, <1>h DEF TxQueue, HandsShape
  <2>3. SenderShape' BY <1>8, <1>s, <1>n, <1>p DEF TxQueue, SenderShape
  <2>4. CountShape' BY <1>8, <1>a, <1>b, <1>c, <1>e
      DEF TxQueue, HostTypes, ReapTypes, BufferTypes, CountShape
  <2> QED BY <2>0, <2>1, <2>2, <2>3, <2>4, <2>1r DEF TypeOK
<1>9. ASSUME TxWake PROVE IInv'
  <2>0. BufferTypes' BY <1>9, <1>b, <1>q DEF TxWake, BufferTypes
  <2>1. HostTypes' BY <1>9, <1>a, <1>e DEF TxWake, HostTypes
  <2>1r. ReapTypes' BY <1>9, <1>a, <1>e DEF TxWake, ReapTypes
  <2>2. HandsShape' BY <1>9, <1>h DEF TxWake, HandsShape
  <2>3. SenderShape' BY <1>9, <1>s, <1>n, <1>p DEF TxWake, SenderShape
  <2>4. CountShape' BY <1>9, <1>a, <1>b, <1>c, <1>e
      DEF TxWake, HostTypes, ReapTypes, BufferTypes, CountShape
  <2> QED BY <2>0, <2>1, <2>2, <2>3, <2>4, <2>1r DEF TypeOK
<1>10. ASSUME ResetStart PROVE IInv'
  <2>0. BufferTypes' BY <1>10, <1>b, <1>q DEF ResetStart, BufferTypes
  <2>1. HostTypes' BY <1>10, <1>a, <1>e DEF ResetStart, HostTypes
  <2>1r. ReapTypes' BY <1>10, <1>a, <1>e DEF ResetStart, ReapTypes
  <2>2. HandsShape' BY <1>10, <1>h DEF ResetStart, HandsShape
  <2>3. SenderShape' BY <1>10, <1>s, <1>n, <1>p DEF ResetStart, SenderShape
  <2>4. CountShape' BY <1>10, <1>a, <1>b, <1>c, <1>e
      DEF ResetStart, HostTypes, ReapTypes, BufferTypes, CountShape
  <2> QED BY <2>0, <2>1, <2>2, <2>3, <2>4, <2>1r DEF TypeOK
<1>11. ASSUME ResetWake PROVE IInv'
  <2>0. BufferTypes' BY <1>11, <1>b, <1>q DEF ResetWake, BufferTypes
  <2>1. HostTypes' BY <1>11, <1>a, <1>e DEF ResetWake, HostTypes
  <2>1r. ReapTypes' BY <1>11, <1>a, <1>e DEF ResetWake, ReapTypes
  <2>2. HandsShape' BY <1>11, <1>h DEF ResetWake, HandsShape
  <2>3. SenderShape' BY <1>11, <1>s, <1>n, <1>p DEF ResetWake, SenderShape
  <2>4. CountShape' BY <1>11, <1>a, <1>b, <1>c, <1>e
      DEF ResetWake, HostTypes, ReapTypes, BufferTypes, CountShape
  <2> QED BY <2>0, <2>1, <2>2, <2>3, <2>4, <2>1r DEF TypeOK
<1>12. ASSUME NEW q \in Queues, HwDone(q) PROVE IInv'
  <2>0. BufferTypes' BY <1>12, <1>b, <1>q DEF HwDone, BufferTypes
  <2>1. HostTypes' BY <1>12, <1>a, <1>e DEF HwDone, HostTypes
  <2>1r. ReapTypes' BY <1>12, <1>a, <1>e DEF HwDone, ReapTypes
  <2>2. HandsShape' BY <1>12, <1>h DEF HwDone, HandsShape
  <2>3. SenderShape' BY <1>12, <1>s, <1>n, <1>p DEF HwDone, SenderShape
  <2>4. CountShape' BY <1>12, <1>a, <1>b, <1>c, <1>e
      DEF HwDone, HostTypes, ReapTypes, BufferTypes, CountShape
  <2> QED BY <2>0, <2>1, <2>2, <2>3, <2>4, <2>1r DEF TypeOK
<1>13. ASSUME TxFree PROVE IInv'
  <2>0. list["tasklet"][1] \in Bufs
    BY <1>13, <1>t, <1>h, ListType DEF TxFree, HandsShape, Lists
  <2>b. BufferTypes' BY <1>13, <1>b, <2>0 DEF TxFree, SetFrame, BufferTypes
  <2>1. HostTypes' BY <1>13, <1>a DEF TxFree, HostTypes
  <2>1r. ReapTypes' BY <1>13, <1>a DEF TxFree, ReapTypes
  <2>2. HandsShape' BY <1>13, <1>h DEF TxFree, HandsShape
  <2>3. SenderShape' BY <1>13, <1>s DEF TxFree, SenderShape
  <2>4. CountShape' BY <1>13, <1>c DEF TxFree, CountShape
  <2> QED BY <2>b, <2>1, <2>2, <2>3, <2>4, <2>1r DEF TypeOK
<1>14. ASSUME StartFrame PROVE IInv'
  <2>0. pkt \in Packets /\ Queue(pkt) \in {"BE", "VI"} BY <1>14, <1>s, <1>p
      DEF StartFrame, SenderShape
  <2>1. "sender" \in Lists /\ Queue(pkt) \in Lists /\ "sender" # Queue(pkt) /\ list["sender"] # << >>
    BY <1>14, <1>z, <2>0, <2>0 DEF StartFrame, SenderShape, Lists, Queues
  <2>2. Move("sender", Queue(pkt)) BY <1>14 DEF StartFrame
  <2>3. /\ list' \in [Lists -> Seq(Bufs)]
        /\ Len(list'["sender"]) = Len(list["sender"]) - 1
        /\ Len(list'[Queue(pkt)]) = Len(list[Queue(pkt)]) + 1
        /\ \A l \in Lists \ {"sender", Queue(pkt)} : list'[l] = list[l]
    BY <2>1, <2>2, <1>t, MoveStep
  <2>a. list' \in [Lists -> Seq(Bufs)] BY <2>3
  <2>b. \A q \in Queues : done[q] <= Len(list'[q])
    <3> SUFFICES ASSUME NEW q \in Queues PROVE done[q] <= Len(list'[q])
      OBVIOUS
    <3>1. done[q] <= Len(list[q]) /\ done[q] \in Nat /\ q \in Lists
      BY <1>b DEF BufferTypes, Lists
    <3>2. CASE q = Queue(pkt) BY <3>1, <3>2, <1>q, <2>3
    <3>3. CASE q # Queue(pkt) BY <3>1, <3>3, <2>3 DEF Lists, Queues
    <3> QED BY <3>2, <3>3
  <2>d. /\ Len(list'["sender"]) = Len(list["sender"]) - 1
        /\ Len(list'["mgmt"]) = Len(list["mgmt"])
        /\ Len(list'["tasklet"]) = Len(list["tasklet"])
        /\ Len(list'["reset"]) = Len(list["reset"])
    BY <2>3, <2>0 DEF Lists, Queues
  <2>e. Head(list["sender"]) \in Bufs BY <2>1, <1>t, ListType
  <2>f. /\ frame' \in [Bufs -> Frames \cup {NoFrame}]
        /\ refs' \in Int /\ done' = done
    BY <1>14, <1>b, <2>0, <2>e DEF StartFrame, SetFrame, BufferTypes, Frames, hwVars
  <2>r. BufferTypes' BY <2>a, <2>b, <2>f, <1>b DEF BufferTypes
  <2>t. HostTypes' BY <1>14, <1>a DEF StartFrame, HostTypes
  <2>tr. ReapTypes' BY <1>14, <1>a DEF StartFrame, ReapTypes
  <2>h. HandsShape' BY <1>14, <1>h, <2>d DEF StartFrame, HandsShape
  <2>s. SenderShape' BY <1>14, <1>s, <1>n, <2>d DEF StartFrame, SenderShape
  <2>c. CountShape' BY <1>14, <1>c DEF StartFrame, CountShape
  <2> QED BY <2>r, <2>t, <2>h, <2>s, <2>c, <2>tr DEF TypeOK
<1>15. ASSUME MgtSend PROVE IInv'
  <2>m. PICK m \in Mgmts : SetFrame(Head(list["mgmt"]), m) /\ Move("mgmt", Queue(m))
    BY <1>15 DEF MgtSend
  <2>0. Queue(m) \in Queues /\ m \in Frames BY FrameAssumption DEF Frames
  <2>1. "mgmt" \in Lists /\ Queue(m) \in Lists /\ "mgmt" # Queue(m) /\ list["mgmt"] # << >>
    BY <1>15, <1>z, <1>h, <2>0 DEF MgtSend, HandsShape, Lists, Queues
  <2>2. Move("mgmt", Queue(m)) BY <2>m
  <2>3. /\ list' \in [Lists -> Seq(Bufs)]
        /\ Len(list'["mgmt"]) = Len(list["mgmt"]) - 1
        /\ Len(list'[Queue(m)]) = Len(list[Queue(m)]) + 1
        /\ \A l \in Lists \ {"mgmt", Queue(m)} : list'[l] = list[l]
    BY <2>1, <2>2, <1>t, MoveStep
  <2>a. list' \in [Lists -> Seq(Bufs)] BY <2>3
  <2>b. \A q \in Queues : done[q] <= Len(list'[q])
    <3> SUFFICES ASSUME NEW q \in Queues PROVE done[q] <= Len(list'[q])
      OBVIOUS
    <3>1. done[q] <= Len(list[q]) /\ done[q] \in Nat /\ q \in Lists
      BY <1>b DEF BufferTypes, Lists
    <3>2. CASE q = Queue(m) BY <3>1, <3>2, <1>q, <2>3
    <3>3. CASE q # Queue(m) BY <3>1, <3>3, <2>3 DEF Lists, Queues
    <3> QED BY <3>2, <3>3
  <2>d. /\ Len(list'["sender"]) = Len(list["sender"])
        /\ Len(list'["mgmt"]) = Len(list["mgmt"]) - 1
        /\ Len(list'["tasklet"]) = Len(list["tasklet"])
        /\ Len(list'["reset"]) = Len(list["reset"])
    BY <2>3, <2>0 DEF Lists, Queues
  <2>e. Head(list["mgmt"]) \in Bufs BY <2>1, <1>t, ListType
  <2>f. /\ frame' \in [Bufs -> Frames \cup {NoFrame}]
        /\ refs' \in Int /\ done' = done
    BY <1>15, <1>b, <2>0, <2>m, <2>e DEF MgtSend, SetFrame, BufferTypes, hwVars
  <2>r. BufferTypes' BY <2>a, <2>b, <2>f, <1>b DEF BufferTypes
  <2>t. HostTypes' BY <1>15, <1>a DEF MgtSend, HostTypes
  <2>tr. ReapTypes' BY <1>15, <1>a DEF MgtSend, ReapTypes
  <2>h. HandsShape' BY <1>15, <1>h, <2>d DEF MgtSend, HandsShape
  <2>s. SenderShape' BY <1>15, <1>s, <1>n, <2>d DEF MgtSend, SenderShape
  <2>c. CountShape' BY <1>15, <1>c DEF MgtSend, CountShape
  <2> QED BY <2>r, <2>t, <2>h, <2>s, <2>c, <2>tr DEF TypeOK
<1>16. ASSUME MgtFails PROVE IInv'
  <2>1. "mgmt" \in Lists /\ "pool" \in Lists /\ "mgmt" # "pool" /\ list["mgmt"] # << >>
    BY <1>16, <1>z, <1>h DEF MgtFails, HandsShape, Lists, Queues
  <2>2. Move("mgmt", "pool") BY <1>16 DEF MgtFails
  <2>3. /\ list' \in [Lists -> Seq(Bufs)]
        /\ Len(list'["mgmt"]) = Len(list["mgmt"]) - 1
        /\ Len(list'["pool"]) = Len(list["pool"]) + 1
        /\ \A l \in Lists \ {"mgmt", "pool"} : list'[l] = list[l]
    BY <2>1, <2>2, <1>t, MoveStep
  <2>a. list' \in [Lists -> Seq(Bufs)] BY <2>3
  <2>b. \A q \in Queues : done[q] <= Len(list'[q])
    <3> SUFFICES ASSUME NEW q \in Queues PROVE done[q] <= Len(list'[q])
      OBVIOUS
    <3>1. done[q] <= Len(list[q]) /\ done[q] \in Nat /\ q \in Lists
      BY <1>b DEF BufferTypes, Lists
    <3>2. CASE q = "pool" BY <3>1, <3>2, <1>q, <2>3
    <3>3. CASE q # "pool" BY <3>1, <3>3, <2>3 DEF Lists, Queues
    <3> QED BY <3>2, <3>3
  <2>d. /\ Len(list'["sender"]) = Len(list["sender"])
        /\ Len(list'["mgmt"]) = Len(list["mgmt"]) - 1
        /\ Len(list'["tasklet"]) = Len(list["tasklet"])
        /\ Len(list'["reset"]) = Len(list["reset"])
    BY <2>3 DEF Lists, Queues
  <2>f. /\ frame' \in [Bufs -> Frames \cup {NoFrame}]
        /\ refs' \in Int /\ done' = done
    BY <1>16, <1>b DEF MgtFails, BufferTypes, Frames, hwVars
  <2>r. BufferTypes' BY <2>a, <2>b, <2>f, <1>b DEF BufferTypes
  <2>t. HostTypes' BY <1>16, <1>a DEF MgtFails, HostTypes
  <2>tr. ReapTypes' BY <1>16, <1>a DEF MgtFails, ReapTypes
  <2>h. HandsShape' BY <1>16, <1>h, <2>d DEF MgtFails, HandsShape
  <2>s. SenderShape' BY <1>16, <1>s, <1>n, <2>d DEF MgtFails, SenderShape
  <2>c. CountShape' BY <1>16, <1>c DEF MgtFails, CountShape
  <2> QED BY <2>r, <2>t, <2>h, <2>s, <2>c, <2>tr DEF TypeOK
<1>17. ASSUME TxPut PROVE IInv'
  <2>1. "tasklet" \in Lists /\ "pool" \in Lists /\ "tasklet" # "pool" /\ list["tasklet"] # << >>
    BY <1>17, <1>z, <1>h DEF TxPut, HandsShape, Lists, Queues
  <2>2. Move("tasklet", "pool") BY <1>17 DEF TxPut
  <2>3. /\ list' \in [Lists -> Seq(Bufs)]
        /\ Len(list'["tasklet"]) = Len(list["tasklet"]) - 1
        /\ Len(list'["pool"]) = Len(list["pool"]) + 1
        /\ \A l \in Lists \ {"tasklet", "pool"} : list'[l] = list[l]
    BY <2>1, <2>2, <1>t, MoveStep
  <2>a. list' \in [Lists -> Seq(Bufs)] BY <2>3
  <2>b. \A q \in Queues : done[q] <= Len(list'[q])
    <3> SUFFICES ASSUME NEW q \in Queues PROVE done[q] <= Len(list'[q])
      OBVIOUS
    <3>1. done[q] <= Len(list[q]) /\ done[q] \in Nat /\ q \in Lists
      BY <1>b DEF BufferTypes, Lists
    <3>2. CASE q = "pool" BY <3>1, <3>2, <1>q, <2>3
    <3>3. CASE q # "pool" BY <3>1, <3>3, <2>3 DEF Lists, Queues
    <3> QED BY <3>2, <3>3
  <2>d. /\ Len(list'["sender"]) = Len(list["sender"])
        /\ Len(list'["mgmt"]) = Len(list["mgmt"])
        /\ Len(list'["tasklet"]) = Len(list["tasklet"]) - 1
        /\ Len(list'["reset"]) = Len(list["reset"])
    BY <2>3 DEF Lists, Queues
  <2>f. /\ frame' \in [Bufs -> Frames \cup {NoFrame}]
        /\ refs' \in Int /\ done' = done
    BY <1>17, <1>b DEF TxPut, BufferTypes, Frames, hwVars
  <2>r. BufferTypes' BY <2>a, <2>b, <2>f, <1>b DEF BufferTypes
  <2>t. HostTypes'
    <3>1. /\ reaped' \in Nat /\ stopped' \in BOOLEAN /\ devstopped' \in BOOLEAN
          /\ sched' \in BOOLEAN
      <4>0. /\ reaped \in Nat /\ stopped \in BOOLEAN /\ devstopped \in BOOLEAN
            /\ sched \in BOOLEAN
        BY <1>a DEF HostTypes
      <4>1. CASE ~devstopped BY <1>17, <4>0, <4>1 DEF TxPut, flowVars
      <4>2. CASE devstopped /\ reaped + 1 > FreeThreshold
        <5>1. stopped' = FALSE /\ devstopped' = FALSE /\ reaped' = 0 /\ sched' = sched
          BY <1>17, <4>2, Zenon DEF TxPut
        <5> QED BY <4>0, <5>1
      <4>3. CASE devstopped /\ ~(reaped + 1 > FreeThreshold)
        <5>1. /\ reaped' = reaped + 1 /\ sched' = TRUE
              /\ stopped' = stopped /\ devstopped' = devstopped
          BY <1>17, <4>3, Zenon DEF TxPut
        <5> QED BY <4>0, <5>1
      <4> QED BY <4>1, <4>2, <4>3
    <3> QED BY <1>17, <1>a, <3>1 DEF TxPut, HostTypes, hwVars, senderVars
  <2>tr. ReapTypes' BY <1>17, <1>a DEF TxPut, ReapTypes
  <2>h. HandsShape' BY <1>17, <1>h, <2>d DEF TxPut, HandsShape
  <2>s. SenderShape' BY <1>17, <1>s, <1>n, <2>d DEF TxPut, SenderShape
  <2>c. CountShape' BY <1>17, <1>c DEF TxPut, CountShape
  <2> QED BY <2>r, <2>t, <2>h, <2>s, <2>c, <2>tr DEF TypeOK
<1>18. ASSUME DrainFree PROVE IInv'
  <2>1. "reset" \in Lists /\ "pool" \in Lists /\ "reset" # "pool" /\ list["reset"] # << >>
    BY <1>18, <1>z, <1>h DEF DrainFree, HandsShape, Lists, Queues
  <2>2. Move("reset", "pool") BY <1>18 DEF DrainFree
  <2>3. /\ list' \in [Lists -> Seq(Bufs)]
        /\ Len(list'["reset"]) = Len(list["reset"]) - 1
        /\ Len(list'["pool"]) = Len(list["pool"]) + 1
        /\ \A l \in Lists \ {"reset", "pool"} : list'[l] = list[l]
    BY <2>1, <2>2, <1>t, MoveStep
  <2>a. list' \in [Lists -> Seq(Bufs)] BY <2>3
  <2>b. \A q \in Queues : done[q] <= Len(list'[q])
    <3> SUFFICES ASSUME NEW q \in Queues PROVE done[q] <= Len(list'[q])
      OBVIOUS
    <3>1. done[q] <= Len(list[q]) /\ done[q] \in Nat /\ q \in Lists
      BY <1>b DEF BufferTypes, Lists
    <3>2. CASE q = "pool" BY <3>1, <3>2, <1>q, <2>3
    <3>3. CASE q # "pool" BY <3>1, <3>3, <2>3 DEF Lists, Queues
    <3> QED BY <3>2, <3>3
  <2>d. /\ Len(list'["sender"]) = Len(list["sender"])
        /\ Len(list'["mgmt"]) = Len(list["mgmt"])
        /\ Len(list'["tasklet"]) = Len(list["tasklet"])
        /\ Len(list'["reset"]) = Len(list["reset"]) - 1
    BY <2>3 DEF Lists, Queues
  <2>e. list["reset"][1] \in Bufs BY <2>1, <1>t, ListType
  <2>f. /\ frame' \in [Bufs -> Frames \cup {NoFrame}]
        /\ refs' \in Int /\ done' = done
    BY <1>18, <1>b, <2>e DEF DrainFree, SetFrame, BufferTypes, Frames, hwVars
  <2>r. BufferTypes' BY <2>a, <2>b, <2>f, <1>b DEF BufferTypes
  <2>t. HostTypes' BY <1>18, <1>a DEF DrainFree, HostTypes
  <2>tr. ReapTypes' BY <1>18, <1>a DEF DrainFree, ReapTypes
  <2>h. HandsShape' BY <1>18, <1>h, <2>d DEF DrainFree, HandsShape
  <2>s. SenderShape' BY <1>18, <1>s, <1>n, <2>d DEF DrainFree, SenderShape
  <2>c. CountShape' BY <1>18, <1>c DEF DrainFree, CountShape
  <2> QED BY <2>r, <2>t, <2>h, <2>s, <2>c, <2>tr DEF TypeOK
<1>19. ASSUME GetBuf PROVE IInv'
  <2>1. "pool" \in Lists /\ "sender" \in Lists /\ "pool" # "sender"
    BY <1>19 DEF Lists, Queues
  <2>2. CASE list["pool"] # << >>
    <3>1. list["pool"] # << >> /\ Move("pool", "sender")
      BY <1>19, <2>1, <2>2, <1>b DEF GetBuf, BufferTypes
    <3>2. /\ list' \in [Lists -> Seq(Bufs)]
          /\ Len(list'["pool"]) = Len(list["pool"]) - 1
          /\ Len(list'["sender"]) = Len(list["sender"]) + 1
          /\ \A l \in Lists \ {"pool", "sender"} : list'[l] = list[l]
      BY <2>1, <3>1, <1>t, MoveStep
    <3>a. list' \in [Lists -> Seq(Bufs)] BY <3>2
    <3>b. \A q \in Queues : done[q] <= Len(list'[q])
      BY <3>a, <3>2, <1>b, <1>q DEF Lists, Queues, BufferTypes
    <3>d. /\ Len(list'["sender"]) = Len(list["sender"]) + 1
        /\ Len(list'["mgmt"]) = Len(list["mgmt"])
        /\ Len(list'["tasklet"]) = Len(list["tasklet"])
        /\ Len(list'["reset"]) = Len(list["reset"])
      BY <3>2 DEF Lists, Queues
    <3>f. /\ frame' \in [Bufs -> Frames \cup {NoFrame}]
          /\ refs' \in Int /\ done' = done
      BY <1>19, <2>2, <1>b DEF GetBuf, BufferTypes, Frames, hwVars
    <3>r. BufferTypes' BY <3>a, <3>b, <3>f, <1>b DEF BufferTypes
    <3>t. HostTypes' BY <1>19, <2>2, <1>a DEF GetBuf, StopIfEmpty, HostTypes
    <3>tr. ReapTypes' BY <1>19, <2>2, <1>a DEF GetBuf, ReapTypes
    <3>h. HandsShape' BY <1>19, <2>2, <1>h, <3>d DEF GetBuf, HandsShape
    <3>s. SenderShape' BY <1>19, <2>2, <1>s, <1>n, <3>d DEF GetBuf, SenderShape
    <3>c. CountShape' BY <1>19, <2>2, <1>c DEF GetBuf, CountShape
    <3> QED BY <3>r, <3>t, <3>h, <3>s, <3>c, <3>tr DEF TypeOK
  <2>3. CASE ~(list["pool"] # << >>)
    <3>r. BufferTypes' BY <1>19, <2>3, <1>b DEF GetBuf, BufferTypes
    <3>t. HostTypes' BY <1>19, <2>3, <1>a, <1>e DEF GetBuf, StopIfEmpty, HostTypes
    <3>tr. ReapTypes' BY <1>19, <2>3, <1>a, <1>e DEF GetBuf, ReapTypes
    <3>h. HandsShape' BY <1>19, <2>3, <1>h DEF GetBuf, HandsShape
    <3>s. SenderShape' BY <1>19, <2>3, <1>s, <1>n DEF GetBuf, SenderShape
    <3>c. CountShape' BY <1>19, <2>3, <1>c, <1>e DEF GetBuf, CountShape
    <3> QED BY <3>r, <3>t, <3>h, <3>s, <3>c, <3>tr DEF TypeOK
  <2> QED BY <2>2, <2>3
<1>20. ASSUME MgtStart PROVE IInv'
  <2>1. "pool" \in Lists /\ "mgmt" \in Lists /\ "pool" # "mgmt"
    BY <1>20 DEF Lists, Queues
  <2>2. CASE list["pool"] # << >>
    <3>1. list["pool"] # << >> /\ Move("pool", "mgmt")
      BY <1>20, <2>1, <2>2, <1>b DEF MgtStart, BufferTypes
    <3>2. /\ list' \in [Lists -> Seq(Bufs)]
          /\ Len(list'["pool"]) = Len(list["pool"]) - 1
          /\ Len(list'["mgmt"]) = Len(list["mgmt"]) + 1
          /\ \A l \in Lists \ {"pool", "mgmt"} : list'[l] = list[l]
      BY <2>1, <3>1, <1>t, MoveStep
    <3>a. list' \in [Lists -> Seq(Bufs)] BY <3>2
    <3>b. \A q \in Queues : done[q] <= Len(list'[q])
      BY <3>a, <3>2, <1>b, <1>q DEF Lists, Queues, BufferTypes
    <3>d. /\ Len(list'["sender"]) = Len(list["sender"])
        /\ Len(list'["mgmt"]) = Len(list["mgmt"]) + 1
        /\ Len(list'["tasklet"]) = Len(list["tasklet"])
        /\ Len(list'["reset"]) = Len(list["reset"])
      BY <3>2 DEF Lists, Queues
    <3>f. /\ frame' \in [Bufs -> Frames \cup {NoFrame}]
          /\ refs' \in Int /\ done' = done
      BY <1>20, <2>2, <1>b DEF MgtStart, BufferTypes, Frames, hwVars
    <3>r. BufferTypes' BY <3>a, <3>b, <3>f, <1>b DEF BufferTypes
    <3>t. HostTypes' BY <1>20, <2>2, <1>a DEF MgtStart, StopIfEmpty, HostTypes
    <3>tr. ReapTypes' BY <1>20, <2>2, <1>a DEF MgtStart, ReapTypes
    <3>h. HandsShape' BY <1>20, <2>2, <1>h, <3>d DEF MgtStart, HandsShape
    <3>s. SenderShape' BY <1>20, <2>2, <1>s, <1>n, <3>d DEF MgtStart, SenderShape
    <3>c. CountShape' BY <1>20, <2>2, <1>c DEF MgtStart, CountShape
    <3> QED BY <3>r, <3>t, <3>h, <3>s, <3>c, <3>tr DEF TypeOK
  <2>3. CASE ~(list["pool"] # << >>)
    <3>r. BufferTypes' BY <1>20, <2>3, <1>b DEF MgtStart, BufferTypes
    <3>t. HostTypes' BY <1>20, <2>3, <1>a, <1>e DEF MgtStart, StopIfEmpty, HostTypes
    <3>tr. ReapTypes' BY <1>20, <2>3, <1>a, <1>e DEF MgtStart, ReapTypes
    <3>h. HandsShape' BY <1>20, <2>3, <1>h DEF MgtStart, HandsShape
    <3>s. SenderShape' BY <1>20, <2>3, <1>s, <1>n DEF MgtStart, SenderShape
    <3>c. CountShape' BY <1>20, <2>3, <1>c, <1>e DEF MgtStart, CountShape
    <3> QED BY <3>r, <3>t, <3>h, <3>s, <3>c, <3>tr DEF TypeOK
  <2> QED BY <2>2, <2>3
<1>21. ASSUME TxReap PROVE IInv'
  <2>0. Order[tq] \in Queues /\ tq \in 1 .. 3 BY <1>21, <1>c, <1>o DEF TxReap, CountShape
  <2>1. Order[tq] \in Lists /\ "tasklet" \in Lists /\ Order[tq] # "tasklet"
    BY <1>21, <2>0 DEF Lists, Queues
  <2>2. CASE done[Order[tq]] > 0
    <3>1. list[Order[tq]] # << >> /\ Move(Order[tq], "tasklet")
      BY <1>21, <2>1, <2>2, <1>b, <2>0 DEF TxReap, BufferTypes
    <3>2. /\ list' \in [Lists -> Seq(Bufs)]
          /\ Len(list'[Order[tq]]) = Len(list[Order[tq]]) - 1
          /\ Len(list'["tasklet"]) = Len(list["tasklet"]) + 1
          /\ \A l \in Lists \ {Order[tq], "tasklet"} : list'[l] = list[l]
      BY <2>1, <3>1, <1>t, MoveStep
    <3>a. list' \in [Lists -> Seq(Bufs)] BY <3>2
    <3>b. done' \in [Queues -> Nat] BY <1>21, <2>2, <1>b, <2>0 DEF TxReap, BufferTypes, hwVars
    <3>e. \A q \in Queues : done'[q] <= Len(list'[q])
      <4> SUFFICES ASSUME NEW q \in Queues PROVE done'[q] <= Len(list'[q])
        OBVIOUS
      <4>1. done[q] <= Len(list[q]) /\ done[q] \in Nat /\ q \in Lists
            /\ done \in [Queues -> Nat]
        BY <1>b DEF BufferTypes, Lists
      <4>2. CASE q = Order[tq]
        <5>1. done'[q] = done[q] - 1 BY <1>21, <2>2, <1>c, <4>1, <4>2
            DEF TxReap, CountShape, hwVars
        <5> QED BY <5>1, <4>1, <4>2, <3>2, <1>q
      <4>3. CASE q # Order[tq]
        <5>1. done'[q] = done[q] BY <1>21, <2>2, <4>1, <4>3 DEF TxReap, hwVars
        <5>2. list'[q] = list[q] BY <4>1, <4>3, <3>2 DEF Lists, Queues
        <5> QED BY <5>1, <5>2, <4>1
      <4> QED BY <4>2, <4>3
    <3>g. frame[Head(list[Order[tq]])] \in Frames \cup {NoFrame}
      <4>1. Head(list[Order[tq]]) \in Bufs BY <2>1, <3>1, <1>t, ListType
      <4> QED BY <4>1, <1>b DEF BufferTypes
    <3>d. /\ Len(list'["sender"]) = Len(list["sender"])
        /\ Len(list'["mgmt"]) = Len(list["mgmt"])
        /\ Len(list'["tasklet"]) = Len(list["tasklet"]) + 1
        /\ Len(list'["reset"]) = Len(list["reset"])
      BY <3>2, <2>0 DEF Lists, Queues
    <3>f. /\ frame' \in [Bufs -> Frames \cup {NoFrame}]
          /\ refs' \in Int
      BY <1>21, <2>2, <1>b DEF TxReap, BufferTypes, Frames, hwVars
    <3>r. BufferTypes' BY <3>a, <3>b, <3>f, <3>e, <1>b DEF BufferTypes
    <3>t. HostTypes' BY <1>21, <2>2, <1>a, <3>g DEF TxReap, HostTypes
    <3>tr. ReapTypes'
      <4>1. seq' \in Frames \cup {NoFrame} /\ tpc' = "free" /\ tq' = tq
            /\ UNCHANGED resetVars
        BY <1>21, <2>2, <1>a, <3>g DEF TxReap, ReapTypes
      <4> QED BY <1>a, <4>1 DEF ReapTypes, resetVars
    <3>h. HandsShape' BY <1>21, <2>2, <1>h, <3>d DEF TxReap, HandsShape
    <3>s. SenderShape' BY <1>21, <2>2, <1>s, <1>n, <3>d DEF TxReap, SenderShape
    <3>c. CountShape' BY <1>21, <2>2, <1>c, <2>0 DEF TxReap, CountShape
    <3> QED BY <3>r, <3>t, <3>h, <3>s, <3>c, <3>tr DEF TypeOK
  <2>3. CASE ~(done[Order[tq]] > 0)
    <3>r. BufferTypes' BY <1>21, <2>3, <1>b DEF TxReap, BufferTypes
    <3>t. HostTypes' BY <1>21, <2>3, <1>a, <1>e DEF TxReap, HostTypes
    <3>tr. ReapTypes' BY <1>21, <2>3, <2>0, <1>a, <1>e DEF TxReap, ReapTypes
    <3>h. HandsShape' BY <1>21, <2>3, <1>h DEF TxReap, HandsShape
    <3>s. SenderShape' BY <1>21, <2>3, <1>s, <1>n DEF TxReap, SenderShape
    <3>c. CountShape' BY <1>21, <2>3, <1>c, <1>e DEF TxReap, CountShape
    <3> QED BY <3>r, <3>t, <3>h, <3>s, <3>c, <3>tr DEF TypeOK
  <2> QED BY <2>2, <2>3
<1>22. ASSUME Drain PROVE IInv'
  <2>0. Order[rq] \in Queues /\ rq \in 1 .. 3 BY <1>22, <1>a, <1>o, <1>e
      DEF Drain, HostTypes, ReapTypes
  <2>1. Order[rq] \in Lists /\ "reset" \in Lists /\ Order[rq] # "reset"
    BY <1>22, <2>0 DEF Lists, Queues
  <2>2. CASE list[Order[rq]] # << >>
    <3>1. list[Order[rq]] # << >> /\ Move(Order[rq], "reset")
      BY <1>22, <2>1, <2>2, <1>b DEF Drain, BufferTypes
    <3>2. /\ list' \in [Lists -> Seq(Bufs)]
          /\ Len(list'[Order[rq]]) = Len(list[Order[rq]]) - 1
          /\ Len(list'["reset"]) = Len(list["reset"]) + 1
          /\ \A l \in Lists \ {Order[rq], "reset"} : list'[l] = list[l]
      BY <2>1, <3>1, <1>t, MoveStep
    <3>a. list' \in [Lists -> Seq(Bufs)] BY <3>2
    <3>b. done' \in [Queues -> Nat] BY <1>22, <2>2, <1>b, <2>0 DEF Drain, BufferTypes, hwVars
    <3>e. \A q \in Queues : done'[q] <= Len(list'[q])
      <4> SUFFICES ASSUME NEW q \in Queues PROVE done'[q] <= Len(list'[q])
        OBVIOUS
      <4>1. done[q] <= Len(list[q]) /\ done[q] \in Nat /\ q \in Lists
            /\ done \in [Queues -> Nat]
        BY <1>b DEF BufferTypes, Lists
      <4>2. CASE q = Order[rq]
        <5>1. done'[q] = IF done[q] > 0 THEN done[q] - 1 ELSE 0
          BY <1>22, <2>2, <4>1, <4>2 DEF Drain
        <5>2. Len(list[q]) \in Nat /\ list[q] # << >> /\ Len(list[q]) # 0
              /\ Len(list'[q]) = Len(list[q]) - 1
          BY <4>1, <4>2, <3>1, <3>2, <1>q, <1>t, ListType
        <5> QED BY <5>1, <5>2, <4>1
      <4>3. CASE q # Order[rq]
        <5>1. done'[q] = done[q] BY <1>22, <2>2, <4>1, <4>3 DEF Drain, hwVars
        <5>2. list'[q] = list[q] BY <4>1, <4>3, <3>2 DEF Lists, Queues
        <5> QED BY <5>1, <5>2, <4>1
      <4> QED BY <4>2, <4>3
    <3>d. /\ Len(list'["sender"]) = Len(list["sender"])
        /\ Len(list'["mgmt"]) = Len(list["mgmt"])
        /\ Len(list'["tasklet"]) = Len(list["tasklet"])
        /\ Len(list'["reset"]) = Len(list["reset"]) + 1
      BY <3>2, <2>0 DEF Lists, Queues
    <3>f. /\ frame' \in [Bufs -> Frames \cup {NoFrame}]
          /\ refs' \in Int
      BY <1>22, <2>2, <1>b DEF Drain, BufferTypes, Frames, hwVars
    <3>r. BufferTypes' BY <3>a, <3>b, <3>f, <3>e, <1>b DEF BufferTypes
    <3>t. HostTypes' BY <1>22, <2>2, <1>a DEF Drain, HostTypes
    <3>tr. ReapTypes' BY <1>22, <2>2, <1>a DEF Drain, ReapTypes
    <3>h. HandsShape' BY <1>22, <2>2, <1>h, <3>d DEF Drain, HandsShape
    <3>s. SenderShape' BY <1>22, <2>2, <1>s, <1>n, <3>d DEF Drain, SenderShape
    <3>c. CountShape' BY <1>22, <2>2, <1>c, <2>0 DEF Drain, CountShape
    <3> QED BY <3>r, <3>t, <3>h, <3>s, <3>c, <3>tr DEF TypeOK
  <2>3. CASE ~(list[Order[rq]] # << >>)
    <3>r. BufferTypes' BY <1>22, <2>3, <1>b DEF Drain, BufferTypes
    <3>t. HostTypes' BY <1>22, <2>3, <1>a, <1>e DEF Drain, HostTypes
    <3>tr. ReapTypes' BY <1>22, <2>3, <1>a, <1>e DEF Drain, ReapTypes
    <3>h. HandsShape' BY <1>22, <2>3, <1>h DEF Drain, HandsShape
    <3>s. SenderShape' BY <1>22, <2>3, <1>s, <1>n DEF Drain, SenderShape
    <3>c. CountShape' BY <1>22, <2>3, <1>c, <1>e DEF Drain, CountShape
    <3> QED BY <3>r, <3>t, <3>h, <3>s, <3>c, <3>tr DEF TypeOK
  <2> QED BY <2>2, <2>3
<1>23. ASSUME AllocFrags PROVE IInv'
  <2>0. Frags(pkt) \in Nat \ {0} BY <1>23, <1>s, <1>p DEF AllocFrags, SenderShape
  <2>1. /\ list' \in [Lists -> Seq(Bufs)]
        /\ \A l \in Lists \ {"pool", "sender"} : list'[l] = list[l]
    BY <1>23, <1>t, <2>0, AllocFragsStep
  <2>a. list' \in [Lists -> Seq(Bufs)] BY <2>1
  <2>b. \A q \in Queues : done[q] <= Len(list'[q])
    BY <2>1, <1>b DEF Lists, Queues, BufferTypes
  <2>d. /\ Len(list'["sender"]) = Len(list["sender"]) + (Frags(pkt) - 1)
        /\ Len(list'["mgmt"]) = Len(list["mgmt"])
        /\ Len(list'["tasklet"]) = Len(list["tasklet"])
        /\ Len(list'["reset"]) = Len(list["reset"])
    BY <1>23, <2>1, <1>t, <2>0, AllocFragsStep DEF Lists
  <2>f. /\ frame' \in [Bufs -> Frames \cup {NoFrame}]
        /\ refs' \in Int /\ done' = done
    BY <1>23, <1>b, <2>0 DEF AllocFrags, BufferTypes, Frames, hwVars
  <2>r. BufferTypes' BY <2>a, <2>b, <2>f, <1>b DEF BufferTypes
  <2>t. HostTypes' BY <1>23, <1>a DEF AllocFrags, HostTypes
  <2>tr. ReapTypes' BY <1>23, <1>a DEF AllocFrags, ReapTypes
  <2>h. HandsShape' BY <1>23, <1>h, <2>d DEF AllocFrags, HandsShape
  <2>s. SenderShape' BY <1>23, <1>s, <1>n, <2>d, <2>0 DEF AllocFrags, SenderShape
  <2>c. CountShape' BY <1>23, <1>c DEF AllocFrags, CountShape
  <2> QED BY <2>r, <2>t, <2>h, <2>s, <2>c, <2>tr DEF TypeOK
<1>24. ASSUME AllocShort PROVE IInv'
  <2>0. Len(list["pool"]) \in Nat BY <1>t, ListType DEF Lists
  <2>1. /\ list' \in [Lists -> Seq(Bufs)]
        /\ \A l \in Lists \ {"pool", "sender"} : list'[l] = list[l]
    BY <1>24, <1>t, AllocShortStep
  <2>a. list' \in [Lists -> Seq(Bufs)] BY <2>1
  <2>b. \A q \in Queues : done[q] <= Len(list'[q])
    BY <2>1, <1>b DEF Lists, Queues, BufferTypes
  <2>d. /\ Len(list'["sender"]) = 0
        /\ Len(list'["mgmt"]) = Len(list["mgmt"])
        /\ Len(list'["tasklet"]) = Len(list["tasklet"])
        /\ Len(list'["reset"]) = Len(list["reset"])
    BY <1>24, <2>1, <1>t, AllocShortStep DEF Lists
  <2>f. /\ frame' \in [Bufs -> Frames \cup {NoFrame}]
        /\ refs' \in Int /\ done' = done
    BY <1>24, <1>b, <2>0 DEF AllocShort, BufferTypes, Frames, hwVars
  <2>r. BufferTypes' BY <2>a, <2>b, <2>f, <1>b DEF BufferTypes
  <2>t. HostTypes' BY <1>24, <1>a DEF AllocShort, HostTypes
  <2>tr. ReapTypes' BY <1>24, <1>a DEF AllocShort, ReapTypes
  <2>h. HandsShape' BY <1>24, <1>h, <2>d DEF AllocShort, HandsShape
  <2>s. SenderShape' BY <1>24, <1>s, <1>n, <2>d DEF AllocShort, SenderShape
  <2>c. CountShape' BY <1>24, <1>c DEF AllocShort, CountShape
  <2> QED BY <2>r, <2>t, <2>h, <2>s, <2>c, <2>tr DEF TypeOK
<1>25. ASSUME HardstartFail PROVE IInv'
  <2>1. /\ list' \in [Lists -> Seq(Bufs)]
        /\ \A l \in Lists \ {"pool", "sender"} : list'[l] = list[l]
    BY <1>25, <1>t, FailStep
  <2>a. list' \in [Lists -> Seq(Bufs)] BY <2>1
  <2>b. \A q \in Queues : done[q] <= Len(list'[q])
    BY <2>1, <1>b DEF Lists, Queues, BufferTypes
  <2>d. /\ Len(list'["sender"]) = 0
        /\ Len(list'["mgmt"]) = Len(list["mgmt"])
        /\ Len(list'["tasklet"]) = Len(list["tasklet"])
        /\ Len(list'["reset"]) = Len(list["reset"])
    BY <1>25, <2>1, <1>t, FailStep DEF Lists
  <2>f. /\ frame' \in [Bufs -> Frames \cup {NoFrame}]
        /\ refs' \in Int /\ done' = done
    BY <1>25, <1>b DEF HardstartFail, BufferTypes, Frames, hwVars
  <2>r. BufferTypes' BY <2>a, <2>b, <2>f, <1>b DEF BufferTypes
  <2>t. HostTypes' BY <1>25, <1>a DEF HardstartFail, HostTypes
  <2>tr. ReapTypes' BY <1>25, <1>a DEF HardstartFail, ReapTypes
  <2>h. HandsShape' BY <1>25, <1>h, <2>d DEF HardstartFail, HandsShape
  <2>s. SenderShape' BY <1>25, <1>s, <1>n, <2>d DEF HardstartFail, SenderShape
  <2>c. CountShape' BY <1>25, <1>c DEF HardstartFail, CountShape
  <2> QED BY <2>r, <2>t, <2>h, <2>s, <2>c, <2>tr DEF TypeOK
<1>26. ASSUME StartFails PROVE IInv'
  <2>0. list["sender"] \in Seq(Bufs) /\ list["sender"] # << >>
    BY <1>26, <1>t, ListType DEF StartFails, Lists
  <2>1. /\ list' \in [Lists -> Seq(Bufs)]
        /\ \A l \in Lists \ {"sender"} : list'[l] = list[l]
    BY <1>26, <1>t, <1>b, <2>0 DEF StartFails, BufferTypes, Lists
  <2>a. list' \in [Lists -> Seq(Bufs)] BY <2>1
  <2>b. \A q \in Queues : done[q] <= Len(list'[q])
    BY <2>1, <1>b DEF Lists, Queues, BufferTypes
  <2>d. /\ Len(list'["mgmt"]) = Len(list["mgmt"])
        /\ Len(list'["tasklet"]) = Len(list["tasklet"])
        /\ Len(list'["reset"]) = Len(list["reset"])
    BY <1>26, <2>1, <1>t DEF Lists
  <2>f. /\ frame' \in [Bufs -> Frames \cup {NoFrame}]
        /\ refs' \in Int /\ done' = done
    BY <1>26, <1>b DEF StartFails, BufferTypes, Frames, hwVars
  <2>r. BufferTypes' BY <2>a, <2>b, <2>f, <1>b DEF BufferTypes
  <2>t. HostTypes' BY <1>26, <1>a DEF StartFails, HostTypes
  <2>tr. ReapTypes' BY <1>26, <1>a DEF StartFails, ReapTypes
  <2>h. HandsShape' BY <1>26, <1>h, <2>d DEF StartFails, HandsShape
  <2>s. SenderShape' BY <1>26, <1>s, <1>n, <2>d DEF StartFails, SenderShape
  <2>c. CountShape' BY <1>26, <1>c DEF StartFails, CountShape
  <2> QED BY <2>r, <2>t, <2>h, <2>s, <2>c, <2>tr DEF TypeOK
<1>27. CASE UNCHANGED vars
  BY <1>27, <1>a, <1>b, <1>h, <1>s, <1>c
      DEF vars, TypeOK, HostTypes, ReapTypes, BufferTypes, HandsShape, SenderShape, CountShape
<1> QED
    BY <1>1, <1>2, <1>3, <1>4, <1>5, <1>6, <1>7, <1>8, <1>9, <1>10, <1>11, <1>12, <1>13, <1>14,
           <1>15, <1>16, <1>17, <1>18, <1>19, <1>20, <1>21, <1>22, <1>23, <1>24, <1>25, <1>26, <1>27
        DEF Next, Sender, Tasklet, Reset

(* Every type of the invariant, one list at a time. *)
LEMMA InvFacts ==
  ASSUME IInv
  PROVE  /\ TypeOK /\ HandsShape /\ SenderShape /\ CountShape
         /\ list \in [Lists -> Seq(Bufs)] /\ left \in Nat /\ refs \in Int
         /\ \A l \in Lists : Len(list[l]) \in Nat
<1>1. TypeOK /\ HandsShape /\ SenderShape /\ CountShape BY DEF IInv, Shape
<1>2. list \in [Lists -> Seq(Bufs)] /\ left \in Nat /\ refs \in Int
  BY <1>1 DEF TypeOK, BufferTypes, HostTypes
<1> QED BY <1>1, <1>2, ListType

(* A list loses its first buffer to another. *)
Moved(from, to) ==
  from \in Lists /\ to \in Lists /\ from # to /\ list[from] # << >> /\ Move(from, to)

(* What each action does to the lists. *)
LEMMA Movements ==
  ASSUME IInv
  PROVE  /\ GetBuf => Moved("pool", "sender") \/ UNCHANGED list
         /\ MgtStart => Moved("pool", "mgmt") \/ UNCHANGED list
         /\ StartFrame => Moved("sender", Queue(pkt)) /\ Queue(pkt) \in {"BE", "VI"}
         /\ MgtSend => \E m \in Mgmts : Queue(m) \in Queues /\ Moved("mgmt", Queue(m))
                                        /\ SetFrame(Head(list["mgmt"]), m)
         /\ MgtFails => Moved("mgmt", "pool")
         /\ TxReap => \/ tpc' = "free" /\ Order[tq] \in Queues /\ Moved(Order[tq], "tasklet")
                      \/ tpc' = "queue" /\ UNCHANGED list
         /\ TxPut => Moved("tasklet", "pool")
         /\ Drain => (Order[rq] \in Queues /\ Moved(Order[rq], "reset")) \/ UNCHANGED list
         /\ DrainFree => Moved("reset", "pool")
<1>. HandsShape /\ SenderShape /\ CountShape /\ BufferTypes /\ ReapTypes
  BY DEF IInv, Shape, TypeOK
<1>l. /\ {"BE", "VI", "VO", "pool", "sender", "mgmt", "tasklet", "reset"} \subseteq Lists
      /\ Queues = {"BE", "VI", "VO"}
  BY DEF Lists, Queues
<1>z. /\ list["mgmt"] = << >> => Len(list["mgmt"]) = 0
      /\ list["tasklet"] = << >> => Len(list["tasklet"]) = 0
      /\ list["reset"] = << >> => Len(list["reset"]) = 0
  OBVIOUS
<1>o. (\A i \in 1 .. 3 : Order[i] \in Queues) /\ Len(Order) = 3 BY ListNames
<1>1. GetBuf => Moved("pool", "sender") \/ UNCHANGED list BY <1>l DEF GetBuf, Moved
<1>2. MgtStart => Moved("pool", "mgmt") \/ UNCHANGED list BY <1>l DEF MgtStart, Moved
<1>3. StartFrame => Moved("sender", Queue(pkt)) /\ Queue(pkt) \in {"BE", "VI"}
  <2>1. StartFrame => Queue(pkt) \in {"BE", "VI"}
    BY FrameAssumption DEF StartFrame, SenderShape
  <2> QED BY <2>1, <1>l DEF StartFrame, Moved
<1>4. MgtSend => \E m \in Mgmts : Queue(m) \in Queues /\ Moved("mgmt", Queue(m))
                                 /\ SetFrame(Head(list["mgmt"]), m)
  <2> SUFFICES ASSUME MgtSend
               PROVE \E m \in Mgmts : Queue(m) \in Queues /\ Moved("mgmt", Queue(m))
                                      /\ SetFrame(Head(list["mgmt"]), m)
    OBVIOUS
  <2>1. PICK m \in Mgmts : SetFrame(Head(list["mgmt"]), m) /\ Move("mgmt", Queue(m))
    BY DEF MgtSend
  <2>2. Queue(m) \in Queues BY FrameAssumption
  <2>3. list["mgmt"] # << >> BY <1>z DEF MgtSend, HandsShape
  <2> QED BY <2>1, <2>2, <2>3, <1>l DEF Moved
<1>5. MgtFails => Moved("mgmt", "pool") BY <1>l, <1>z DEF MgtFails, Moved, HandsShape
<1>6. TxReap => \/ tpc' = "free" /\ Order[tq] \in Queues /\ Moved(Order[tq], "tasklet")
                \/ tpc' = "queue" /\ UNCHANGED list
  <2> SUFFICES ASSUME TxReap, done[Order[tq]] > 0
               PROVE tpc' = "free" /\ Order[tq] \in Queues /\ Moved(Order[tq], "tasklet")
    BY DEF TxReap
  <2>1. Order[tq] \in Queues BY <1>o DEF TxReap, CountShape
  <2>2. list[Order[tq]] # << >> BY <2>1 DEF BufferTypes
  <2> QED BY <2>1, <2>2, <1>l DEF TxReap, Moved
<1>7. TxPut => Moved("tasklet", "pool") BY <1>l, <1>z DEF TxPut, Moved, HandsShape
<1>8. Drain => (Order[rq] \in Queues /\ Moved(Order[rq], "reset")) \/ UNCHANGED list
  <2> SUFFICES ASSUME Drain, list[Order[rq]] # << >>
               PROVE Order[rq] \in Queues /\ Moved(Order[rq], "reset")
    BY DEF Drain
  <2>1. Order[rq] \in Queues BY <1>o DEF Drain, ReapTypes
  <2> QED BY <2>1, <1>l DEF Drain, Moved
<1>9. DrainFree => Moved("reset", "pool") BY <1>l, <1>z DEF DrainFree, Moved, HandsShape
<1> QED BY <1>1, <1>2, <1>3, <1>4, <1>5, <1>6, <1>7, <1>8, <1>9

(* These actions leave every list alone. *)
LEMMA Still ==
  (\/ \E p \in Packets : Xmit(p)
   \/ Retry \/ CheckDepth \/ Encap \/ StartNull \/ Started
   \/ \E q \in Queues : HwDone(q)
   \/ TxStart \/ TxQueue \/ TxFree \/ TxWake \/ ResetStart \/ ResetWake) => UNCHANGED list
BY DEF Xmit, Retry, CheckDepth, Encap, StartNull, Started, HwDone, TxStart, TxQueue, TxFree,
       TxWake, ResetStart, ResetWake

(* A move changes two lists, by one buffer. *)
LEMMA MovedStep ==
  ASSUME TypeOK, NEW from, NEW to, Moved(from, to)
  PROVE  /\ Len(list'[from]) = Len(list[from]) - 1
         /\ Len(list'[to]) = Len(list[to]) + 1
         /\ \A l \in Lists \ {from, to} : list'[l] = list[l]
         /\ Conserved(list) => Conserved(list')
BY MoveStep DEF Moved

(* Every step conserves the buffers, if whole packets start without error. *)
LEMMA ConservedStep ==
  ASSUME IInv, BuffersConserved, [Next]_vars, "single" \notin StartErrors
  PROVE  BuffersConserved'
<1>t. TypeOK BY InvFacts
<1>1. ASSUME NEW from, NEW to, Moved(from, to) PROVE BuffersConserved'
  BY <1>1, <1>t, MovedStep DEF BuffersConserved
<1>2. CASE UNCHANGED list BY <1>2 DEF BuffersConserved, Conserved
<1>3. CASE AllocFrags
  <2>1. Frags(pkt) \in Nat \ {0}
    BY <1>3, InvFacts, FrameAssumption DEF AllocFrags, SenderShape
  <2> QED BY <1>3, <2>1, <1>t, AllocFragsStep DEF BuffersConserved
<1>4. CASE AllocShort BY <1>4, <1>t, AllocShortStep DEF BuffersConserved
<1>5. CASE StartFails BY <1>5, <1>t, StartFailsStep DEF BuffersConserved
<1>6. CASE HardstartFail BY <1>6, <1>t, FailStep DEF BuffersConserved
<1>7. CASE GetBuf \/ MgtStart \/ StartFrame \/ MgtSend \/ MgtFails \/ TxReap \/ TxPut
             \/ Drain \/ DrainFree
  BY <1>7, <1>1, <1>2, Movements, Zenon
<1>8. CASE UNCHANGED vars BY <1>8, <1>2 DEF vars
<1> QED BY <1>2, <1>3, <1>4, <1>5, <1>6, <1>7, <1>8, Still DEF Next, Sender, Tasklet, Reset

(* Every buffer starts in the pool, once. *)
LEMMA ConservedInit == Init => BuffersConserved
<1> SUFFICES ASSUME Init PROVE Conserved(list)
  BY DEF BuffersConserved
<1>1. PICK pool \in [1 .. Cardinality(Bufs) -> Bufs] :
        /\ Once(pool) /\ \A b \in Bufs : On(b, pool)
        /\ list = [l \in Lists |-> IF l = "pool" THEN pool ELSE << >>]
  BY DEF Init
<1>2. list["pool"] = pool /\ "pool" \in Lists BY <1>1 DEF Lists
<1>3. \A l \in Lists \ {"pool"} : DOMAIN list[l] = {} BY <1>1
<1>4. \A l \in Lists : Once(list[l]) BY <1>1, <1>2, <1>3 DEF Once
<1>5. \A l, m \in Lists : l # m => Apart(list[l], list[m]) BY <1>3 DEF Apart
<1>6. \A b \in Bufs : \E l \in Lists : On(b, list[l]) BY <1>1, <1>2
<1> QED BY <1>4, <1>5, <1>6 DEF Conserved

(* The packets among the frames of a list of buffers. *)
PacketsOn(s, F) == {i \in DOMAIN s : F[s[i]] \in Packets}
LEMMA PacketsOnFinite ==
  ASSUME NEW s \in Seq(Bufs), NEW F
  PROVE  /\ IsFiniteSet(PacketsOn(s, F)) /\ Cardinality(PacketsOn(s, F)) \in Nat
         /\ Cardinality(PacketsOn(s, F)) <= Len(s)
<1>1. DOMAIN s = 1 .. Len(s) /\ Len(s) \in Nat OBVIOUS
<1>2. IsFiniteSet(1 .. Len(s)) /\ Cardinality(1 .. Len(s)) = Len(s) BY <1>1, FS_Interval
<1>3. PacketsOn(s, F) \in SUBSET (1 .. Len(s)) BY <1>1 DEF PacketsOn
<1> QED BY <1>2, <1>3, FS_Subset, FS_CardinalityType

(* A list with fewer packets in its buffers. *)
LEMMA CountFrames ==
  ASSUME NEW s \in Seq(Bufs), NEW F, NEW G,
         \A b \in Bufs : On(b, s) /\ G[b] \in Packets => F[b] \in Packets
  PROVE  Cardinality(PacketsOn(s, G)) <= Cardinality(PacketsOn(s, F))
<1>1. IsFiniteSet(PacketsOn(s, F)) BY PacketsOnFinite
<1>2. \A i \in DOMAIN s : s[i] \in Bufs /\ On(s[i], s) BY DEF On
<1>3. PacketsOn(s, G) \in SUBSET PacketsOn(s, F) BY <1>2 DEF PacketsOn
<1> QED BY <1>1, <1>3, FS_Subset

(* A list without its first buffer. *)
LEMMA CountTail ==
  ASSUME NEW s \in Seq(Bufs), s # << >>, NEW F
  PROVE  Cardinality(PacketsOn(Tail(s), F)) <= Cardinality(PacketsOn(s, F))
<1> DEFINE f == [i \in PacketsOn(Tail(s), F) |-> i + 1]
<1>1. IsFiniteSet(PacketsOn(s, F)) BY PacketsOnFinite
<1>2. /\ DOMAIN s = 1 .. Len(s) /\ Len(s) \in Nat /\ DOMAIN Tail(s) = 1 .. Len(s) - 1
      /\ \A i \in 1 .. Len(s) - 1 : Tail(s)[i] = s[i + 1]
  OBVIOUS
<1>3. \A i \in PacketsOn(Tail(s), F) : i \in Nat /\ i + 1 \in PacketsOn(s, F)
  BY <1>2 DEF PacketsOn
<1>4. f \in Injection(PacketsOn(Tail(s), F), PacketsOn(s, F))
  <2>1. f \in [PacketsOn(Tail(s), F) -> PacketsOn(s, F)] BY <1>3
  <2>2. \A i, j \in PacketsOn(Tail(s), F) : f[i] = f[j] => i = j BY <1>3
  <2> QED BY <2>1, <2>2 DEF Injection, IsInjective
<1> HIDE DEF f
<1> QED BY <1>1, <1>4, FS_Injection

(* A list with one more buffer, which counts only if it holds a packet. *)
LEMMA CountAppend ==
  ASSUME NEW s \in Seq(Bufs), NEW b \in Bufs, NEW F
  PROVE  /\ Cardinality(PacketsOn(Append(s, b), F)) <= Cardinality(PacketsOn(s, F)) + 1
         /\ F[b] \notin Packets =>
              Cardinality(PacketsOn(Append(s, b), F)) <= Cardinality(PacketsOn(s, F))
<1> DEFINE P == PacketsOn(s, F)
           Q == PacketsOn(Append(s, b), F)
           n == Len(s) + 1
<1>1. IsFiniteSet(P) /\ Cardinality(P) \in Nat BY PacketsOnFinite
<1>2. /\ DOMAIN s = 1 .. Len(s) /\ Len(s) \in Nat /\ DOMAIN Append(s, b) = 1 .. n
      /\ \A i \in 1 .. Len(s) : Append(s, b)[i] = s[i]
      /\ Append(s, b)[n] = b
  OBVIOUS
<1>3. Q \subseteq P \cup {n} /\ (F[b] \notin Packets => Q \subseteq P)
  BY <1>2 DEF PacketsOn
<1> HIDE DEF P, Q
<1>4. IsFiniteSet(P \cup {n}) /\ Cardinality(P \cup {n}) <= Cardinality(P) + 1
  <2>1. IsFiniteSet(P \cup {n})
        /\ Cardinality(P \cup {n}) = IF n \in P THEN Cardinality(P) ELSE Cardinality(P) + 1
    BY <1>1, FS_AddElement
  <2> QED BY <2>1, <1>1
<1>5. Cardinality(Q) <= Cardinality(P \cup {n}) /\ Cardinality(Q) \in Nat
      /\ Cardinality(P \cup {n}) \in Nat
  BY <1>3, <1>4, FS_Subset, FS_CardinalityType
<1>6. F[b] \notin Packets => Cardinality(Q) <= Cardinality(P)
  BY <1>1, <1>3, FS_Subset
<1>7. Cardinality(Q) <= Cardinality(P) + 1 BY <1>1, <1>4, <1>5
<1> QED BY <1>6, <1>7 DEF P, Q

(* What a move does to the two lists. *)
LEMMA MovedShape ==
  ASSUME TypeOK, NEW from, NEW to, Moved(from, to)
  PROVE  /\ list'[from] = Tail(list[from])
         /\ list'[to] = Append(list[to], Head(list[from]))
         /\ \A l \in Lists \ {from, to} : list'[l] = list[l]
         /\ Head(list[from]) \in Bufs
<1>1. list \in [Lists -> Seq(Bufs)] BY DEF TypeOK, BufferTypes
<1>2. from \in Lists /\ to \in Lists /\ from # to /\ list[from] # << >>
      /\ list' = [list EXCEPT ![from] = Tail(@), ![to] = Append(@, Head(list[from]))]
  BY Zenon DEF Moved, Move
<1>3. Head(list[from]) \in Bufs BY <1>2, ListType
<1>4. /\ list'[from] = Tail(list[from])
      /\ list'[to] = Append(list[to], Head(list[from]))
      /\ \A l \in Lists \ {from, to} : list'[l] = list[l]
  BY <1>1, <1>2, Zenon
<1> QED BY <1>3, <1>4

(* Only the sender puts a packet into a buffer. *)
LEMMA PacketsFewer ==
  ASSUME IInv, [Next]_vars, ~StartFrame
  PROVE  \A b \in Bufs : frame'[b] \in Packets => frame[b] \in Packets
<1>t. /\ frame \in [Bufs -> Frames \cup {NoFrame}] /\ NoFrame \notin Packets
      /\ \A m \in Mgmts : m \notin Packets
  <2>1. frame \in [Bufs -> Frames \cup {NoFrame}] BY DEF IInv, TypeOK, BufferTypes
  <2> QED BY <2>1, FrameAssumption DEF Frames
<1>1. CASE UNCHANGED frame BY <1>1
<1>2. ASSUME NEW c, NEW f, f \notin Packets, SetFrame(c, f)
      PROVE  \A b \in Bufs : frame'[b] \in Packets => frame[b] \in Packets
  <2> SUFFICES ASSUME NEW b \in Bufs, frame'[b] \in Packets PROVE frame[b] \in Packets
    OBVIOUS
  <2>1. frame' = [frame EXCEPT ![c] = f] BY <1>2 DEF SetFrame
  <2>2. CASE b = c
    <3>1. frame'[b] = f BY <2>1, <2>2, <1>t
    <3> QED BY <3>1, <1>2
  <2>3. CASE b # c
    <3>1. frame'[b] = frame[b] BY <2>1, <2>3, <1>t
    <3> QED BY <3>1
  <2> QED BY <2>2, <2>3
<1>3. CASE MgtSend
  <2>1. PICK m \in Mgmts : SetFrame(Head(list["mgmt"]), m) BY <1>3 DEF MgtSend
  <2> QED BY <2>1, <1>2, <1>t
<1>4. CASE TxFree \/ DrainFree BY <1>4, <1>2, <1>t DEF TxFree, DrainFree
<1>5. CASE HardstartFail BY <1>5, <1>t DEF HardstartFail
<1>6. ASSUME \/ \E p \in Packets : Xmit(p)
             \/ Retry \/ CheckDepth \/ GetBuf \/ Encap \/ AllocFrags \/ AllocShort
             \/ StartNull \/ Started \/ StartFails
      PROVE UNCHANGED frame
  BY <1>6 DEF Xmit, Retry, CheckDepth, GetBuf, Encap, AllocFrags, AllocShort, StartNull,
              Started, StartFails
<1>7. ASSUME \/ MgtStart \/ MgtFails \/ \E q \in Queues : HwDone(q)
             \/ TxStart \/ TxQueue \/ TxReap \/ TxPut \/ TxWake
             \/ ResetStart \/ Drain \/ ResetWake \/ UNCHANGED vars
      PROVE UNCHANGED frame
  BY <1>7 DEF MgtStart, MgtFails, HwDone, TxStart, TxQueue, TxReap, TxPut, TxWake, ResetStart,
              Drain, ResetWake, vars
<1> QED BY <1>1, <1>3, <1>4, <1>5, <1>6, <1>7 DEF Next, Sender, Tasklet, Reset

(* Only the sender adds to the packets of the video queue: it may lose its *)
(* head, and what ath_mgtstart adds is no packet.                          *)
LEMMA VideoGrows ==
  ASSUME IInv, [Next]_vars, ~StartFrame
  PROVE  PacketDepth' <= PacketDepth
<1>l. "VI" \in Lists /\ "VI" \notin {"pool", "sender", "mgmt", "reset", "tasklet"}
  BY DEF Lists, Queues
<1>t. TypeOK /\ list["VI"] \in Seq(Bufs)
  BY <1>l, InvFacts
<1> DEFINE n(s, F) == Cardinality(PacketsOn(s, F))
<1>n. PacketDepth = n(list["VI"], frame) /\ PacketDepth' = n(list'["VI"], frame')
  BY Zenon DEF PacketDepth, PacketsOn
<1>f. n(list["VI"], frame') <= n(list["VI"], frame)
  BY <1>t, PacketsFewer, CountFrames
<1>c. n(list["VI"], frame') \in Nat /\ n(list["VI"], frame) \in Nat
  BY <1>t, PacketsOnFinite
<1> HIDE DEF n
<1>1. ASSUME list'["VI"] = list["VI"] PROVE PacketDepth' <= PacketDepth
  BY <1>1, <1>n, <1>f
<1>2. ASSUME list["VI"] # << >>, list'["VI"] = Tail(list["VI"]) PROVE PacketDepth' <= PacketDepth
  <2>1. n(Tail(list["VI"]), frame') <= n(list["VI"], frame')
    BY <1>2, <1>t, CountTail DEF n
  <2>2. n(Tail(list["VI"]), frame') \in Nat
    <3>1. Tail(list["VI"]) \in Seq(Bufs) BY <1>2, <1>t
    <3> QED BY <3>1, PacketsOnFinite DEF n
  <2> QED BY <1>2, <1>n, <1>f, <1>c, <2>1, <2>2
<1>3. ASSUME NEW from, NEW to, Moved(from, to), to # "VI" PROVE PacketDepth' <= PacketDepth
  <2>1. /\ list'[from] = Tail(list[from]) /\ list[from] # << >>
        /\ \A l \in Lists \ {from, to} : list'[l] = list[l]
    BY <1>3, <1>t, MovedShape DEF Moved
  <2>2. CASE from = "VI" BY <2>1, <2>2, <1>2
  <2>3. CASE from # "VI" BY <2>1, <2>3, <1>1, <1>3, <1>l
  <2> QED BY <2>2, <2>3
<1>4. CASE MgtSend
  <2>1. PICK m \in Mgmts : Moved("mgmt", Queue(m)) /\ SetFrame(Head(list["mgmt"]), m)
    BY <1>4, Movements
  <2>2. CASE Queue(m) # "VI" BY <2>1, <2>2, <1>3
  <2>3. CASE Queue(m) = "VI"
    <3> DEFINE b == Head(list["mgmt"])
    <3>1. list'["VI"] = Append(list["VI"], b) /\ b \in Bufs
      BY <2>1, <2>3, <1>t, MovedShape
    <3>2. frame'[b] = m
      BY <2>1, <3>1, <1>t DEF SetFrame, TypeOK, BufferTypes
    <3>3. m \notin Packets BY FrameAssumption
    <3> HIDE DEF b
    <3>4. n(Append(list["VI"], b), frame') <= n(list["VI"], frame')
      BY <1>t, <3>1, <3>2, <3>3, CountAppend DEF n
    <3>5. n(Append(list["VI"], b), frame') \in Nat
      <4>1. Append(list["VI"], b) \in Seq(Bufs) BY <3>1, <1>t
      <4> QED BY <4>1, PacketsOnFinite DEF n
    <3> QED BY <1>n, <1>f, <1>c, <3>1, <3>4, <3>5
  <2> QED BY <2>2, <2>3
<1>5. CASE AllocFrags
  <2>1. Frags(pkt) \in Nat \ {0}
    BY <1>5, InvFacts, FrameAssumption DEF AllocFrags, SenderShape
  <2>2. \A l \in Lists \ {"pool", "sender"} : list'[l] = list[l]
    BY <1>5, <2>1, <1>t, AllocFragsStep
  <2> QED BY <2>2, <1>1, <1>l
<1>6. CASE AllocShort
  <2>1. \A l \in Lists \ {"pool", "sender"} : list'[l] = list[l] BY <1>6, <1>t, AllocShortStep
  <2> QED BY <2>1, <1>1, <1>l
<1>7. CASE StartFails
  <2>1. list'["VI"] = list["VI"] BY <1>7, <1>t, <1>l DEF StartFails, TypeOK, BufferTypes
  <2> QED BY <2>1, <1>1
<1>8. CASE HardstartFail
  <2>1. \A l \in Lists \ {"pool", "sender"} : list'[l] = list[l] BY <1>8, <1>t, FailStep
  <2> QED BY <2>1, <1>1, <1>l
<1>9. CASE UNCHANGED list BY <1>9, <1>1
<1>10. CASE GetBuf \/ MgtStart \/ MgtFails \/ TxReap \/ TxPut \/ Drain \/ DrainFree
  BY <1>10, <1>3, <1>9, <1>l, Movements
<1>11. CASE UNCHANGED vars BY <1>11, <1>9 DEF vars
<1> QED BY <1>4, <1>5, <1>6, <1>7, <1>8, <1>9, <1>10, <1>11, Still
        DEF Next, Sender, Tasklet, Reset

(* The sender adds one packet, if any: the buffer it fills is not yet on   *)
(* the video queue.                                                        *)
LEMMA VideoGrowsByOne ==
  ASSUME IInv, BuffersConserved, StartFrame
  PROVE  PacketDepth' <= PacketDepth + 1
<1> DEFINE b == Head(list["sender"])
           n(s, F) == Cardinality(PacketsOn(s, F))
<1>l. "VI" \in Lists /\ "sender" \in Lists /\ "VI" # "sender" BY DEF Lists, Queues
<1>t. TypeOK /\ list["VI"] \in Seq(Bufs) BY <1>l, InvFacts
<1>n. PacketDepth = n(list["VI"], frame) /\ PacketDepth' = n(list'["VI"], frame')
  BY Zenon DEF PacketDepth, PacketsOn
<1>1. Queue(pkt) \in {"BE", "VI"} /\ Moved("sender", Queue(pkt)) BY InvFacts, Movements
<1>2. /\ list'[Queue(pkt)] = Append(list[Queue(pkt)], b) /\ b \in Bufs
      /\ \A l \in Lists \ {"sender", Queue(pkt)} : list'[l] = list[l]
  BY <1>1, <1>t, MovedShape
<1>3. ~On(b, list["VI"])
  <2>1. list["sender"] \in Seq(Bufs) /\ list["sender"] # << >>
    BY <1>l, InvFacts DEF StartFrame
  <2>2. 1 \in DOMAIN list["sender"] /\ list["sender"][1] = b BY <2>1
  <2>3. Apart(list["sender"], list["VI"]) BY <1>l DEF BuffersConserved, Conserved
  <2> QED BY <2>2, <2>3 DEF Apart, On
<1>4. \A c \in Bufs : c # b => frame'[c] = frame[c]
  BY <1>t DEF StartFrame, SetFrame, TypeOK, BufferTypes
<1> HIDE DEF b
<1>5. n(list["VI"], frame') <= n(list["VI"], frame)
  BY <1>t, <1>3, <1>4, CountFrames
<1>6. n(list["VI"], frame') \in Nat /\ n(list["VI"], frame) \in Nat
  BY <1>t, PacketsOnFinite
<1>7. n(Append(list["VI"], b), frame') <= n(list["VI"], frame') + 1
      /\ n(Append(list["VI"], b), frame') \in Nat
  <2>1. Append(list["VI"], b) \in Seq(Bufs) BY <1>2, <1>t
  <2> QED BY <1>t, <1>2, <2>1, CountAppend, PacketsOnFinite
<1> HIDE DEF n
<1>8. CASE Queue(pkt) = "VI"
  <2>1. list'["VI"] = Append(list["VI"], b) BY <1>8, <1>2
  <2>2. PacketDepth' = n(Append(list["VI"], b), frame') BY <2>1, <1>n, Zenon
  <2> QED BY <2>2, <1>n, <1>5, <1>6, <1>7
<1>9. CASE Queue(pkt) # "VI"
  <2>1. list'["VI"] = list["VI"] BY <1>9, <1>2, <1>l
  <2> QED BY <2>1, <1>n, <1>5, <1>6
<1> QED BY <1>8, <1>9

(* The number of packets is at most the length. *)
LEMMA PacketDepthType ==
  ASSUME TypeOK
  PROVE  PacketDepth \in Nat /\ PacketDepth <= Len(list["VI"])
<1>1. list["VI"] \in Seq(Bufs) BY ListType DEF Lists, Queues
<1> QED BY <1>1, PacketsOnFinite DEF PacketDepth, PacketsOn

(* Every step keeps the bound of the video queue. *)
LEMMA DepthStep ==
  ASSUME IInv, IInv', BuffersConserved, DepthInv, [Next]_vars
  PROVE  DepthInv'
<1> DEFINE d == PacketDepth
           e == PacketDepth'
<1>d. d \in Nat /\ e \in Nat /\ left \in Nat /\ left' \in Nat /\ TailDrop \in Nat
  <2>1. d \in Nat /\ left \in Nat BY InvFacts, PacketDepthType
  <2>2. left' \in Nat BY DEF IInv, TypeOK, HostTypes
  <2>3. e \in Nat
    <3>1. list'["VI"] \in Seq(Bufs) BY DEF IInv, TypeOK, BufferTypes, Lists, Queues
    <3> QED BY <3>1, PacketsOnFinite DEF PacketDepth, PacketsOn
  <2> QED BY <2>1, <2>2, <2>3, ParameterAssumption
<1>p. \A p \in Packets : Frags(p) \in Nat \ {0} BY FrameAssumption
<1>s. spc # "idle" => pkt \in Packets BY InvFacts DEF SenderShape
<1>v. /\ \E p \in Packets : d <= TailDrop + Frags(p)
      /\ spc \in {"get", "encap", "alloc"} => d <= TailDrop
      /\ spc = "start" => d + left <= TailDrop + Frags(pkt)
  BY DEF DepthInv, DepthBounded
<1>g. SUFFICES /\ \E p \in Packets : e <= TailDrop + Frags(p)
               /\ spc' \in {"get", "encap", "alloc"} => e <= TailDrop
               /\ spc' = "start" => e + left' <= TailDrop + Frags(pkt')
  BY DEF DepthInv, DepthBounded
<1>n. ASSUME ~StartFrame PROVE e <= d /\ \E p \in Packets : e <= TailDrop + Frags(p)
  <2>1. e <= d BY <1>n, VideoGrows
  <2>2. PICK p \in Packets : d <= TailDrop + Frags(p) BY <1>v
  <2> QED BY <2>1, <2>2, <1>d, <1>p
<1> HIDE DEF d, e
<1>1. CASE StartFrame
  <2>2. e <= d + 1 BY <1>1, VideoGrowsByOne DEF d, e
  <2>3. spc = "start" /\ left > 0 /\ left' = left - 1 /\ spc' = spc /\ pkt' = pkt
    BY <1>1 DEF StartFrame
  <2>4. pkt \in Packets /\ d + left <= TailDrop + Frags(pkt) BY <2>3, <1>s, <1>v
  <2>5. e + left' <= TailDrop + Frags(pkt)
    <3>1. Frags(pkt) \in Nat BY <2>4, <1>p
    <3> QED BY <3>1, <2>2, <2>3, <2>4, <1>d
  <2>6. e <= TailDrop + Frags(pkt)
    <3>1. Frags(pkt) \in Nat BY <2>4, <1>p
    <3> QED BY <3>1, <2>5, <1>d
  <2> QED BY <2>3, <2>4, <2>5, <2>6
<1>2. ASSUME ~StartFrame, UNCHANGED <<spc, pkt, left>>
      PROVE  /\ spc' \in {"get", "encap", "alloc"} => e <= TailDrop
             /\ spc' = "start" => e + left' <= TailDrop + Frags(pkt')
  <2>1. e <= d BY <1>2, <1>n
  <2>2. spc = "start" => Frags(pkt) \in Nat BY <1>s, <1>p
  <2> QED BY <1>2, <2>1, <2>2, <1>v, <1>d
<1>3. ASSUME ~StartFrame, spc' \in {"idle", "check", "requeued", "fail", "panic"}
      PROVE  /\ spc' \in {"get", "encap", "alloc"} => e <= TailDrop
             /\ spc' = "start" => e + left' <= TailDrop + Frags(pkt')
  BY <1>3
<1>4. ASSUME ~StartFrame, spc \in {"get", "encap", "alloc"}, spc' \in {"encap", "alloc"}
      PROVE  /\ spc' \in {"get", "encap", "alloc"} => e <= TailDrop
             /\ spc' = "start" => e + left' <= TailDrop + Frags(pkt')
  <2>1. e <= d BY <1>4, <1>n
  <2> QED BY <1>4, <2>1, <1>v, <1>d
<1>5. ASSUME ~StartFrame, spc \in {"encap", "alloc"}, spc' = "start",
             left' = Frags(pkt), pkt' = pkt
      PROVE  e + left' <= TailDrop + Frags(pkt')
  <2>1. e <= d BY <1>5, <1>n
  <2>2. Frags(pkt) \in Nat BY <1>5, <1>s, <1>p
  <2> QED BY <1>5, <2>1, <2>2, <1>v, <1>d
<1>6. CASE CheckDepth
  <2>0. d <= Len(list["VI"]) /\ Len(list["VI"]) \in Nat
    BY InvFacts, PacketDepthType DEF d, Lists, Queues
  <2>1. ~StartFrame /\ spc' \in {"get", "requeued"} /\ (spc' = "get" => d <= TailDrop)
    BY <1>6, <1>d, <2>0 DEF CheckDepth, StartFrame
  <2>2. e <= d /\ \E p \in Packets : e <= TailDrop + Frags(p) BY <2>1, <1>n
  <2> QED BY <2>1, <2>2, <1>d
<1>7. ASSUME Xmit(pkt') \/ Retry \/ StartNull \/ Started \/ AllocShort \/ StartFails \/ HardstartFail
      PROVE  ~StartFrame /\ spc' \in {"idle", "check", "requeued", "fail", "panic"}
  BY <1>7 DEF Xmit, Retry, StartNull, Started, AllocShort, StartFails, HardstartFail, StartFrame
<1>8. CASE GetBuf
  <2>1. ~StartFrame /\ spc = "get" /\ spc' = "encap" BY <1>8 DEF GetBuf, StartFrame
  <2> QED BY <2>1, <1>4, <1>n
<1>9. CASE Encap
  <2>1. ~StartFrame /\ spc = "encap" BY <1>9 DEF Encap, StartFrame
  <2>2. \/ spc' = "fail"
        \/ spc' = "alloc"
        \/ spc' = "start" /\ left' = Frags(pkt) /\ pkt' = pkt
    BY <1>9 DEF Encap
  <2> QED BY <2>1, <2>2, <1>3, <1>4, <1>5, <1>n
<1>10. CASE AllocFrags
  <2>1. ~StartFrame /\ spc = "alloc" /\ spc' = "start" /\ left' = left /\ pkt' = pkt
    BY <1>10 DEF AllocFrags, StartFrame
  <2>2. left = Frags(pkt) BY <2>1, InvFacts DEF SenderShape
  <2> QED BY <2>1, <2>2, <1>5, <1>n
<1>11. ASSUME ~StartFrame,
              \/ MgtStart \/ MgtSend \/ MgtFails
              \/ \E q \in Queues : HwDone(q)
              \/ Tasklet \/ ResetStart \/ Reset \/ UNCHANGED vars
       PROVE  UNCHANGED <<spc, pkt, left>>
  BY <1>11 DEF MgtStart, MgtSend, MgtFails, HwDone, Tasklet, TxStart, TxQueue, TxReap, TxFree,
       TxPut, TxWake, ResetStart, Reset, Drain, DrainFree, ResetWake, senderVars, vars
<1>12. ASSUME NEW p \in Packets, Xmit(p) PROVE Xmit(pkt')
  BY <1>12 DEF Xmit
<1> QED BY <1>1, <1>2, <1>3, <1>6, <1>7, <1>8, <1>9, <1>10, <1>11, <1>12, <1>n
        DEF Next, Sender

(* What the sender's references amount to, by where it is. *)
LEMMA SenderRefsAre ==
  /\ spc \in {"check", "requeued", "get", "encap", "alloc"} => SenderRefs = 1
  /\ spc = "idle" => SenderRefs = 0
  /\ spc = "fail" => SenderRefs = Len(list["sender"])
  /\ spc \in {"start", "panic"} => SenderRefs = Min2(left, Len(list["sender"]))
BY DEF SenderRefs

(* Only the sender's steps change what the sender holds, and its other     *)
(* steps what the others hold.                                             *)
LEMMA SenderKeeps ==
  ASSUME UNCHANGED <<spc, left>>, list'["sender"] = list["sender"]
  PROVE  SenderRefs' = SenderRefs
BY DEF SenderRefs, Min2
(* The other actors' references likewise. *)
LEMMA OthersKeep ==
  ASSUME UNCHANGED tpc, \A l \in Queues \cup {"mgmt", "reset"} : list'[l] = list[l]
  PROVE  OtherRefs' = OtherRefs
<1>1. /\ list'["BE"] = list["BE"] /\ list'["VI"] = list["VI"] /\ list'["VO"] = list["VO"]
      /\ list'["mgmt"] = list["mgmt"] /\ list'["reset"] = list["reset"]
  BY DEF Queues
<1> QED BY <1>1, Zenon DEF OtherRefs

(* The lists whose frames hold a reference. *)
Held == {"BE", "VI", "VO", "mgmt", "reset"}
HeldLen == Len(list["BE"]) + Len(list["VI"]) + Len(list["VO"])
             + Len(list["mgmt"]) + Len(list["reset"])
(* A move counts only by whether its two lists are such lists. *)
LEMMA HeldMoves ==
  ASSUME TypeOK, NEW from, NEW to, Moved(from, to)
  PROVE  HeldLen' = HeldLen - (IF from \in Held THEN 1 ELSE 0) + (IF to \in Held THEN 1 ELSE 0)
<1> DEFINE d(l) == IF l = from THEN 0 - 1 ELSE IF l = to THEN 1 ELSE 0
<1>1. /\ Len(list'[from]) = Len(list[from]) - 1
      /\ Len(list'[to]) = Len(list[to]) + 1
      /\ \A l \in Lists \ {from, to} : list'[l] = list[l]
  BY MovedStep
<1>2. \A l \in Held : l \in Lists /\ Len(list[l]) \in Nat
  BY ListType DEF Held, Lists, Queues
<1>3. from # to BY DEF Moved
<1>4. ASSUME NEW l \in Held PROVE Len(list'[l]) = Len(list[l]) + d(l)
  <2>1. CASE l = from BY <1>1, <1>2, <2>1
  <2>2. CASE l = to BY <1>1, <1>2, <1>3, <2>2
  <2>3. CASE l \notin {from, to}
    <3>1. list'[l] = list[l] /\ Len(list[l]) \in Nat BY <1>1, <1>2, <2>3
    <3>2. d(l) = 0 BY <2>3
    <3> HIDE DEF d
    <3> QED BY <3>1, <3>2
  <2> QED BY <2>1, <2>2, <2>3
<1>5. /\ Len(list'["BE"]) = Len(list["BE"]) + d("BE")
      /\ Len(list'["VI"]) = Len(list["VI"]) + d("VI")
      /\ Len(list'["VO"]) = Len(list["VO"]) + d("VO")
      /\ Len(list'["mgmt"]) = Len(list["mgmt"]) + d("mgmt")
      /\ Len(list'["reset"]) = Len(list["reset"]) + d("reset")
  <2> HIDE DEF d
  <2> QED BY <1>4 DEF Held
<1>6. /\ Len(list["BE"]) \in Int /\ Len(list["VI"]) \in Int /\ Len(list["VO"]) \in Int
      /\ Len(list["mgmt"]) \in Int /\ Len(list["reset"]) \in Int
      /\ d("BE") \in Int /\ d("VI") \in Int /\ d("VO") \in Int
      /\ d("mgmt") \in Int /\ d("reset") \in Int
  BY <1>2 DEF Held
<1>7. d("BE") + d("VI") + d("VO") + d("mgmt") + d("reset")
        = (IF to \in Held THEN 1 ELSE 0) - (IF from \in Held THEN 1 ELSE 0)
  BY <1>3 DEF Held
<1> HIDE DEF d
<1>8. HeldLen' = HeldLen + (d("BE") + d("VI") + d("VO") + d("mgmt") + d("reset"))
  <2>1. HeldLen' = (Len(list["BE"]) + d("BE")) + (Len(list["VI"]) + d("VI"))
                     + (Len(list["VO"]) + d("VO")) + (Len(list["mgmt"]) + d("mgmt"))
                     + (Len(list["reset"]) + d("reset"))
    BY <1>5, Zenon DEF HeldLen
  <2> DEFINE a == Len(list["BE"])   da == d("BE")
             b == Len(list["VI"])   db == d("VI")
             c == Len(list["VO"])   dc == d("VO")
             x == Len(list["mgmt"]) dx == d("mgmt")
             y == Len(list["reset"]) dy == d("reset")
  <2>2. /\ a \in Int /\ b \in Int /\ c \in Int /\ x \in Int /\ y \in Int
        /\ da \in Int /\ db \in Int /\ dc \in Int /\ dx \in Int /\ dy \in Int
    BY <1>6
  <2>3. HeldLen = a + b + c + x + y BY Zenon DEF HeldLen
  <2>4. HeldLen' = (a + da) + (b + db) + (c + dc) + (x + dx) + (y + dy) BY <2>1, Zenon
  <2> HIDE DEF a, b, c, x, y, da, db, dc, dx, dy
  <2>5. HeldLen' = HeldLen + (da + db + dc + dx + dy) BY <2>2, <2>3, <2>4
  <2> QED BY <2>5, Zenon DEF da, db, dc, dx, dy
<1>9. HeldLen \in Int BY <1>6 DEF HeldLen
<1> QED BY <1>7, <1>8, <1>9
(* The references of the others are one for each frame on these lists, and *)
(* one for the frame the tasklet is releasing.                             *)
LEMMA OtherRefsAre ==
  /\ OtherRefs = HeldLen + (IF tpc = "free" THEN 1 ELSE 0)
  /\ OtherRefs' = HeldLen' + (IF tpc' = "free" THEN 1 ELSE 0)
BY DEF OtherRefs, HeldLen

(* A reference covers every frame after every step. *)
LEMMA RefsStep ==
  ASSUME IInv, IInv', RefsCover, [Next]_vars, "single" \notin StartErrors
  PROVE  RefsCover'
<1> DEFINE n(l) == Len(list[l])
<1>t. TypeOK /\ left \in Nat /\ refs \in Int BY InvFacts
<1>n. /\ n("BE") \in Nat /\ n("VI") \in Nat /\ n("VO") \in Nat /\ n("pool") \in Nat
      /\ n("mgmt") \in Nat /\ n("reset") \in Nat /\ n("sender") \in Nat
  BY InvFacts DEF Lists, Queues
<1>l. {"BE", "VI", "VO", "pool", "sender", "mgmt", "tasklet", "reset"} \subseteq Lists
  BY DEF Lists, Queues
<1>u. Queues = {"BE", "VI", "VO"} BY DEF Queues
<1>i. /\ OtherRefs \in Int /\ SenderRefs \in Int
      /\ spc \in {"start", "panic"} => n("sender") <= left
  <2>1. OtherRefs \in Int BY <1>n DEF OtherRefs
  <2>2. spc \in {"start", "panic"} => n("sender") <= left BY InvFacts DEF SenderShape
  <2>3. spc \in {"idle", "check", "requeued", "get", "encap", "alloc", "start", "fail", "panic"}
    BY <1>t DEF TypeOK, HostTypes
  <2>4. SenderRefs \in Int BY <2>3, <1>n, <1>t, SenderRefsAre DEF Min2
  <2> QED BY <2>1, <2>2, <2>4
<1>h. HeldLen \in Int BY <1>n DEF HeldLen
<1>r. refs >= OtherRefs + SenderRefs
  BY <1>i DEF RefsCover
<1>k. /\ spc' \in {"check", "requeued", "get", "encap", "alloc"} => SenderRefs' = 1
      /\ spc' = "idle" => SenderRefs' = 0
      /\ spc' = "fail" => SenderRefs' = Len(list'["sender"])
      /\ spc' \in {"start", "panic"} => SenderRefs' = Min2(left', Len(list'["sender"]))
  BY DEF SenderRefs
<1>g. SUFFICES refs' >= SenderRefs' + OtherRefs'
  BY DEF RefsCover
(* Steps that change no frame's place. *)
<1>1. ASSUME UNCHANGED <<refs, spc, left, tpc>>, UNCHANGED list
      PROVE  refs' >= SenderRefs' + OtherRefs'
  BY <1>1, <1>r, <1>i, SenderKeeps, OthersKeep
<1>2. CASE UNCHANGED vars BY <1>2, <1>1 DEF vars
<1>3. CASE CheckDepth \/ Retry
  <2>1. UNCHANGED <<refs, list, tpc>> /\ SenderRefs = 1 /\ SenderRefs' = 1
    BY <1>3, <1>k, SenderRefsAre DEF CheckDepth, Retry, taskletVars
  <2>2. OtherRefs' = OtherRefs BY <2>1, OthersKeep
  <2> QED BY <2>1, <2>2, <1>r, <1>i
<1>4. CASE (\E q \in Queues : HwDone(q)) \/ ResetStart \/ ResetWake
  BY <1>4, <1>1 DEF HwDone, ResetStart, ResetWake, senderVars, taskletVars
<1>5. CASE TxStart \/ TxQueue \/ TxWake
  <2>1. UNCHANGED <<refs, list, spc, left>> /\ tpc # "free" /\ tpc' # "free"
    BY <1>5 DEF TxStart, TxQueue, TxWake, senderVars
  <2>2. OtherRefs' = OtherRefs BY <2>1, Zenon DEF OtherRefs
  <2> QED BY <2>1, <2>2, <1>r, <1>i, SenderKeeps

(* Steps of the sender that move no frame. *)
<1>6. ASSUME NEW p \in Packets, Xmit(p) PROVE refs' >= SenderRefs' + OtherRefs'
  <2>1. /\ refs' = refs + 1 /\ UNCHANGED <<list, tpc>> /\ SenderRefs = 0 /\ SenderRefs' = 1
    BY <1>6, <1>k, SenderRefsAre DEF Xmit, taskletVars
  <2>2. OtherRefs' = OtherRefs BY <2>1, Zenon DEF OtherRefs
  <2> QED BY <2>1, <2>2, <1>r, <1>i, <1>t
<1>7. CASE Encap
  <2>1. /\ UNCHANGED <<refs, list, tpc>> /\ SenderRefs = 1 /\ n("sender") <= 1
        /\ spc' = "fail" \/ spc' = "alloc" \/ (spc' = "start" /\ left' = Frags(pkt))
    BY <1>7, SenderRefsAre, InvFacts DEF Encap, taskletVars, SenderShape
  <2>2. OtherRefs' = OtherRefs BY <2>1, OthersKeep
  <2>3. SenderRefs' <= 1 /\ SenderRefs' \in Int
    <3>1. CASE spc' = "fail" BY <3>1, <2>1, <1>k, <1>n
    <3>2. CASE spc' = "alloc" BY <3>2, <1>k
    <3>3. CASE spc' = "start" /\ left' = Frags(pkt)
      <4>1. left' \in Nat BY InvFacts, <1>7, FrameAssumption, <3>3 DEF Encap, SenderShape
      <4>2. SenderRefs' = Min2(left', n("sender")) BY <3>3, <2>1, <1>k
      <4> QED BY <4>1, <4>2, <2>1, <1>n DEF Min2
    <3> QED BY <2>1, <3>1, <3>2, <3>3
  <2>4. refs' = refs BY <2>1
  <2>5. SenderRefs = 1 BY <2>1
  <2>6. refs \in Int /\ OtherRefs' \in Int /\ refs >= OtherRefs' + 1
    BY <2>2, <2>5, <1>r, <1>i, <1>t
  <2> DEFINE a == SenderRefs'
             b == OtherRefs'
             c == refs'
  <2>7. a <= 1 /\ a \in Int /\ b \in Int /\ c \in Int /\ c >= b + 1
    BY <2>3, <2>4, <2>6
  <2> HIDE DEF a, b, c
  <2>8. c >= a + b BY <2>7
  <2> QED BY <2>8 DEF a, b, c
<1>8. CASE StartNull
  <2>1. /\ UNCHANGED <<refs, list, tpc, left>> /\ spc = "start" /\ spc' = "panic"
    BY <1>8 DEF StartNull, taskletVars
  <2>2. OtherRefs' = OtherRefs BY <2>1, OthersKeep
  <2>3. SenderRefs' = SenderRefs BY <2>1, <1>k, SenderRefsAre
  <2> QED BY <2>1, <2>2, <2>3, <1>r, <1>i
<1>9. CASE Started
  <2>1. /\ UNCHANGED <<refs, list, tpc>> /\ spc = "start" /\ SenderRefs' = 0
    BY <1>9, <1>k DEF Started, taskletVars
  <2>2. OtherRefs' = OtherRefs BY <2>1, OthersKeep
  <2>3. SenderRefs >= 0 BY <2>1, SenderRefsAre, <1>n, <1>t DEF Min2
  <2>4. refs' = refs /\ SenderRefs' = 0 BY <2>1
  <2> QED BY <2>2, <2>3, <2>4, <1>r, <1>i, <1>t
(* Steps between the pool and the sender. *)
<1>10. CASE GetBuf
  <2>1. UNCHANGED <<refs, tpc>> /\ SenderRefs = 1 /\ SenderRefs' = 1
    BY <1>10, <1>k, SenderRefsAre DEF GetBuf, taskletVars
  <2>2. \A l \in Queues \cup {"mgmt", "reset"} : list'[l] = list[l]
    <3>1. CASE Moved("pool", "sender") BY <3>1, <1>t, <1>l, <1>u, MovedStep
    <3>2. CASE UNCHANGED list BY <3>2
    <3> QED BY <1>10, <3>1, <3>2, Movements
  <2> QED BY <2>1, <2>2, OthersKeep, <1>r, <1>i
<1>11. CASE AllocFrags
  <2>0. Frags(pkt) \in Nat \ {0} /\ left = Frags(pkt) /\ n("sender") <= 1
    BY <1>11, InvFacts, FrameAssumption DEF AllocFrags, SenderShape
  <2>1. /\ Len(list'["sender"]) = n("sender") + (Frags(pkt) - 1)
        /\ \A l \in Lists \ {"pool", "sender"} : list'[l] = list[l]
    BY <1>11, <2>0, <1>t, AllocFragsStep
  <2>2. /\ refs' = refs + (Frags(pkt) - 1) /\ UNCHANGED <<tpc, left>>
        /\ SenderRefs = 1 /\ spc' = "start"
    BY <1>11, SenderRefsAre DEF AllocFrags, taskletVars
  <2>3. OtherRefs' = OtherRefs BY <2>1, <2>2, <1>l, <1>u, OthersKeep
  <2>4. SenderRefs' <= Frags(pkt) /\ SenderRefs' \in Int
    BY <2>0, <2>1, <2>2, <1>k, <1>n DEF Min2
  <2> QED BY <2>0, <2>2, <2>3, <2>4, <1>r, <1>i, <1>t
<1>12. CASE AllocShort
  <2>1. Len(list'["sender"]) = 0 /\ \A l \in Lists \ {"pool", "sender"} : list'[l] = list[l]
    BY <1>12, <1>t, AllocShortStep
  <2>2. refs' = refs + n("pool") /\ UNCHANGED tpc /\ SenderRefs = 1 /\ spc' = "fail"
    BY <1>12, SenderRefsAre DEF AllocShort, taskletVars
  <2>3. OtherRefs' = OtherRefs BY <2>1, <2>2, <1>l, <1>u, OthersKeep
  <2>4. SenderRefs' = 0 BY <2>1, <2>2, <1>k
  <2> QED BY <2>2, <2>3, <2>4, <1>r, <1>i, <1>n, <1>t
<1>13. CASE StartFails
  <2>1. /\ Len(list'["sender"]) = n("sender")
        /\ \A l \in Lists \ {"sender"} : list'[l] = list[l]
    BY <1>13, <1>t, StartFailsStep
  <2>2. UNCHANGED <<refs, tpc>> /\ spc = "start" /\ spc' = "fail"
    BY <1>13 DEF StartFails, taskletVars
  <2>3. OtherRefs' = OtherRefs BY <2>1, <2>2, <1>l, <1>u, OthersKeep
  <2>4. SenderRefs' = SenderRefs
    BY <2>1, <2>2, <1>k, <1>i, <1>n, <1>t, SenderRefsAre DEF Min2
  <2> QED BY <2>2, <2>3, <2>4, <1>r, <1>i
<1>14. CASE HardstartFail
  <2>1. Len(list'["sender"]) = 0 /\ \A l \in Lists \ {"pool", "sender"} : list'[l] = list[l]
    BY <1>14, <1>t, FailStep
  <2>2. refs' = refs - n("sender") /\ UNCHANGED tpc /\ SenderRefs = n("sender") /\ spc' = "idle"
    BY <1>14, SenderRefsAre DEF HardstartFail, taskletVars
  <2>3. OtherRefs' = OtherRefs BY <2>1, <2>2, <1>l, <1>u, OthersKeep
  <2>4. SenderRefs' = 0 BY <2>2, <1>k
  <2> QED BY <2>2, <2>3, <2>4, <1>r, <1>i, <1>n, <1>t
(* Steps that put a frame on a queue. *)
<1>15. CASE StartFrame
  <2>0. Moved("sender", Queue(pkt)) /\ Queue(pkt) \in {"BE", "VI"} BY <1>15, Movements
  <2>1. /\ Len(list'["sender"]) = n("sender") - 1
        /\ Len(list'[Queue(pkt)]) = n(Queue(pkt)) + 1
        /\ \A l \in Lists \ {"sender", Queue(pkt)} : list'[l] = list[l]
    BY <2>0, <1>t, MovedStep
  <2>2. UNCHANGED <<refs, tpc>> /\ spc = "start" /\ spc' = "start" /\ left' = left - 1 /\ left > 0
    BY <1>15 DEF StartFrame, taskletVars
  <2>3. OtherRefs' = OtherRefs + 1
    BY <2>0, <2>2, <1>t, <1>h, HeldMoves, OtherRefsAre DEF Held
  <2>4. SenderRefs' = SenderRefs - 1
    BY <2>1, <2>2, <1>k, <1>i, <1>n, <1>t, SenderRefsAre DEF Min2
  <2> QED BY <2>2, <2>3, <2>4, <1>r, <1>i
<1>16. CASE MgtStart
  <2>1. refs' = refs + 1 /\ UNCHANGED <<tpc, spc, left>>
    BY <1>16 DEF MgtStart, taskletVars, senderVars
  <2>2. CASE UNCHANGED list
    BY <2>1, <2>2, OthersKeep, SenderKeeps, <1>r, <1>i, <1>t
  <2>3. CASE Moved("pool", "mgmt")
    <3>1. /\ Len(list'["mgmt"]) = n("mgmt") + 1
          /\ \A l \in Lists \ {"pool", "mgmt"} : list'[l] = list[l]
      BY <2>3, <1>t, MovedStep
    <3>2. OtherRefs' = OtherRefs + 1 BY <2>1, <2>3, <1>t, <1>h, HeldMoves, OtherRefsAre DEF Held
    <3>3. SenderRefs' = SenderRefs BY <3>1, <2>1, <1>l, SenderKeeps
    <3> QED BY <2>1, <3>2, <3>3, <1>r, <1>i, <1>t
  <2> QED BY <1>16, <2>2, <2>3, Movements
<1>17. CASE MgtSend
  <2>0. PICK m \in Mgmts : Queue(m) \in Queues /\ Moved("mgmt", Queue(m))
    BY <1>17, Movements
  <2>1. \A l \in Lists \ {"mgmt", Queue(m)} : list'[l] = list[l]
    BY <2>0, <1>t, MovedStep
  <2>2. UNCHANGED <<refs, tpc, spc, left>> BY <1>17 DEF MgtSend, taskletVars, senderVars
  <2>3. OtherRefs' = OtherRefs BY <2>0, <2>2, <1>t, <1>h, <1>u, HeldMoves, OtherRefsAre DEF Held
  <2>4. SenderRefs' = SenderRefs BY <2>0, <2>1, <2>2, <1>l, <1>u, SenderKeeps
  <2> QED BY <2>2, <2>3, <2>4, <1>r, <1>i
<1>18. CASE MgtFails
  <2>0. Moved("mgmt", "pool") BY <1>18, Movements
  <2>1. /\ Len(list'["mgmt"]) = n("mgmt") - 1
        /\ \A l \in Lists \ {"mgmt", "pool"} : list'[l] = list[l]
    BY <2>0, <1>t, MovedStep
  <2>2. refs' = refs - 1 /\ UNCHANGED <<tpc, spc, left>>
    BY <1>18 DEF MgtFails, taskletVars, senderVars
  <2>3. OtherRefs' = OtherRefs - 1 BY <2>0, <2>2, <1>t, <1>h, HeldMoves, OtherRefsAre DEF Held
  <2>4. SenderRefs' = SenderRefs BY <2>1, <2>2, <1>l, SenderKeeps
  <2> QED BY <2>2, <2>3, <2>4, <1>r, <1>i, <1>t
(* Steps that take a frame off a queue, or release it. *)
<1>19. CASE TxReap
  <2>1. UNCHANGED <<refs, spc, left>> /\ tpc = "reap" BY <1>19 DEF TxReap, senderVars
  <2>2. CASE tpc' = "queue" /\ UNCHANGED list
    <3>1. OtherRefs' = OtherRefs BY <2>1, <2>2, Zenon DEF OtherRefs
    <3> QED BY <2>1, <2>2, <3>1, SenderKeeps, <1>r, <1>i
  <2>3. CASE tpc' = "free" /\ Order[tq] \in Queues /\ Moved(Order[tq], "tasklet")
    <3>1. /\ Len(list'[Order[tq]]) = n(Order[tq]) - 1
          /\ \A l \in Lists \ {Order[tq], "tasklet"} : list'[l] = list[l]
      BY <2>3, <1>t, MovedStep
    <3>2. OtherRefs' = OtherRefs
      BY <2>1, <2>3, <1>t, <1>h, <1>u, HeldMoves, OtherRefsAre DEF Held
    <3>3. SenderRefs' = SenderRefs BY <3>1, <2>1, <2>3, <1>l, <1>u, SenderKeeps
    <3> QED BY <2>1, <3>2, <3>3, <1>r, <1>i
  <2> QED BY <1>19, <2>2, <2>3, Movements
<1>20. CASE TxFree
  <2>1. /\ refs' = refs - 1 /\ UNCHANGED <<list, spc, left>> /\ tpc = "free" /\ tpc' = "put"
    BY <1>20 DEF TxFree, senderVars
  <2>2. OtherRefs' = OtherRefs - 1 BY <2>1, <1>n DEF OtherRefs
  <2> QED BY <2>1, <2>2, SenderKeeps, <1>r, <1>i, <1>t
<1>21. CASE TxPut
  <2>0. Moved("tasklet", "pool") BY <1>21, Movements
  <2>1. \A l \in Lists \ {"tasklet", "pool"} : list'[l] = list[l]
    BY <2>0, <1>t, MovedStep
  <2>2. UNCHANGED <<refs, spc, left>> /\ tpc = "put" /\ tpc' = "reap"
    BY <1>21 DEF TxPut, senderVars
  <2>3. OtherRefs' = OtherRefs BY <2>0, <2>2, <1>t, <1>h, HeldMoves, OtherRefsAre DEF Held
  <2>4. SenderRefs' = SenderRefs BY <2>1, <2>2, <1>l, SenderKeeps
  <2> QED BY <2>2, <2>3, <2>4, <1>r, <1>i
<1>22. CASE Drain
  <2>1. UNCHANGED <<refs, spc, left, tpc>> BY <1>22 DEF Drain, senderVars, taskletVars
  <2>2. CASE UNCHANGED list BY <2>1, <2>2, <1>1
  <2>3. CASE Order[rq] \in Queues /\ Moved(Order[rq], "reset")
    <3>1. /\ Len(list'[Order[rq]]) = n(Order[rq]) - 1 /\ Len(list'["reset"]) = n("reset") + 1
          /\ \A l \in Lists \ {Order[rq], "reset"} : list'[l] = list[l]
      BY <2>3, <1>t, MovedStep
    <3>2. OtherRefs' = OtherRefs
      BY <2>1, <2>3, <1>t, <1>h, <1>u, HeldMoves, OtherRefsAre DEF Held
    <3>3. SenderRefs' = SenderRefs BY <3>1, <2>1, <2>3, <1>l, <1>u, SenderKeeps
    <3> QED BY <2>1, <3>2, <3>3, <1>r, <1>i
  <2> QED BY <1>22, <2>2, <2>3, Movements
<1>23. CASE DrainFree
  <2>0. Moved("reset", "pool") BY <1>23, Movements
  <2>1. /\ Len(list'["reset"]) = n("reset") - 1
        /\ \A l \in Lists \ {"reset", "pool"} : list'[l] = list[l]
    BY <2>0, <1>t, MovedStep
  <2>2. refs' = refs - 1 /\ UNCHANGED <<tpc, spc, left>>
    BY <1>23 DEF DrainFree, taskletVars, senderVars
  <2>3. OtherRefs' = OtherRefs - 1 BY <2>0, <2>2, <1>t, <1>h, HeldMoves, OtherRefsAre DEF Held
  <2>4. SenderRefs' = SenderRefs BY <2>1, <2>2, <1>l, SenderKeeps
  <2> QED BY <2>2, <2>3, <2>4, <1>r, <1>i, <1>t
<1> QED BY <1>2, <1>3, <1>4, <1>5, <1>6, <1>7, <1>8, <1>9, <1>10, <1>11, <1>12, <1>13, <1>14,
           <1>15, <1>16, <1>17, <1>18, <1>19, <1>20, <1>21, <1>22, <1>23
        DEF Next, Sender, Tasklet, Reset

-----------------------------------------------------------------------------
(* The theorems.                                                           *)

(* Every variable of the driver keeps its type, whatever is sent, finished *)
(* or reset, and with every error of ath_tx_start.                         *)
THEOREM TypeCorrect == Spec => []TypeOK
<1>1. IInv => TypeOK BY DEF IInv
<1> QED BY InvInit, InvStep, <1>1, PTL DEF Spec

(* If the start of an unfragmented frame cannot fail, no transmit buffer   *)
(* is ever lost, or on two lists, for any number of buffers and packets.   *)
THEOREM NoBufferLost ==
  ASSUME "single" \notin StartErrors
  PROVE  Spec => []BuffersConserved
<1>1. Init => IInv /\ BuffersConserved BY InvInit, ConservedInit
<1>2. IInv /\ BuffersConserved /\ [Next]_vars => (IInv /\ BuffersConserved)'
  BY InvStep, ConservedStep
<1> QED BY <1>1, <1>2, PTL DEF Spec

(* Under the same condition a frame's node outlives the frame.             *)
THEOREM NodeOutlivesFrames ==
  ASSUME "single" \notin StartErrors
  PROVE  Spec => []RefsCover
<1>1. Init => IInv /\ RefsCover
  <2>1. Init => RefsCover
    <3> SUFFICES ASSUME Init PROVE SenderRefs = 0 /\ OtherRefs = 0 /\ refs = 0
      BY DEF RefsCover
    <3>1. SenderRefs = 0 /\ refs = 0 /\ tpc = "idle" BY SenderRefsAre DEF Init
    <3>2. \A l \in Lists \ {"pool"} : list[l] = << >> BY DEF Init
    <3>3. /\ Len(list["BE"]) = 0 /\ Len(list["VI"]) = 0 /\ Len(list["VO"]) = 0
          /\ Len(list["mgmt"]) = 0 /\ Len(list["reset"]) = 0
      BY <3>2 DEF Lists, Queues
    <3> QED BY <3>1, <3>3 DEF OtherRefs
  <2> QED BY <2>1, InvInit
<1>2. IInv /\ RefsCover /\ [Next]_vars => (IInv /\ RefsCover)'
  BY InvStep, RefsStep
<1> QED BY <1>1, <1>2, PTL DEF Spec

(* If the start of an unfragmented frame cannot fail, the tail drop bounds *)
(* the packets in the video queue by TAIL_DROP_COUNT and one packet, for   *)
(* every value of TAIL_DROP_COUNT, although it reads the depth without a   *)
(* lock and ath_mgtstart adds frames of its own.                           *)
THEOREM VideoQueueBounded ==
  ASSUME "single" \notin StartErrors
  PROVE  Spec => []DepthBounded
<1>1. Init => IInv /\ BuffersConserved /\ DepthInv
  <2>1. Init => DepthInv
    <3> SUFFICES ASSUME Init PROVE DepthInv
      OBVIOUS
    <3>0. TypeOK /\ Len(list["VI"]) = 0 BY InvInit DEF IInv, Init, Lists, Queues
    <3>1. PacketDepth = 0 BY <3>0, PacketDepthType
    <3>2. PICK p \in Packets : Frags(p) \in Nat BY FrameAssumption
    <3>3. 0 <= TailDrop + Frags(p) BY <3>2, ParameterAssumption
    <3> QED BY <3>1, <3>2, <3>3 DEF Init, DepthInv, DepthBounded
  <2> QED BY <2>1, InvInit, ConservedInit
<1>2. IInv /\ BuffersConserved /\ DepthInv /\ [Next]_vars
        => (IInv /\ BuffersConserved /\ DepthInv)'
  BY InvStep, ConservedStep, DepthStep
<1>3. DepthInv => DepthBounded BY DEF DepthInv
<1> QED BY <1>1, <1>2, <1>3, PTL DEF Spec
=============================================================================
