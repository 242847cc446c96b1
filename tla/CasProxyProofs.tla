--------------------------- MODULE CasProxyProofs ---------------------------
(***************************************************************************)
(* Proofs about the client of a CasProxyServer, for any number of calls    *)
(* and faults: what is packed is unpacked again, and nothing that is cut;  *)
(* a connection is read, written and answered for as long as it is open;   *)
(* and callers see RemoteCalls.                                            *)
(***************************************************************************)
EXTENDS CasProxyClient, FiniteSetTheorems, SequenceTheorems, WellFoundedInduction, TLAPS

-----------------------------------------------------------------------------
(* Induction.  The numbers are well ordered.                               *)

\* A non-empty set of natural numbers has a least element.
LEMMA LeastNumber ==
  ASSUME NEW T \in SUBSET Nat, T # {}
  PROVE  \E n \in T : \A m \in T : n <= m
<1>1. PICK n \in T : \A m \in T : ~(<<m, n>> \in OpToRel(<, Nat))
  BY NatLessThanWellFounded, WFMin
<1>2. OpToRel(<, Nat) = {ss \in Nat \X Nat : ss[1] < ss[2]}
  BY Zenon DEF OpToRel
<1>3. PICK R : R = OpToRel(<, Nat)
  OBVIOUS
<1>4. R = {ss \in Nat \X Nat : ss[1] < ss[2]} /\ \A m \in T : <<m, n>> \notin R
  BY <1>1, <1>2, <1>3, Zenon
<1>5. \A m \in T : m \in Nat /\ n \in Nat /\ ~(m < n)
  BY <1>4
<1> QED
  BY <1>5

\* A set of the numbers up to a limit, with 0 and with every number's successor, is
\* all of them.
LEMMA Induction ==
  ASSUME NEW L \in Nat, NEW T \in SUBSET (0..L), 0 \in T,
         \A n \in T : n < L => n + 1 \in T
  PROVE  T = 0..L
<1> SUFFICES ASSUME (0..L) \ T # {} PROVE FALSE
  OBVIOUS
<1> DEFINE U == (0..L) \ T
<1>1. PICK n \in U : \A m \in U : n <= m
  <2>1. U \in SUBSET Nat /\ U # {}
    OBVIOUS
  <2> HIDE DEF U
  <2> QED
    BY <2>1, LeastNumber
<1>2. n - 1 \in 0..L /\ n - 1 \in T /\ n - 1 < L
  BY <1>1
<1> QED
  BY <1>1, <1>2

-----------------------------------------------------------------------------
(* Packing and unpacking.                                                  *)

Names ==
  {"apiReturn", "hContext", "hCard", "readers", "readersLength", "dwActiveProtocol",
   "recvBuffer", "recvLength", "isRecvPciNull", "recvPciProtocol", "recvPciLength",
   "attrBuffer", "attrLength"}

Fields ==
  {f \in [name : Names, kind : {"number", "flag", "buffer"}, unless : Names \cup {"never"}] :
     f.unless # "never" => f.kind # "flag"}

\* Fields whose names differ, and of which one that may be left out comes after
\* the flag that says so.
WellFormed(fields) ==
  /\ fields \in Seq(Fields)
  /\ \A i, j \in DOMAIN fields : fields[i].name = fields[j].name => i = j
  /\ \A i \in DOMAIN fields :
       fields[i].unless # "never" =>
         \E j \in 1..(i - 1) : fields[j].name = fields[i].unless /\ fields[j].kind = "flag"

\* What can be put into a field.
Content(field) ==
  CASE field.kind = "number" -> Nat
    [] field.kind = "flag"   -> BOOLEAN
    [] field.kind = "buffer" -> Seq(Nat)

\* Values for these fields; one that is left out has its default.
Values(fields, v) ==
  /\ v = [name \in {f.name : f \in ToSet(fields)} |-> v[name]]
  /\ \A i \in DOMAIN fields :
       v[fields[i].name] \in IF IsSent(fields[i], v) THEN Content(fields[i])
                             ELSE {Default(fields[i])}

\* The packet grows by one field after the other.
LEMMA PackedInOrder ==
  ASSUME NEW fields, NEW v, Len(fields) \in Nat
  PROVE  \E f :
           /\ f[0] = <<>>
           /\ \A i \in 1..Len(fields) :
                f[i] = IF IsSent(fields[i], v) THEN f[i - 1] \o Cells(fields[i], v) ELSE f[i - 1]
           /\ Pack(fields, v) = f[Len(fields)]
<1> DEFINE Next1(c, i) == IF IsSent(fields[i], v) THEN c \o Cells(fields[i], v) ELSE c
           F(f, n) == f = [i \in 0..n |-> IF i = 0 THEN <<>> ELSE Next1(f[i - 1], i)]
           T == {n \in 0..Len(fields) : \E f : F(f, n)}
<1> HIDE DEF Next1
<1>1. 0 \in T
  <2>1. F([i \in 0..0 |-> <<>>], 0)
    OBVIOUS
  <2>2. \E f : F(f, 0)
    BY <2>1, Zenon
  <2> QED
    BY <2>2
<1>2. ASSUME NEW n \in T, n < Len(fields) PROVE n + 1 \in T
  <2>1. PICK f : F(f, n)
    BY <1>2
  <2> DEFINE g == [i \in 0..(n + 1) |-> IF i = n + 1 THEN Next1(f[n], n + 1) ELSE f[i]]
  <2>2. F(g, n + 1)
    BY <2>1
  <2> HIDE DEF g
  <2>3. \E h : F(h, n + 1)
    BY <2>2, Zenon
  <2>4. n + 1 \in 0..Len(fields)
    BY <1>2
  <2> QED
    BY <2>3, <2>4
<1>3. T = 0..Len(fields)
  <2>1. T \in SUBSET (0..Len(fields))
    OBVIOUS
  <2> HIDE DEF T
  <2> QED
    BY <1>1, <1>2, <2>1, Induction
<1>4. PICK f : F(f, Len(fields))
  BY <1>3
<1> DEFINE cells == CHOOSE g : F(g, Len(fields))
<1>5. F(cells, Len(fields))
  BY <1>4
<1>6. Pack(fields, v) = cells[Len(fields)]
  BY DEF Pack, Next1
<1> HIDE DEF cells
<1>7. cells[0] = <<>> /\ \A i \in 1..Len(fields) : cells[i] = Next1(cells[i - 1], i)
  BY <1>5
<1> QED
  BY <1>6, <1>7, Zenon DEF Next1

\* And is read one field after the other.
LEMMA ReadInOrder ==
  ASSUME NEW fields, NEW cells, Len(fields) \in Nat
  PROVE  \E f :
           /\ f[0] = [ok |-> TRUE, rest |-> cells, v |-> Defaults(fields)]
           /\ \A i \in 1..Len(fields) : f[i] = Read(f[i - 1], fields[i])
           /\ Unpack(fields, cells) = f[Len(fields)]
<1> DEFINE first == [ok |-> TRUE, rest |-> cells, v |-> Defaults(fields)]
           F(f, n) == f = [i \in 0..n |-> IF i = 0 THEN first ELSE Read(f[i - 1], fields[i])]
           T == {n \in 0..Len(fields) : \E f : F(f, n)}
<1> HIDE DEF first
<1>1. 0 \in T
  <2>1. F([i \in 0..0 |-> first], 0)
    OBVIOUS
  <2>2. \E f : F(f, 0)
    BY <2>1, Zenon
  <2> QED
    BY <2>2
<1>2. ASSUME NEW n \in T, n < Len(fields) PROVE n + 1 \in T
  <2>1. PICK f : F(f, n)
    BY <1>2
  <2> DEFINE g == [i \in 0..(n + 1) |-> IF i = n + 1 THEN Read(f[n], fields[n + 1]) ELSE f[i]]
  <2>2. F(g, n + 1)
    BY <2>1
  <2> HIDE DEF g
  <2>3. \E h : F(h, n + 1)
    BY <2>2, Zenon
  <2>4. n + 1 \in 0..Len(fields)
    BY <1>2
  <2> QED
    BY <2>3, <2>4
<1>3. T = 0..Len(fields)
  <2>1. T \in SUBSET (0..Len(fields))
    OBVIOUS
  <2> HIDE DEF T
  <2> QED
    BY <1>1, <1>2, <2>1, Induction
<1>4. PICK f : F(f, Len(fields))
  BY <1>3
<1> DEFINE after == CHOOSE g : F(g, Len(fields))
<1>5. F(after, Len(fields))
  BY <1>4
<1>6. Unpack(fields, cells) = after[Len(fields)]
  BY DEF Unpack, first
<1> HIDE DEF after
<1>7. after[0] = first /\ \A i \in 1..Len(fields) : after[i] = Read(after[i - 1], fields[i])
  BY <1>5
<1> QED
  BY <1>6, <1>7, Zenon DEF first

\* Reading one field: the cells of what was written give it back, and some of them
\* alone do not.
LEMMA FieldIsRead ==
  ASSUME NEW f \in Fields,
         NEW v, v[f.name] \in Content(f),
         NEW w, IsSent(f, w), NEW R \in Seq(Nat)
  PROVE  LET K == Cells(f, v)
             r == Read([ok |-> TRUE, rest |-> R, v |-> w], f)
         IN  /\ K \in Seq(Nat) /\ Len(K) > 0
             /\ Len(K) <= Len(R) /\ (\A k \in 1..Len(K) : R[k] = K[k]) =>
                  r = [ok |-> TRUE, rest |-> SubSeq(R, Len(K) + 1, Len(R)),
                       v |-> [w EXCEPT ![f.name] = v[f.name]]]
             /\ Len(R) < Len(K) /\ (\A k \in 1..Len(R) : R[k] = K[k]) => ~r.ok
<1> DEFINE x == v[f.name]
           K == Cells(f, v)
           q == [ok |-> TRUE, rest |-> R, v |-> w]
           r == Read(q, f)
           Whole == Len(K) <= Len(R) /\ (\A k \in 1..Len(K) : R[k] = K[k]) =>
                      r = [ok |-> TRUE, rest |-> SubSeq(R, Len(K) + 1, Len(R)),
                           v |-> [w EXCEPT ![f.name] = x]]
           Short == Len(R) < Len(K) /\ (\A k \in 1..Len(R) : R[k] = K[k]) => ~r.ok
<1> SUFFICES K \in Seq(Nat) /\ Len(K) > 0 /\ Whole /\ Short
  BY Zenon
<1>1. CASE f.kind = "number"
  <2>1. x \in Nat /\ K = <<x>>
    BY <1>1 DEF Content, Cells
  <2>2. r = IF R = <<>> \/ 1 > Len(R) THEN [q EXCEPT !.ok = FALSE]
            ELSE [ok |-> TRUE, rest |-> SubSeq(R, 2, Len(R)), v |-> [w EXCEPT ![f.name] = R[1]]]
    BY <1>1 DEF Read
  <2> HIDE DEF x, K, r
  <2>3. K \in Seq(Nat) /\ Len(K) = 1 /\ K[1] = x
    BY <2>1
  <2>4. Len(R) < 1 => R = <<>>
    OBVIOUS
  <2>5. Len(R) \in Nat /\ (Len(R) >= 1 => R # <<>>)
    OBVIOUS
  <2>6. CASE R = <<>>
    BY <2>2, <2>3, <2>4, <2>6
  <2>7. CASE R # <<>>
    <3>1. r = [ok |-> TRUE, rest |-> SubSeq(R, 2, Len(R)), v |-> [w EXCEPT ![f.name] = R[1]]]
      BY <2>2, <2>4, <2>5, <2>7
    <3>2. Len(K) + 1 = 2 /\ 1 \in 1..Len(K) /\ ~(Len(R) < Len(K))
      BY <2>3, <2>4, <2>5, <2>7
    <3>3. R[1] = K[1] =>
            r = [ok |-> TRUE, rest |-> SubSeq(R, Len(K) + 1, Len(R)), v |-> [w EXCEPT ![f.name] = x]]
      BY <2>3, <3>1, <3>2
    <3> HIDE DEF q
    <3> QED
      BY <2>3, <3>2, <3>3
  <2> QED
    BY <2>6, <2>7
<1>2. CASE f.kind = "flag"
  <2>1. x \in BOOLEAN /\ K = <<IF x THEN 1 ELSE 0>>
    BY <1>2 DEF Content, Cells
  <2>2. r = IF R = <<>> \/ 1 > Len(R) THEN [q EXCEPT !.ok = FALSE]
            ELSE [ok |-> TRUE, rest |-> SubSeq(R, 2, Len(R)),
                  v |-> [w EXCEPT ![f.name] = R[1] # 0]]
    BY <1>2 DEF Read
  <2> HIDE DEF x, K, r
  <2>3. K \in Seq(Nat) /\ Len(K) = 1 /\ (K[1] # 0) = x
    BY <2>1
  <2>4. Len(R) < 1 => R = <<>>
    OBVIOUS
  <2>5. Len(R) \in Nat /\ (Len(R) >= 1 => R # <<>>)
    OBVIOUS
  <2>6. CASE R = <<>>
    BY <2>2, <2>3, <2>4, <2>6
  <2>7. CASE R # <<>>
    <3>1. r = [ok |-> TRUE, rest |-> SubSeq(R, 2, Len(R)), v |-> [w EXCEPT ![f.name] = R[1] # 0]]
      BY <2>2, <2>4, <2>5, <2>7
    <3>2. Len(K) + 1 = 2 /\ 1 \in 1..Len(K) /\ ~(Len(R) < Len(K))
      BY <2>3, <2>4, <2>5, <2>7
    <3>3. ASSUME R[1] = K[1]
          PROVE  r = [ok |-> TRUE, rest |-> SubSeq(R, Len(K) + 1, Len(R)), v |-> [w EXCEPT ![f.name] = x]]
      <4>1. (R[1] # 0) = x /\ Len(K) + 1 = 2
        BY <2>3, <3>3
      <4> QED
        BY <3>1, <4>1
    <3> HIDE DEF q
    <3> QED
      BY <2>3, <3>2, <3>3
  <2> QED
    BY <2>6, <2>7
<1>3. CASE f.kind = "buffer"
  <2>1. x \in Seq(Nat) /\ K = <<Len(x)>> \o x
    BY <1>3 DEF Content, Cells
  <2>2. r = IF R = <<>> \/ 1 + R[1] > Len(R) THEN [q EXCEPT !.ok = FALSE]
            ELSE [ok |-> TRUE, rest |-> SubSeq(R, 1 + R[1] + 1, Len(R)),
                  v |-> [w EXCEPT ![f.name] = SubSeq(R, 2, 1 + R[1])]]
    BY <1>3 DEF Read
  <2> HIDE DEF x, K, r
  <2>3. /\ K \in Seq(Nat) /\ Len(K) = 1 + Len(x) /\ K[1] = Len(x)
        /\ \A k \in 1..Len(x) : K[k + 1] = x[k]
    BY <2>1
  <2>4. /\ Len(R) \in Nat /\ Len(x) \in Nat
        /\ R = <<>> <=> Len(R) = 0
    BY <2>1
  <2>5. ASSUME Len(K) <= Len(R), \A k \in 1..Len(K) : R[k] = K[k]
        PROVE  r = [ok |-> TRUE, rest |-> SubSeq(R, Len(K) + 1, Len(R)),
                    v |-> [w EXCEPT ![f.name] = x]]
    <3>1. R # <<>> /\ R[1] = Len(x) /\ ~(1 + R[1] > Len(R)) /\ 1 + R[1] + 1 = Len(K) + 1
      BY <2>3, <2>4, <2>5
    <3>2. SubSeq(R, 2, 1 + R[1]) = x
      <4> DEFINE y == SubSeq(R, 2, 1 + Len(x))
      <4>1. 1 + Len(x) <= Len(R) /\ Len(R) \in Nat /\ Len(x) \in Nat
        BY <2>3, <2>4, <2>5
      <4>2. y \in Seq(Nat) /\ Len(y) = Len(x)
        BY <4>1
      <4>3. ASSUME NEW k \in 1..Len(x) PROVE y[k] = x[k]
        <5>1. y[k] = R[k + 1]
          BY <4>1
        <5>2. k + 1 \in 1..Len(K) /\ K[k + 1] = x[k]
          BY <2>3, <4>1
        <5> QED
          BY <2>5, <5>1, <5>2
      <4> HIDE DEF y
      <4>4. y = x
        <5>1. y = [k \in 1..Len(x) |-> y[k]] /\ x = [k \in 1..Len(x) |-> x[k]]
          BY <2>1, <4>2
        <5> QED
          BY <4>3, <5>1, Zenon
      <4> QED
        BY <3>1, <4>4 DEF y
    <3> QED
      BY <2>2, <3>1, <3>2
  <2>6. ASSUME Len(R) < Len(K), \A k \in 1..Len(R) : R[k] = K[k]
        PROVE  ~r.ok
    <3>1. R = <<>> \/ 1 + R[1] > Len(R)
      <4> SUFFICES ASSUME R # <<>> PROVE 1 + R[1] > Len(R)
        OBVIOUS
      <4>1. 1 \in 1..Len(R)
        BY <2>4
      <4>2. R[1] = Len(x)
        BY <2>3, <2>6, <4>1
      <4> QED
        BY <2>3, <2>4, <2>6, <4>2
    <3>2. r = [q EXCEPT !.ok = FALSE]
      BY <2>2, <3>1
    <3> QED
      BY <3>2
  <2> QED
    BY <2>3, <2>4, <2>5, <2>6
<1> QED
  BY <1>1, <1>2, <1>3 DEF Fields

\* Appending leaves what is there.
LEMMA Appended ==
  ASSUME NEW a \in Seq(Nat), NEW b \in Seq(Nat)
  PROVE  /\ Len(a) \in Nat /\ Len(b) \in Nat /\ Len(a \o b) = Len(a) + Len(b)
         /\ \A k \in 1..Len(a) : (a \o b)[k] = a[k]
         /\ \A k \in 1..Len(b) : (a \o b)[Len(a) + k] = b[k]
  OBVIOUS

\* What has been packed stays where it is.
LEMMA PackedCells ==
  ASSUME NEW fields, NEW v, WellFormed(fields), Values(fields, v)
  PROVE  \E c :
           /\ c[0] = <<>>
           /\ \A i \in 1..Len(fields) :
                c[i] = IF IsSent(fields[i], v) THEN c[i - 1] \o Cells(fields[i], v) ELSE c[i - 1]
           /\ Pack(fields, v) = c[Len(fields)]
           /\ \A i \in 0..Len(fields) :
                /\ c[i] \in Seq(Nat) /\ Len(c[i]) <= Len(Pack(fields, v))
                /\ \A k \in 1..Len(c[i]) : c[i][k] = Pack(fields, v)[k]
<1> DEFINE n == Len(fields)
           P == Pack(fields, v)
<1>1. n \in Nat
  BY DEF WellFormed
<1>2. PICK c :
        /\ c[0] = <<>>
        /\ \A i \in 1..n :
             c[i] = IF IsSent(fields[i], v) THEN c[i - 1] \o Cells(fields[i], v) ELSE c[i - 1]
        /\ P = c[n]
  BY <1>1, PackedInOrder
<1>3. ASSUME NEW i \in 1..n, IsSent(fields[i], v) PROVE Cells(fields[i], v) \in Seq(Nat)
  <2>1. fields[i] \in Fields
    BY DEF WellFormed
  <2>2. v[fields[i].name] \in Content(fields[i])
    <3>1. i \in DOMAIN fields
      BY DEF WellFormed
    <3> QED
      BY <1>3, <3>1 DEF Values
  <2>3. <<>> \in Seq(Nat)
    OBVIOUS
  <2> QED
    BY <1>3, <2>1, <2>2, <2>3, FieldIsRead, Zenon
<1> HIDE DEF n, P
<1>4. \A i \in 0..n : c[i] \in Seq(Nat)
  <2> DEFINE T == {i \in 0..n : c[i] \in Seq(Nat)}
  <2>1. 0 \in T
    <3>1. <<>> \in Seq(Nat) /\ 0 \in 0..n
      BY <1>1
    <3> QED
      BY <1>2, <3>1
  <2>2. ASSUME NEW i \in T, i < n PROVE i + 1 \in T
    <3>1. i + 1 \in 1..n /\ (i + 1) - 1 = i /\ c[i] \in Seq(Nat) /\ i + 1 \in 0..n
      BY <1>1, <2>2
    <3>2. c[i + 1] \in Seq(Nat)
      <4>1. CASE IsSent(fields[i + 1], v)
        <5>1. Cells(fields[i + 1], v) \in Seq(Nat)
          BY <1>3, <3>1, <4>1
        <5>2. c[i + 1] = c[i] \o Cells(fields[i + 1], v)
          BY <1>2, <3>1, <4>1
        <5> QED
          BY <3>1, <5>1, <5>2
      <4>2. CASE ~IsSent(fields[i + 1], v)
        BY <1>2, <3>1, <4>2
      <4> QED
        BY <4>1, <4>2
    <3> QED
      BY <3>1, <3>2
  <2>3. T = 0..n
    <3>1. T \in SUBSET (0..n)
      OBVIOUS
    <3> HIDE DEF T
    <3> QED
      BY <1>1, <2>1, <2>2, <3>1, Induction
  <2> QED
    BY <2>3
<1>5. ASSUME NEW i \in 1..n
      PROVE  Len(c[i - 1]) <= Len(c[i]) /\ \A k \in 1..Len(c[i - 1]) : c[i - 1][k] = c[i][k]
  <2>1. c[i - 1] \in Seq(Nat) /\ c[i] \in Seq(Nat)
    BY <1>1, <1>4
  <2>2. CASE IsSent(fields[i], v)
    <3>1. Cells(fields[i], v) \in Seq(Nat) /\ c[i] = c[i - 1] \o Cells(fields[i], v)
      BY <1>2, <1>3, <2>2
    <3>2. PICK a \in Seq(Nat), b \in Seq(Nat) : a = c[i - 1] /\ c[i] = a \o b
      BY <2>1, <3>1, Zenon
    <3>3. /\ Len(a) \in Nat /\ Len(b) \in Nat /\ Len(c[i]) = Len(a) + Len(b)
          /\ \A k \in 1..Len(a) : c[i][k] = a[k]
      BY <3>2, Appended
    <3>4. Len(a) <= Len(c[i])
      BY <3>3
    <3> QED
      BY <3>2, <3>3, <3>4, Zenon
  <2>3. CASE ~IsSent(fields[i], v)
    <3>1. c[i] = c[i - 1] /\ Len(c[i]) \in Nat
      BY <1>2, <2>1, <2>3
    <3> QED
      BY <3>1
  <2> QED
    BY <2>2, <2>3
<1>6. \A i \in 0..n : Len(c[i]) <= Len(P) /\ \A k \in 1..Len(c[i]) : c[i][k] = P[k]
  <2> DEFINE Good(i) == Len(c[i]) <= Len(P) /\ \A k \in 1..Len(c[i]) : c[i][k] = P[k]
             T == {d \in 0..n : Good(n - d)}
  <2>1. 0 \in T
    <3>1. n - 0 = n /\ Len(c[n]) \in Nat
      BY <1>1, <1>4
    <3> QED
      BY <1>1, <1>2, <3>1
  <2>2. ASSUME NEW d \in T, d < n PROVE d + 1 \in T
    <3> DEFINE i == n - d
    <3>1. i \in 1..n /\ n - (d + 1) = i - 1 /\ d + 1 \in 0..n
      BY <1>1, <2>2
    <3>2. Good(i)
      OBVIOUS
    <3>3. c[i] \in Seq(Nat) /\ c[i - 1] \in Seq(Nat) /\ P \in Seq(Nat)
      BY <1>1, <1>2, <1>4, <3>1
    <3>4. Len(c[i - 1]) <= Len(c[i]) /\ \A k \in 1..Len(c[i - 1]) : c[i - 1][k] = c[i][k]
      BY <1>5, <3>1
    <3> HIDE DEF i
    <3>5. Good(i - 1)
      BY <3>2, <3>3, <3>4
    <3> HIDE DEF Good
    <3> QED
      BY <3>1, <3>5
  <2>3. T = 0..n
    <3>1. T \in SUBSET (0..n)
      OBVIOUS
    <3> HIDE DEF T
    <3> QED
      BY <1>1, <2>1, <2>2, <3>1, Induction
  <2>4. ASSUME NEW i \in 0..n PROVE Good(i)
    <3>1. n - i \in 0..n /\ n - (n - i) = i
      BY <1>1
    <3>2. n - i \in T
      BY <2>3, <3>1
    <3>3. Good(n - (n - i))
      BY <3>2
    <3> HIDE DEF Good
    <3> QED
      BY <3>1, <3>3
  <2> QED
    BY <2>4
<1> QED
  BY <1>2, <1>4, <1>6, Zenon DEF n, P

\* The values when i fields have been read: the others have their defaults.
ReadSoFar(fields, v, i) ==
  [name \in {f.name : f \in ToSet(fields)} |->
     IF \E j \in 1..i : fields[j].name = name THEN v[name] ELSE Defaults(fields)[name]]

\* Each field adds its value, or is left out and has its default.
LEMMA ValuesGrow ==
  ASSUME NEW fields, NEW v, WellFormed(fields), Values(fields, v)
  PROVE  /\ ReadSoFar(fields, v, 0) = Defaults(fields)
         /\ ReadSoFar(fields, v, Len(fields)) = v
         /\ \A i \in 1..Len(fields) :
              LET w == ReadSoFar(fields, v, i - 1)
              IN  /\ IsSent(fields[i], w) <=> IsSent(fields[i], v)
                  /\ ReadSoFar(fields, v, i) =
                       IF IsSent(fields[i], v) THEN [w EXCEPT ![fields[i].name] = v[fields[i].name]]
                       ELSE w
<1> DEFINE n == Len(fields)
           Listed == {f.name : f \in ToSet(fields)}
           D == Defaults(fields)
           W(i) == ReadSoFar(fields, v, i)
<1>1. n \in Nat /\ DOMAIN fields = 1..n /\ \A j \in 1..n : fields[j] \in Fields
  BY DEF WellFormed
<1>2. /\ \A name \in Listed : \E j \in 1..n : fields[j].name = name
      /\ \A j \in 1..n : fields[j].name \in Listed /\ fields[j] \in ToSet(fields)
  BY <1>1 DEF ToSet
<1>3. \A j, k \in 1..n : fields[j].name = fields[k].name => j = k
  BY <1>1 DEF WellFormed
<1>4. ASSUME NEW j \in 1..n PROVE D[fields[j].name] = Default(fields[j])
  <2> DEFINE g == CHOOSE f \in ToSet(fields) : f.name = fields[j].name
  <2>1. g \in ToSet(fields) /\ g.name = fields[j].name
    BY <1>2
  <2>2. PICK k \in 1..n : g = fields[k]
    BY <1>1, <2>1 DEF ToSet
  <2>3. g = fields[j]
    BY <1>3, <2>1, <2>2
  <2>4. D[fields[j].name] = Default(g)
    BY <1>2 DEF Defaults
  <2> HIDE DEF g
  <2> QED
    BY <2>3, <2>4
<1>5. D = [name \in Listed |-> D[name]]
  BY DEF Defaults
<1>6. v = [name \in Listed |-> v[name]]
  BY DEF Values
<1>7. \A i : W(i) = [name \in Listed |-> IF \E j \in 1..i : fields[j].name = name THEN v[name] ELSE D[name]]
  BY DEF ReadSoFar
<1>8. ASSUME NEW j \in 1..n, ~IsSent(fields[j], v) PROVE v[fields[j].name] = D[fields[j].name]
  <2>1. v[fields[j].name] \in {Default(fields[j])}
    BY <1>1, <1>8 DEF Values
  <2> QED
    BY <1>4, <2>1
<1> HIDE DEF n, Listed, D, W
<1>9. W(0) = D
  <2>1. \A name : ~\E j \in 1..0 : fields[j].name = name
    OBVIOUS
  <2>2. W(0) = [name \in Listed |-> D[name]]
    BY <1>7, <2>1
  <2> QED
    BY <1>5, <2>2
<1>10. W(n) = v
  <2>1. W(n) = [name \in Listed |-> v[name]]
    BY <1>2, <1>7
  <2> QED
    BY <1>6, <2>1
<1>11. ASSUME NEW i \in 1..n
       PROVE  /\ IsSent(fields[i], W(i - 1)) <=> IsSent(fields[i], v)
              /\ W(i) = IF IsSent(fields[i], v) THEN [W(i - 1) EXCEPT ![fields[i].name] = v[fields[i].name]]
                        ELSE W(i - 1)
  <2>1. i - 1 \in Nat /\ \A j \in 1..(i - 1) : j \in 1..n /\ j \in 1..i /\ j # i
    BY <1>1
  <2>2. \A j \in 1..i : j \in 1..(i - 1) \/ j = i
    BY <1>1
  <2>3. IsSent(fields[i], W(i - 1)) <=> IsSent(fields[i], v)
    <3>1. CASE fields[i].unless = "never"
      BY <3>1 DEF IsSent
    <3>2. CASE fields[i].unless # "never"
      <4>1. PICK j \in 1..(i - 1) : fields[j].name = fields[i].unless
        BY <1>1, <3>2 DEF WellFormed
      <4>2. W(i - 1)[fields[i].unless] = v[fields[i].unless]
        <5>1. fields[i].unless \in Listed
          BY <1>2, <2>1, <4>1
        <5> QED
          BY <1>7, <4>1, <5>1
      <4> QED
        BY <4>2 DEF IsSent
    <3> QED
      BY <3>1, <3>2
  <2> DEFINE a == fields[i].name
  <2>4. a \in Listed /\ i \in 1..i /\ ~\E j \in 1..(i - 1) : fields[j].name = a
    BY <1>1, <1>2, <1>3, <2>1
  <2>5. W(i)[a] = v[a] /\ W(i - 1)[a] = D[a]
    BY <1>7, <2>4
  <2>6. ASSUME NEW name \in Listed, name # a PROVE W(i)[name] = W(i - 1)[name]
    <3>1. (\E j \in 1..i : fields[j].name = name) <=> (\E j \in 1..(i - 1) : fields[j].name = name)
      BY <2>1, <2>2, <2>6
    <3> QED
      BY <1>7, <3>1
  <2>7. W(i) = [name \in Listed |-> W(i)[name]] /\ W(i - 1) = [name \in Listed |-> W(i - 1)[name]]
    BY <1>7, Zenon
  <2>8. CASE IsSent(fields[i], v)
    <3>1. W(i) = [W(i - 1) EXCEPT ![a] = v[a]]
      <4> HIDE DEF a
      <4> QED
        BY <2>4, <2>5, <2>6, <2>7
    <3> QED
      BY <2>3, <2>8, <3>1
  <2>9. CASE ~IsSent(fields[i], v)
    <3>1. v[a] = D[a]
      BY <1>8, <2>9
    <3>2. W(i) = W(i - 1)
      <4> HIDE DEF a
      <4> QED
        BY <2>4, <2>5, <2>6, <2>7, <3>1
    <3> QED
      BY <2>3, <2>9, <3>2
  <2> QED
    BY <2>8, <2>9
<1> QED
  BY <1>9, <1>10, <1>11, Zenon DEF n, D, W

\* A part of a sequence, and a part of that.
LEMMA Cut ==
  ASSUME NEW P \in Seq(Nat), NEW l \in Nat, NEW m \in Nat, l <= m, m <= Len(P)
  PROVE  /\ SubSeq(P, l + 1, m) \in Seq(Nat) /\ Len(SubSeq(P, l + 1, m)) = m - l
         /\ \A k \in 1..Len(SubSeq(P, l + 1, m)) : SubSeq(P, l + 1, m)[k] = P[l + k]
<1>1. \A i \in (l + 1)..m : P[i] \in Nat
  OBVIOUS
<1>2. l + 1 \in Int /\ m \in Int
  OBVIOUS
<1>3. PICK S : S = SubSeq(P, l + 1, m)
  OBVIOUS
<1>4. /\ S \in Seq(Nat)
      /\ Len(S) = IF l + 1 <= m THEN m - (l + 1) + 1 ELSE 0
      /\ \A i \in 1..(m - (l + 1) + 1) : S[i] = P[l + 1 + i - 1]
  <2>1. PICK h \in Int : h = l + 1
    BY <1>2
  <2>2. \A i \in h..m : P[i] \in Nat
    BY <1>1, <2>1, Zenon
  <2>3. /\ SubSeq(P, h, m) \in Seq(Nat)
        /\ Len(SubSeq(P, h, m)) = IF h <= m THEN m - h + 1 ELSE 0
        /\ \A i \in 1..(m - h + 1) : SubSeq(P, h, m)[i] = P[h + i - 1]
    BY <1>2, <2>2, SubSeqProperties
  <2>4. S = SubSeq(P, h, m)
    BY <1>3, <2>1, Zenon
  <2> QED
    BY <2>1, <2>3, <2>4, Zenon
<1>5. Len(S) = m - l
  BY <1>4
<1>6. \A k \in 1..Len(S) : S[k] = P[l + k]
  <2> TAKE k \in 1..Len(S)
  <2>1. k \in 1..(m - (l + 1) + 1) /\ l + 1 + k - 1 = l + k
    BY <1>5
  <2> QED
    BY <1>4, <2>1, Zenon
<1> QED
  BY <1>3, <1>4, <1>5, <1>6, Zenon

\* A sequence cut to its first elements and cut again.
LEMMA CutTwice ==
  ASSUME NEW P \in Seq(Nat), NEW l \in Nat, NEW k \in Nat, NEW m \in Nat, l + k <= m, m <= Len(P)
  PROVE  SubSeq(SubSeq(P, l + 1, m), k + 1, m - l) = SubSeq(P, (l + k) + 1, m)
<1> DEFINE R == SubSeq(P, l + 1, m)
           x == SubSeq(R, k + 1, m - l)
           y == SubSeq(P, (l + k) + 1, m)
<1>1. l <= m /\ m - l \in Nat /\ l + k \in Nat /\ k <= m - l
  OBVIOUS
<1>2. R \in Seq(Nat) /\ Len(R) = m - l /\ \A q \in 1..Len(R) : R[q] = P[l + q]
  BY <1>1, Cut, Zenon
<1>3. y \in Seq(Nat) /\ Len(y) = m - (l + k) /\ \A q \in 1..Len(y) : y[q] = P[(l + k) + q]
  BY <1>1, Cut, Zenon
<1> HIDE DEF R
<1>4. m - l <= Len(R)
  BY <1>1, <1>2
<1>5. x \in Seq(Nat) /\ Len(x) = (m - l) - k /\ \A q \in 1..Len(x) : x[q] = R[k + q]
  BY <1>1, <1>2, <1>4, Cut, Zenon
<1> HIDE DEF x, y
<1>6. Len(x) = Len(y)
  BY <1>3, <1>5
<1>7. ASSUME NEW q \in 1..Len(x) PROVE x[q] = y[q]
  <2>1. k + q \in 1..Len(R) /\ q \in 1..Len(y)
    BY <1>1, <1>2, <1>5, <1>6
  <2>2. x[q] = P[l + (k + q)] /\ l + (k + q) = (l + k) + q
    BY <1>2, <1>5, <2>1
  <2> QED
    BY <1>3, <2>1, <2>2
<1>8. x = [q \in 1..Len(x) |-> x[q]] /\ y = [q \in 1..Len(y) |-> y[q]]
  BY <1>3, <1>5
<1> QED
  BY <1>6, <1>7, <1>8, Zenon DEF x, y, R

\* Of a packet of which m cells are there, so many fields are read as have all their
\* cells among these.
UnpackedTo(fields, v, packed, m, i, r) ==
  IF Len(packed) <= m
  THEN r = [ok |-> TRUE, rest |-> SubSeq(Pack(fields, v), Len(packed) + 1, m),
            v |-> ReadSoFar(fields, v, i)]
  ELSE ~r.ok

\* One field more.
LEMMA UnpackedOneMore ==
  ASSUME NEW fields, NEW v, WellFormed(fields), Values(fields, v),
         NEW P \in Seq(Nat), P = Pack(fields, v), NEW m \in 0..Len(P),
         NEW i \in 1..Len(fields), NEW r,
         NEW a \in Seq(Nat), NEW b \in Seq(Nat), Len(b) <= Len(P),
         b = IF IsSent(fields[i], v) THEN a \o Cells(fields[i], v) ELSE a,
         \A k \in 1..Len(b) : b[k] = P[k],
         UnpackedTo(fields, v, a, m, i - 1, r)
  PROVE  UnpackedTo(fields, v, b, m, i, Read(r, fields[i]))
<1> DEFINE f == fields[i]
           w == ReadSoFar(fields, v, i - 1)
           R == SubSeq(P, Len(a) + 1, m)
           K == Cells(f, v)
<1>1. f \in Fields /\ i \in DOMAIN fields
  BY DEF WellFormed
<1>2. /\ IsSent(f, w) <=> IsSent(f, v)
      /\ ReadSoFar(fields, v, i) =
           IF IsSent(f, v) THEN [w EXCEPT ![f.name] = v[f.name]] ELSE w
  BY ValuesGrow, Zenon
<1>3. /\ Len(a) <= m => r = [ok |-> TRUE, rest |-> R, v |-> w]
      /\ ~(Len(a) <= m) => ~r.ok
  BY DEF UnpackedTo
<1>4. Len(a) \in Nat /\ Len(b) \in Nat /\ m \in Nat /\ Len(P) \in Nat /\ m <= Len(P)
  OBVIOUS
<1> HIDE DEF f, w, R, K
<1>5. CASE ~IsSent(f, v)
  <2>1. b = a
    BY <1>5 DEF f
  <2>2. ReadSoFar(fields, v, i) = w
    BY <1>2, <1>5
  <2>3. Read(r, f) = r
    <3>1. r.ok => r = [ok |-> TRUE, rest |-> R, v |-> w]
      BY <1>3
    <3>2. r.ok => r.v = w
      BY <3>1
    <3>3. ~r.ok \/ ~IsSent(f, r.v)
      BY <1>2, <1>5, <3>2
    <3> QED
      BY <3>3, Zenon DEF Read
  <2> QED
    BY <1>3, <2>1, <2>2, <2>3, Zenon DEF UnpackedTo, f, R
<1>6. CASE IsSent(f, v) /\ ~(Len(a) <= m)
  <2>1. K \in Seq(Nat) /\ b = a \o K
    <3>1. v[f.name] \in Content(f)
      BY <1>1, <1>6, Zenon DEF Values, f
    <3>2. <<>> \in Seq(Nat)
      OBVIOUS
    <3> QED
      BY <1>1, <1>6, <3>1, <3>2, FieldIsRead, Zenon DEF K, f
  <2>2. Len(b) = Len(a) + Len(K) /\ Len(K) \in Nat
    BY <2>1, Appended, Zenon
  <2>3. ~(Len(b) <= m)
    BY <1>4, <1>6, <2>2
  <2>4. Read(r, f) = r /\ ~r.ok
    BY <1>3, <1>6, Zenon DEF Read
  <2> QED
    BY <2>3, <2>4, Zenon DEF UnpackedTo, f
<1>7. CASE IsSent(f, v) /\ Len(a) <= m
  <2>1. r = [ok |-> TRUE, rest |-> R, v |-> w] /\ IsSent(f, w)
    BY <1>2, <1>3, <1>7
  <2>2. R \in Seq(Nat) /\ Len(R) = m - Len(a) /\ \A k \in 1..Len(R) : R[k] = P[Len(a) + k]
    <3>1. Len(a) <= m
      BY <1>7
    <3>2. /\ SubSeq(P, Len(a) + 1, m) \in Seq(Nat) /\ Len(SubSeq(P, Len(a) + 1, m)) = m - Len(a)
          /\ \A k \in 1..Len(SubSeq(P, Len(a) + 1, m)) :
               SubSeq(P, Len(a) + 1, m)[k] = P[Len(a) + k]
      <4>1. \A Q \in Seq(Nat), l, q \in Nat :
              l <= q /\ q <= Len(Q) =>
                /\ SubSeq(Q, l + 1, q) \in Seq(Nat) /\ Len(SubSeq(Q, l + 1, q)) = q - l
                /\ \A k \in 1..Len(SubSeq(Q, l + 1, q)) : SubSeq(Q, l + 1, q)[k] = Q[l + k]
        BY Cut
      <4> QED
        BY <1>4, <3>1, <4>1
    <3> QED
      BY <3>2, Zenon DEF R
  <2>3. v[f.name] \in Content(f)
    BY <1>1, <1>7, Zenon DEF Values, f
  <2>4. /\ K \in Seq(Nat) /\ Len(K) > 0
        /\ Len(K) <= Len(R) /\ (\A k \in 1..Len(K) : R[k] = K[k]) =>
             Read(r, f) = [ok |-> TRUE, rest |-> SubSeq(R, Len(K) + 1, Len(R)),
                           v |-> [w EXCEPT ![f.name] = v[f.name]]]
        /\ Len(R) < Len(K) /\ (\A k \in 1..Len(R) : R[k] = K[k]) => ~Read(r, f).ok
    <3> DEFINE q == [ok |-> TRUE, rest |-> R, v |-> w]
    <3>1. /\ K \in Seq(Nat) /\ Len(K) > 0
          /\ Len(K) <= Len(R) /\ (\A k \in 1..Len(K) : R[k] = K[k]) =>
               Read(q, f) = [ok |-> TRUE, rest |-> SubSeq(R, Len(K) + 1, Len(R)),
                             v |-> [w EXCEPT ![f.name] = v[f.name]]]
          /\ Len(R) < Len(K) /\ (\A k \in 1..Len(R) : R[k] = K[k]) => ~Read(q, f).ok
      BY <1>1, <2>1, <2>2, <2>3, FieldIsRead, Zenon DEF K
    <3>2. r = q
      BY <2>1
    <3> HIDE DEF q
    <3> QED
      BY <3>1, <3>2, Zenon
  <2>5. b = a \o K
    BY <1>7 DEF f, K
  <2>6. /\ Len(b) = Len(a) + Len(K) /\ Len(K) \in Nat
        /\ \A k \in 1..Len(K) : b[Len(a) + k] = K[k]
    <3>1. K \in Seq(Nat)
      BY <2>4
    <3>2. /\ Len(K) \in Nat /\ Len(a \o K) = Len(a) + Len(K)
          /\ \A k \in 1..Len(K) : (a \o K)[Len(a) + k] = K[k]
      BY <3>1, Appended, Zenon
    <3>3. PICK d : d = a \o K
      OBVIOUS
    <3>4. b = d
      BY <2>5, <3>3
    <3> QED
      BY <3>2, <3>3, <3>4, Zenon
  <2>7. \A k \in 1..Len(K) : Len(a) + k \in 1..Len(b)
    <3>1. PICK x \in Nat, y \in Nat : x = Len(a) /\ y = Len(K)
      BY <1>4, <2>6
    <3>2. Len(b) = x + y
      BY <2>6, <3>1
    <3>3. \A k \in 1..y : x + k \in 1..(x + y)
      OBVIOUS
    <3> QED
      BY <3>1, <3>2, <3>3, Zenon
  <2>8. \A k \in 1..Len(K) : k \in 1..Len(R) => R[k] = K[k]
    BY <2>2, <2>6, <2>7
  <2>9. CASE Len(b) <= m
    <3>1. Len(K) <= Len(R) /\ \A k \in 1..Len(K) : k \in 1..Len(R)
      BY <1>4, <2>2, <2>6, <2>9
    <3>2. Read(r, f) = [ok |-> TRUE, rest |-> SubSeq(R, Len(K) + 1, Len(R)),
                        v |-> ReadSoFar(fields, v, i)]
      BY <1>2, <1>7, <2>4, <2>8, <3>1
    <3>3. SubSeq(R, Len(K) + 1, Len(R)) = SubSeq(P, Len(b) + 1, m)
      <4>1. Len(R) = m - Len(a) /\ Len(a) + Len(K) = Len(b)
        BY <2>2, <2>6
      <4>2. Len(a) + Len(K) <= m
        BY <2>9, <4>1
      <4>3. SubSeq(SubSeq(P, Len(a) + 1, m), Len(K) + 1, m - Len(a))
              = SubSeq(P, (Len(a) + Len(K)) + 1, m)
        <5>1. \A l, k, q \in Nat :
                l + k <= q /\ q <= Len(P) =>
                  SubSeq(SubSeq(P, l + 1, q), k + 1, q - l) = SubSeq(P, (l + k) + 1, q)
          BY CutTwice
        <5>2. PICK n \in Nat, k \in Nat : n = Len(a) /\ k = Len(K)
          BY <2>6
        <5>3. n + k <= m /\ m <= Len(P) /\ m \in Nat
          BY <4>2, <5>2
        <5>4. SubSeq(SubSeq(P, n + 1, m), k + 1, m - n) = SubSeq(P, (n + k) + 1, m)
          BY <5>1, <5>3, Zenon
        <5> QED
          BY <5>2, <5>4, Zenon
      <4> QED
        BY <4>1, <4>3, Zenon DEF R
    <3> QED
      BY <2>9, <3>2, <3>3, Zenon DEF UnpackedTo, f
  <2>10. CASE ~(Len(b) <= m)
    <3>1. Len(R) < Len(K) /\ \A k \in 1..Len(R) : k \in 1..Len(K)
      BY <1>4, <1>7, <2>2, <2>6, <2>10
    <3>2. ~Read(r, f).ok
      BY <2>4, <2>8, <3>1
    <3> QED
      BY <2>10, <3>2, Zenon DEF UnpackedTo, f
  <2> QED
    BY <2>9, <2>10
<1> QED
  BY <1>5, <1>6, <1>7

\* A packet that arrives whole gives back the values that were packed, and one that
\* is cut, wherever that is, is refused (StreamReader throws).
THEOREM UnpackPacked ==
  ASSUME NEW fields, NEW v, WellFormed(fields), Values(fields, v)
  PROVE  /\ Pack(fields, v) \in Seq(Nat)
         /\ Unpack(fields, Pack(fields, v)).ok /\ Unpack(fields, Pack(fields, v)).v = v
         /\ \A m \in 0..Len(Pack(fields, v)) :
              m < Len(Pack(fields, v)) => ~Unpack(fields, SubSeq(Pack(fields, v), 1, m)).ok
<1> DEFINE n == Len(fields)
           P == Pack(fields, v)
<1>1. n \in Nat
  BY DEF WellFormed
<1>2. PICK c :
        /\ c[0] = <<>>
        /\ \A i \in 1..n :
             c[i] = IF IsSent(fields[i], v) THEN c[i - 1] \o Cells(fields[i], v) ELSE c[i - 1]
        /\ P = c[n]
        /\ \A i \in 0..n :
             /\ c[i] \in Seq(Nat) /\ Len(c[i]) <= Len(P)
             /\ \A k \in 1..Len(c[i]) : c[i][k] = P[k]
  BY PackedCells
<1>3. P \in Seq(Nat) /\ Len(P) \in Nat
  <2> HIDE DEF P
  <2> QED
    BY <1>1, <1>2
<1>4. ReadSoFar(fields, v, 0) = Defaults(fields) /\ ReadSoFar(fields, v, n) = v
  BY ValuesGrow, Zenon
<1>5. ASSUME NEW m \in 0..Len(P)
      PROVE  UnpackedTo(fields, v, P, m, n, Unpack(fields, SubSeq(P, 1, m)))
  <2>1. PICK a :
          /\ a[0] = [ok |-> TRUE, rest |-> SubSeq(P, 1, m), v |-> Defaults(fields)]
          /\ \A i \in 1..n : a[i] = Read(a[i - 1], fields[i])
          /\ Unpack(fields, SubSeq(P, 1, m)) = a[n]
    BY <1>1, ReadInOrder, Zenon
  <2> DEFINE Good(i) == UnpackedTo(fields, v, c[i], m, i, a[i])
             T == {i \in 0..n : Good(i)}
  <2> HIDE DEF n, P
  <2>2. Good(0)
    <3>1. Len(c[0]) = 0 /\ Len(c[0]) + 1 = 1 /\ 0 <= m
      BY <1>2, <1>3
    <3>2. Good(0) <=> a[0] = [ok |-> TRUE, rest |-> SubSeq(P, Len(c[0]) + 1, m),
                              v |-> ReadSoFar(fields, v, 0)]
      BY <3>1 DEF UnpackedTo, P
    <3> QED
      BY <1>4, <2>1, <3>1, <3>2
  <2>3. ASSUME NEW i \in T, i < n PROVE Good(i + 1)
    <3> DEFINE j == i + 1
    <3>1. j \in 1..n /\ j - 1 = i /\ i \in 0..n /\ j \in 0..n
      BY <1>1, <2>3
    <3>2. UnpackedTo(fields, v, c[j - 1], m, j - 1, a[j - 1])
      BY <3>1
    <3> HIDE DEF j
    <3>3. c[j - 1] \in Seq(Nat) /\ c[j] \in Seq(Nat)
      BY <1>2, <3>1
    <3>4. UnpackedTo(fields, v, c[j], m, j, Read(a[j - 1], fields[j]))
      BY <1>2, <1>3, <3>1, <3>2, <3>3, UnpackedOneMore, Zenon DEF n, P
    <3>5. Good(j)
      BY <2>1, <3>1, <3>4, Zenon
    <3> QED
      BY <3>5 DEF j
  <2>4. T = 0..n
    <3>1. T \in SUBSET (0..n) /\ 0 \in T
      BY <1>1, <2>2
    <3>2. ASSUME NEW i \in T, i < n PROVE i + 1 \in T
      <4>1. i + 1 \in 0..n
        BY <1>1, <3>2
      <4> HIDE DEF Good
      <4> QED
        BY <2>3, <3>2, <4>1
    <3> HIDE DEF T
    <3> QED
      BY <1>1, <3>1, <3>2, Induction
  <2>5. Good(n)
    <3>1. n \in T
      BY <1>1, <2>4
    <3> HIDE DEF Good
    <3> QED
      BY <3>1
  <2> QED
    BY <1>2, <2>1, <2>5, Zenon DEF n
<1> HIDE DEF n, P
<1>6. Unpack(fields, P).ok /\ Unpack(fields, P).v = v
  <2>1. SubSeq(P, 1, Len(P)) = P /\ Len(P) \in 0..Len(P) /\ Len(P) <= Len(P)
    BY <1>3
  <2>2. UnpackedTo(fields, v, P, Len(P), n, Unpack(fields, P))
    BY <1>5, <2>1
  <2>3. Unpack(fields, P) = [ok |-> TRUE, rest |-> SubSeq(P, Len(P) + 1, Len(P)), v |-> v]
    BY <1>4, <2>1, <2>2, Zenon DEF UnpackedTo, P
  <2> QED
    BY <2>3
<1>7. ASSUME NEW m \in 0..Len(P), m < Len(P) PROVE ~Unpack(fields, SubSeq(P, 1, m)).ok
  <2>1. ~(Len(P) <= m)
    BY <1>3, <1>7
  <2> QED
    BY <1>5, <1>7, <2>1, Zenon DEF UnpackedTo
<1> QED
  BY <1>3, <1>6, <1>7, Zenon DEF P

\* A field that is always there, before others.
LEMMA FieldBefore ==
  ASSUME NEW a \in Fields, a.unless = "never",
         NEW T, WellFormed(T), \A i \in DOMAIN T : T[i].name # a.name
  PROVE  WellFormed(<<a>> \o T) /\ Len(<<a>> \o T) > 0
<1> DEFINE R == <<a>> \o T
<1>1. T \in Seq(Fields) /\ DOMAIN T = 1..Len(T) /\ Len(T) \in Nat
  BY DEF WellFormed
<1>2. /\ R \in Seq(Fields) /\ Len(R) = 1 + Len(T) /\ DOMAIN R = 1..Len(R)
      /\ R[1] = a /\ \A i \in 1..Len(T) : R[i + 1] = T[i]
  BY <1>1
<1> HIDE DEF R
<1>3. \A i \in 1..Len(R) : i = 1 \/ (i - 1 \in 1..Len(T) /\ R[i] = T[i - 1])
  <2> TAKE i \in 1..Len(R)
  <2>1. i = 1 \/ (i - 1 \in 1..Len(T) /\ (i - 1) + 1 = i)
    BY <1>1, <1>2
  <2> QED
    BY <1>2, <2>1
<1>4. ASSUME NEW i \in 1..Len(R), NEW j \in 1..Len(R), R[i].name = R[j].name PROVE i = j
  <2>1. CASE i = 1 /\ j = 1
    BY <2>1
  <2>2. CASE i = 1 /\ j # 1
    BY <1>1, <1>2, <1>3, <1>4, <2>2
  <2>3. CASE i # 1 /\ j = 1
    BY <1>1, <1>2, <1>3, <1>4, <2>3
  <2>4. CASE i # 1 /\ j # 1
    <3>1. /\ i - 1 \in DOMAIN T /\ R[i] = T[i - 1]
          /\ j - 1 \in DOMAIN T /\ R[j] = T[j - 1]
      BY <1>1, <1>3, <2>4
    <3>2. T[i - 1].name = T[j - 1].name
      BY <1>4, <3>1
    <3>3. i - 1 = j - 1
      BY <3>1, <3>2, Zenon DEF WellFormed
    <3> QED
      BY <1>2, <3>3
  <2> QED
    BY <2>1, <2>2, <2>3, <2>4
<1>5. ASSUME NEW i \in 1..Len(R), R[i].unless # "never"
      PROVE  \E j \in 1..(i - 1) : R[j].name = R[i].unless /\ R[j].kind = "flag"
  <2>1. i - 1 \in 1..Len(T) /\ R[i] = T[i - 1]
    BY <1>2, <1>3, <1>5
  <2>2. PICK k \in 1..((i - 1) - 1) : T[k].name = R[i].unless /\ T[k].kind = "flag"
    BY <1>1, <1>5, <2>1 DEF WellFormed
  <2>3. k + 1 \in 1..(i - 1) /\ k \in 1..Len(T)
    BY <1>1, <2>1
  <2> QED
    BY <1>2, <2>2, <2>3
<1>6. WellFormed(R) /\ Len(R) > 0
  BY <1>1, <1>2, <1>4, <1>5 DEF WellFormed
<1> QED
  BY <1>6 DEF R

\* Few fields with different names, all of them always there.
LEMMA FewFields ==
  /\ WellFormed(<<>>)
  /\ \A a \in Fields : a.unless = "never" => WellFormed(<<a>>)
  /\ \A a, b \in Fields :
       a.unless = "never" /\ b.unless = "never" /\ a.name # b.name => WellFormed(<<a, b>>)
<1>1. WellFormed(<<>>)
  BY DEF WellFormed
<1>2. \A a \in Fields : a.unless = "never" => WellFormed(<<a>>)
  BY DEF WellFormed
<1>3. ASSUME NEW a \in Fields, NEW b \in Fields,
             a.unless = "never", b.unless = "never", a.name # b.name
      PROVE  WellFormed(<<a, b>>)
  BY <1>3 DEF WellFormed
<1> QED
  BY <1>1, <1>2, <1>3

\* Every response has such fields.
LEMMA ResponsesWellFormed ==
  ASSUME NEW kind \in Calls
  PROVE  WellFormed(ResponseFields(kind)) /\ Len(ResponseFields(kind)) > 0
<1> DEFINE T == ResultFields(kind)
           A == Number("apiReturn")
           U(f) == Unless("isRecvPciNull", f)
           Fit == WellFormed(T) /\ \A i \in DOMAIN T : T[i].name # "apiReturn"
<1>1. ASSUME kind \in {"ReleaseContext", "Disconnect", "BeginTransaction", "EndTransaction"} PROVE Fit
  <2>1. T = <<>>
    BY <1>1, Zenon DEF ResultFields
  <2> HIDE DEF T
  <2> QED
    BY <2>1, FewFields
<1>2. ASSUME kind = "EstablishContext" PROVE Fit
  <2> DEFINE a == Number("hContext")
  <2>1. T = <<a>>
    BY <1>2, Zenon DEF ResultFields
  <2>2. a \in Fields /\ a.unless = "never" /\ a.name # "apiReturn"
    BY DEF Number, Buffer, Fields, Names
  <2> HIDE DEF T, a
  <2>3. DOMAIN <<a>> = {1} /\ <<a>>[1] = a
    OBVIOUS
  <2> QED
    BY <2>1, <2>2, <2>3, FewFields
<1>3. ASSUME kind = "Reconnect" PROVE Fit
  <2> DEFINE a == Number("dwActiveProtocol")
  <2>1. T = <<a>>
    BY <1>3, Zenon DEF ResultFields
  <2>2. a \in Fields /\ a.unless = "never" /\ a.name # "apiReturn"
    BY DEF Number, Buffer, Fields, Names
  <2> HIDE DEF T, a
  <2>3. DOMAIN <<a>> = {1} /\ <<a>>[1] = a
    OBVIOUS
  <2> QED
    BY <2>1, <2>2, <2>3, FewFields
<1>4. ASSUME kind = "ListReaders" PROVE Fit
  <2> DEFINE a == Buffer("readers")
             b == Number("readersLength")
  <2>1. T = <<a, b>>
    BY <1>4, Zenon DEF ResultFields
  <2>2. /\ a \in Fields /\ a.unless = "never" /\ a.name # "apiReturn"
        /\ b \in Fields /\ b.unless = "never" /\ b.name # "apiReturn" /\ a.name # b.name
    BY DEF Number, Buffer, Fields, Names
  <2> HIDE DEF T, a, b
  <2>3. DOMAIN <<a, b>> = {1, 2} /\ <<a, b>>[1] = a /\ <<a, b>>[2] = b
    OBVIOUS
  <2> QED
    BY <2>1, <2>2, <2>3, FewFields
<1>5. ASSUME kind = "Connect" PROVE Fit
  <2> DEFINE a == Number("hCard")
             b == Number("dwActiveProtocol")
  <2>1. T = <<a, b>>
    BY <1>5, Zenon DEF ResultFields
  <2>2. /\ a \in Fields /\ a.unless = "never" /\ a.name # "apiReturn"
        /\ b \in Fields /\ b.unless = "never" /\ b.name # "apiReturn" /\ a.name # b.name
    BY DEF Number, Buffer, Fields, Names
  <2> HIDE DEF T, a, b
  <2>3. DOMAIN <<a, b>> = {1, 2} /\ <<a, b>>[1] = a /\ <<a, b>>[2] = b
    OBVIOUS
  <2> QED
    BY <2>1, <2>2, <2>3, FewFields
<1>6. ASSUME kind = "GetAttrib" PROVE Fit
  <2> DEFINE a == Buffer("attrBuffer")
             b == Number("attrLength")
  <2>1. T = <<a, b>>
    BY <1>6, Zenon DEF ResultFields
  <2>2. /\ a \in Fields /\ a.unless = "never" /\ a.name # "apiReturn"
        /\ b \in Fields /\ b.unless = "never" /\ b.name # "apiReturn" /\ a.name # b.name
    BY DEF Number, Buffer, Fields, Names
  <2> HIDE DEF T, a, b
  <2>3. DOMAIN <<a, b>> = {1, 2} /\ <<a, b>>[1] = a /\ <<a, b>>[2] = b
    OBVIOUS
  <2> QED
    BY <2>1, <2>2, <2>3, FewFields
<1>7. ASSUME kind = "Transmit" PROVE Fit
  <2> DEFINE a == Buffer("recvBuffer")
             b == Number("recvLength")
             c == Flag("isRecvPciNull")
             d == U(Number("recvPciProtocol"))
             e == U(Number("recvPciLength"))
  <2>1. T = <<a, b, c, d, e>>
    BY <1>7, Zenon DEF ResultFields
  <2>2. /\ a \in Fields /\ b \in Fields /\ c \in Fields /\ d \in Fields /\ e \in Fields
        /\ a.name = "recvBuffer" /\ b.name = "recvLength" /\ c.name = "isRecvPciNull"
        /\ d.name = "recvPciProtocol" /\ e.name = "recvPciLength" /\ c.kind = "flag"
        /\ a.unless = "never" /\ b.unless = "never" /\ c.unless = "never"
        /\ d.unless = "isRecvPciNull" /\ e.unless = "isRecvPciNull"
    BY DEF Number, Flag, Buffer, Unless, Fields, Names
  <2> HIDE DEF T, a, b, c, d, e
  <2>3. /\ T \in Seq(Fields) /\ DOMAIN T = 1..5
        /\ T[1] = a /\ T[2] = b /\ T[3] = c /\ T[4] = d /\ T[5] = e
    BY <2>1, <2>2
  <2>4. \A i \in 1..5 : i = 1 \/ i = 2 \/ i = 3 \/ i = 4 \/ i = 5
    OBVIOUS
  <2>5. \A i, j \in 1..5 : T[i].name = T[j].name => i = j
    BY <2>2, <2>3, <2>4
  <2>6. ASSUME NEW i \in 1..5, T[i].unless # "never"
        PROVE  3 \in 1..(i - 1) /\ T[3].name = T[i].unless /\ T[3].kind = "flag"
    BY <2>2, <2>3, <2>4, <2>6
  <2>7. \A i \in 1..5 : T[i].name # "apiReturn"
    BY <2>2, <2>3, <2>4
  <2> QED
    BY <2>3, <2>5, <2>6, <2>7 DEF WellFormed
<1>8. Fit
  <2> HIDE DEF Fit
  <2> QED
    BY <1>1, <1>2, <1>3, <1>4, <1>5, <1>6, <1>7 DEF Calls
<1>9. A \in Fields /\ A.unless = "never" /\ A.name = "apiReturn"
  BY DEF Number, Fields, Names
<1> HIDE DEF A, T
<1>10. WellFormed(<<A>> \o T) /\ Len(<<A>> \o T) > 0
  BY <1>8, <1>9, FieldBefore
<1> QED
  BY <1>10, Zenon DEF ResponseFields, A, T

-----------------------------------------------------------------------------
(* The inductive invariant.                                                *)

Requests == [do : {"request"}, n : Numbers, kind : Kinds]
Others   == [do : {"connect", "close"}, n : Numbers, kind : {None}]

Nums(jobs) == {job.n : job \in jobs}

\* Jobs that have been posted, and those that wait for the connection.
Posted     == ToSet(posted) \ {Drop}
Waiting(s) == ToSet(s.waiters)

AtServer == ToSet(wire.toServer) \cup wire.late
Answered == {n \in Numbers : answers[n] # None}

Op(kind) == [kind |-> kind, sent |-> FALSE, old |-> FALSE]
Written  == [kind |-> "write", sent |-> TRUE, old |-> FALSE]

\* No number twice in a sequence of jobs.
Distinct(jobs) ==
  \A i, j \in DOMAIN jobs :
    jobs[i] # Drop /\ jobs[j] # Drop /\ jobs[i].n = jobs[j].n => i = j

IoStates ==
  [connected : BOOLEAN, connecting : BOOLEAN, waiters : Seq(Requests \cup Others),
   pending : SUBSET Entries, sendQueue : Seq(Requests),
   promise : [Numbers -> AllAnswers \cup {Unset, Failed, Done}],
   ops : SUBSET [kind : AsyncKinds, sent : BOOLEAN, old : BOOLEAN]]

\* One packet of the queue is being written, unless there is none.
Writing(s) ==
  /\ \A op \in s.ops : op.sent => op = Written
  /\ s.sendQueue # <<>> <=> Op("write") \in s.ops \/ Written \in s.ops
  /\ ~(Op("write") \in s.ops /\ Written \in s.ops)
  /\ s.pending # {} \/ s.sendQueue # <<>> => s.connected

\* The other operations under way, besides those of earlier connections.
Reading(s) ==
  /\ ~(s.connected /\ s.connecting)
  /\ s.connected <=> Op("readLength") \in s.ops \/ Op("readData") \in s.ops
  /\ ~(Op("readLength") \in s.ops /\ Op("readData") \in s.ops)
  /\ s.connecting <=> Op("resolve") \in s.ops \/ Op("connect") \in s.ops
  /\ ~(Op("resolve") \in s.ops /\ Op("connect") \in s.ops)
  /\ s.connecting => Op("timer") \in s.ops
  /\ s.waiters # <<>> => s.connecting

\* A promise that is not set is that of one of these jobs or of one pending
\* response; one that is set has the answer to its own call or a failure.
Owned(s, jobs) ==
  /\ \A a, b \in jobs : a.n = b.n => a = b
  /\ \A e, f \in s.pending : e.n = f.n => e = f
  /\ Nums(jobs) \cap Ids(s) = {}
  /\ Nums(jobs) \cup Ids(s) \subseteq 1..made
  /\ \A n \in Numbers : s.promise[n] = Unset <=> n \in Nums(jobs) \cup Ids(s) \/ n > made
  /\ \A n \in Numbers :
       s.promise[n] \in {Unset, Failed} \cup IF n \in asked THEN {answers[n]} \ {None} ELSE {Done}
  /\ \A job \in jobs : job.do = "request" <=> job.n \in asked
  /\ Ids(s) \subseteq asked

\* Requests of the queue that have not been sent.
Unsent(s) ==
  {s.sendQueue[i].n : i \in {i \in DOMAIN s.sendQueue : Written \in s.ops => i > 1}}

\* What is known of a request wherever it is.
RequestKnown(s, job) ==
  job.n \in asked /\ \A e \in s.pending : e.n = job.n => e.opcode = ResponseOpcode(job.kind)

\* A frame has the server's answer to a request of this kind, maybe cut short, and a
\* request that waits for it is of that kind.
AnswerIn(s, frame, kind) ==
  /\ \E a \in AnswersTo(frame.n, kind) :
       /\ answers[frame.n] = a
       /\ frame.result = a.result
       /\ frame.cells \in {Pack(ResponseFields(kind), a.v), Front(Pack(ResponseFields(kind), a.v))}
  /\ \A e \in s.pending : e.n = frame.n => e.opcode = ResponseOpcode(kind)

FrameKnown(s, frame) ==
  /\ frame.n \in Numbers
  /\ frame.opcode \in {ResponseOpcode(k) : k \in Calls}
  /\ \E kind \in Kinds : AnswerIn(s, frame, kind)

\* A request is sent once and answered once, after that.
SentOnce(s, jobs) ==
  /\ Distinct(s.sendQueue)
  /\ Unsent(s) \cap (Nums(AtServer) \cup Answered) = {}
  /\ Nums(jobs) \cap (Nums(ToSet(s.sendQueue)) \cup Nums(AtServer) \cup Answered) = {}
  /\ \A job \in ToSet(s.sendQueue) \cup AtServer : RequestKnown(s, job)
  /\ \A i \in DOMAIN wire.toClient : FrameKnown(s, wire.toClient[i])

Sound(s, jobs) == s \in IoStates /\ Writing(s) /\ Owned(s, jobs) /\ SentOnce(s, jobs)

Frames ==
  [n : Numbers, opcode : Nat, result : Numbers, cells : Seq(Nat), length : {"right", "wrong"}]

\* Requests and replies on their way: none twice, none of a request that has been
\* answered.
Carried ==
  /\ wire \in [toServer : Seq(Requests), toClient : Seq(Frames), late : SUBSET Requests]
  /\ Distinct(wire.toServer)
  /\ \A a, b \in wire.late : a.n = b.n => a = b
  /\ Nums(wire.late) \cap Nums(ToSet(wire.toServer)) = {}
  /\ Nums(AtServer) \cap Answered = {}

\* The caller: each call but the one in progress has returned.
Called ==
  /\ made \in 0..MaxCalls /\ asked \subseteq 1..made
  /\ call \in Requests \cup Others \cup {None}
  /\ call # None => call.n = made
  /\ outcomes \in [Numbers -> AllAnswers \cup {None, Failed, Done}]
  /\ \A n \in Numbers : outcomes[n] = None <=> n > made \/ (call # None /\ n = made)
  /\ answers \in [Numbers -> AllAnswers \cup {None}]
  /\ Answered \subseteq asked

\* Who waits.
Queued ==
  /\ posted \in Seq(Requests \cup Others \cup {Drop})
  /\ Distinct(posted)
  /\ Distinct(io.waiters)
  /\ Nums(Posted) \cap Nums(Waiting(io)) = {}
  /\ \A job \in Waiting(io) : job.do # "close"

ClientInv ==
  Called /\ Queued /\ Carried /\ Reading(io) /\ Sound(io, Posted \cup Waiting(io))

-----------------------------------------------------------------------------
(* Jobs, values and operations.                                            *)

\* Jobs of the two kinds.
LEMMA JobFacts ==
  /\ Numbers \subseteq Nat /\ 0 \notin Numbers
  /\ \A job \in Requests \cup Others : job.n \in Numbers /\ job # Drop /\ job \in Jobs
  /\ \A job \in Requests \cup Others : job.do = "request" => job \in Requests
  /\ \A job \in Requests : job.do = "request" /\ job.kind \in Kinds
BY ClientAssumption DEF Numbers, Requests, Others, Drop, Jobs

\* Leaving one of several jobs with different numbers.
LEMMA OneLess ==
  ASSUME NEW jobs, \A a, b \in jobs : a.n = b.n => a = b, NEW job \in jobs
  PROVE  Nums(jobs \ {job}) = Nums(jobs) \ {job.n}
BY DEF Nums

\* What a promise may hold can be told apart.
LEMMA ValuesDiffer ==
  /\ Unset # Failed /\ Unset # Done /\ None # Unset /\ None # Failed /\ None # Done
  /\ Failed # Done
  /\ Unset \notin AllAnswers /\ None \notin AllAnswers
  /\ Failed \notin AllAnswers /\ Done \notin AllAnswers
BY ClientAssumption

\* An answer to a request is one of all answers.
LEMMA OneOfAllAnswers ==
  ASSUME NEW n \in Numbers, NEW kind \in Kinds
  PROVE  AnswersTo(n, kind) \subseteq AllAnswers
BY DEF AllAnswers

\* The event loop's state after a promise is set, and after a request is queued.
LEMMA SettledState ==
  ASSUME NEW s \in IoStates, NEW n \in Numbers,
         NEW value \in AllAnswers \cup {Unset, Failed, Done}
  PROVE  /\ Settled(s, n, value) = [s EXCEPT !.promise = [s.promise EXCEPT ![n] = value]]
         /\ Settled(s, n, value) \in IoStates
BY DEF Settled, IoStates

\* A job whose promise is set is done with.
LEMMA SettleSound ==
  ASSUME made \in Nat, NEW s, NEW jobs, Sound(s, jobs), jobs \subseteq Requests \cup Others,
         NEW job \in jobs,
         NEW value, value = Failed \/ (value = Done /\ job.n \notin asked)
  PROVE  Sound(Settled(s, job.n, value), jobs \ {job})
<1> DEFINE t == Settled(s, job.n, value)
           J == jobs \ {job}
<1>1. job.n \in Numbers /\ s \in IoStates /\ value \in {Failed, Done}
  BY JobFacts DEF Sound
<1>2. t = [s EXCEPT !.promise = [s.promise EXCEPT ![job.n] = value]] /\ t \in IoStates
  BY <1>1, SettledState
<1> HIDE DEF t
<1>3. /\ t.connected = s.connected /\ t.pending = s.pending /\ t.sendQueue = s.sendQueue
      /\ t.ops = s.ops /\ t.promise = [s.promise EXCEPT ![job.n] = value]
  BY <1>1, <1>2 DEF IoStates
<1>4. Writing(t)
  BY <1>3, Zenon DEF Sound, Writing
<1>5. Ids(t) = Ids(s) /\ Unsent(t) = Unsent(s)
  BY <1>3 DEF Ids, Unsent
<1>6. Nums(J) = Nums(jobs) \ {job.n} /\ Nums(J) \subseteq Nums(jobs)
  <2>1. \A a, b \in jobs : a.n = b.n => a = b
    BY Zenon DEF Sound, Owned
  <2>2. Nums(jobs \ {job}) = Nums(jobs) \ {job.n}
    BY <2>1, OneLess
  <2> QED
    BY <2>2
<1>7. Owned(t, J)
  <2>1. /\ \A a, b \in J : a.n = b.n => a = b
        /\ \A e, f \in t.pending : e.n = f.n => e = f
        /\ \A x \in J : x.do = "request" <=> x.n \in asked
    BY <1>3, Zenon DEF Sound, Owned
  <2>2. /\ Nums(J) \cap Ids(t) = {}
        /\ Nums(J) \cup Ids(t) \subseteq 1..made
        /\ Ids(t) \subseteq asked
    BY <1>5, <1>6 DEF Sound, Owned
  <2>3. job.n \notin Ids(s) /\ ~(job.n > made) /\ job.n \in Nums(jobs)
    <3>1. job.n \in Nums(jobs)
      BY DEF Nums
    <3>2. job.n \notin Ids(s) /\ job.n \in 1..made
      BY <3>1 DEF Sound, Owned
    <3> QED
      BY <3>1, <3>2
  <2>4. \A n \in Numbers : t.promise[n] = IF n = job.n THEN value ELSE s.promise[n]
    BY <1>1, <1>3 DEF IoStates
  <2>5. value # Unset
    BY <1>1, ValuesDiffer
  <2>6. \A n \in Numbers : t.promise[n] = Unset <=> n \in Nums(J) \cup Ids(t) \/ n > made
    <3> TAKE n \in Numbers
    <3>1. s.promise[n] = Unset <=> n \in Nums(jobs) \cup Ids(s) \/ n > made
      BY DEF Sound, Owned
    <3> QED
      BY <1>5, <1>6, <2>3, <2>4, <2>5, <3>1
  <2>7. \A n \in Numbers : t.promise[n] \in
          {Unset, Failed} \cup IF n \in asked THEN {answers[n]} \ {None} ELSE {Done}
    <3> TAKE n \in Numbers
    <3>1. s.promise[n] \in {Unset, Failed} \cup IF n \in asked THEN {answers[n]} \ {None} ELSE {Done}
      BY DEF Sound, Owned
    <3> QED
      BY <2>4, <3>1
  <2> QED
    BY <2>1, <2>2, <2>6, <2>7, Zenon DEF Owned
<1>8. SentOnce(t, J)
  <2>1. \A x : RequestKnown(t, x) <=> RequestKnown(s, x)
    BY <1>3, Zenon DEF RequestKnown
  <2>2. \A x : FrameKnown(t, x) <=> FrameKnown(s, x)
    BY <1>3, Zenon DEF FrameKnown, AnswerIn
  <2>3. Nums(J) \cap (Nums(ToSet(s.sendQueue)) \cup Nums(AtServer) \cup Answered) = {}
    BY <1>6, Zenon DEF Sound, SentOnce
  <2> QED
    BY <1>3, <1>5, <2>1, <2>2, <2>3, Zenon DEF Sound, SentOnce
<1> QED
  BY <1>2, <1>4, <1>7, <1>8, Zenon DEF Sound, t

\* The opcodes of responses tell the calls apart.
LEMMA Opcodes ==
  /\ \A kind \in Calls : ResponseOpcode(kind) \in Nat
  /\ \A k, l \in Calls : ResponseOpcode(k) = ResponseOpcode(l) => k = l
  /\ \A kind \in Calls : KindOf(ResponseOpcode(kind)) = kind
<1>1. \A kind \in Calls : ResponseOpcode(kind) \in Nat
  BY DEF Calls, RequestOpcode, ResponseOpcode
<1>2. ASSUME NEW k \in Calls, NEW l \in Calls, ResponseOpcode(k) = ResponseOpcode(l) PROVE k = l
  <2>1. RequestOpcode(k) = RequestOpcode(l)
    <3>1. RequestOpcode(k) \in Nat /\ RequestOpcode(l) \in Nat
      BY DEF Calls, RequestOpcode
    <3> QED
      BY <1>2, <3>1 DEF ResponseOpcode
  <2> QED
    BY <2>1 DEF Calls, RequestOpcode
<1>3. \A kind \in Calls : KindOf(ResponseOpcode(kind)) = kind
  BY <1>2, Zenon DEF KindOf
<1> QED
  BY <1>1, <1>2, <1>3

\* Appending a job to a sequence of others.
LEMMA OneMore ==
  ASSUME NEW S, NEW q \in Seq(S), NEW x \in S
  PROVE  Append(q, x) \in Seq(S) /\ Append(q, x) # <<>> /\ ToSet(Append(q, x)) = ToSet(q) \cup {x}
<1>1. /\ DOMAIN q = 1..Len(q) /\ Len(q) \in Nat /\ DOMAIN Append(q, x) = 1..(Len(q) + 1)
      /\ Append(q, x)[Len(q) + 1] = x /\ \A i \in 1..Len(q) : Append(q, x)[i] = q[i]
      /\ Append(q, x) \in Seq(S) /\ Append(q, x) # <<>>
  OBVIOUS
<1> DEFINE r == Append(q, x)
<1> HIDE DEF r
<1>2. ToSet(r) = ToSet(q) \cup {x}
  BY <1>1 DEF ToSet, r
<1> QED
  BY <1>1, <1>2 DEF r

\* A job with another number than those of a sequence can be appended to it.
LEMMA OneMoreDistinct ==
  ASSUME NEW S, NEW q \in Seq(S), NEW x \in S, Distinct(q),
         x # Drop => x.n \notin Nums(ToSet(q) \ {Drop})
  PROVE  Distinct(Append(q, x))
<1>1. /\ DOMAIN q = 1..Len(q) /\ Len(q) \in Nat /\ DOMAIN Append(q, x) = 1..(Len(q) + 1)
      /\ Append(q, x)[Len(q) + 1] = x /\ \A i \in 1..Len(q) : Append(q, x)[i] = q[i]
      /\ Append(q, x) \in Seq(S) /\ Append(q, x) # <<>>
  OBVIOUS
<1> DEFINE r == Append(q, x)
<1> HIDE DEF r
<1>2. Distinct(r)
  <2> SUFFICES ASSUME NEW i \in DOMAIN r, NEW j \in DOMAIN r, r[i] # Drop, r[j] # Drop,
                      r[i].n = r[j].n
               PROVE  i = j
    BY Zenon DEF Distinct
  <2>1. ASSUME NEW k \in 1..Len(q), q[k] # Drop PROVE q[k].n \in Nums(ToSet(q) \ {Drop})
    BY <1>1, <2>1 DEF Nums, ToSet
  <2>2. CASE i = Len(q) + 1 /\ j = Len(q) + 1
    BY <2>2
  <2>3. r[Len(q) + 1] = x /\ \A k \in DOMAIN r : k # Len(q) + 1 => k \in 1..Len(q) /\ r[k] = q[k]
    BY <1>1 DEF r
  <2>4. CASE (i = Len(q) + 1) # (j = Len(q) + 1)
    <3>1. PICK k \in 1..Len(q) : q[k] # Drop /\ q[k].n = x.n /\ x # Drop
      BY <2>3, <2>4
    <3> QED
      BY <2>1, <3>1
  <2>5. CASE i # Len(q) + 1 /\ j # Len(q) + 1
    BY <1>1, <2>5 DEF r, Distinct
  <2> QED
    BY <2>2, <2>4, <2>5
<1> QED
  BY <1>2 DEF r

-----------------------------------------------------------------------------
(* The event loop's functions: each keeps its state sound, for the jobs    *)
(* that are left to do.                                                    *)

\* A request that is queued on an open connection.
LEMMA EnqueueSound ==
  ASSUME made \in Nat, Answered \subseteq Numbers, NEW s, NEW jobs, Sound(s, jobs),
         jobs \subseteq Requests \cup Others,
         NEW job \in jobs, job.do = "request", s.connected
  PROVE  LET t == Complete(s, job, TRUE)
         IN  /\ Sound(t, jobs \ {job})
             /\ t.connected = s.connected /\ t.connecting = s.connecting /\ t.waiters = s.waiters
             /\ \A op : op.kind # "write" => (op \in t.ops <=> op \in s.ops)
<1> DEFINE t == Complete(s, job, TRUE)
           J == jobs \ {job}
           e == [n |-> job.n, opcode |-> ResponseOpcode(job.kind)]
           q == s.sendQueue
           queued == [s EXCEPT !.pending = @ \cup {e}, !.sendQueue = Append(@, job)]
<1>1. /\ job \in Requests /\ job.n \in Numbers /\ job.kind \in Calls /\ job # Drop
      /\ s \in IoStates /\ e \in Entries /\ e.n = job.n /\ e.opcode = ResponseOpcode(job.kind)
  <2>1. job \in Requests /\ job.n \in Numbers /\ job.kind \in Calls /\ job # Drop
    BY ClientAssumption, JobFacts
  <2>2. ResponseOpcode(job.kind) \in Nat
    BY <2>1, Opcodes
  <2> QED
    BY <2>1, <2>2 DEF Sound, Entries
<1> HIDE DEF e
<1>2. /\ q \in Seq(Requests) /\ Append(q, job) \in Seq(Requests) /\ Append(q, job) # <<>>
      /\ ToSet(Append(q, job)) = ToSet(q) \cup {job}
      /\ Len(Append(q, job)) = 1 <=> q = <<>>
  <2>1. q \in Seq(Requests)
    BY <1>1 DEF IoStates
  <2> HIDE DEF q
  <2>2. Len(Append(q, job)) = 1 <=> q = <<>>
    BY <2>1
  <2>3. /\ Append(q, job) \in Seq(Requests) /\ Append(q, job) # <<>>
        /\ ToSet(Append(q, job)) = ToSet(q) \cup {job}
    <3>1. job \in Requests
      BY <1>1
    <3> QED
      BY <2>1, <3>1, OneMore
  <2> QED
    BY <2>1, <2>2, <2>3
<1>3. t = IF q = <<>> THEN [queued EXCEPT !.ops = @ \cup {Op("write")}] ELSE queued
  <2>1. queued.sendQueue = Append(q, job)
    BY <1>1 DEF IoStates
  <2>2. t = IF Len(queued.sendQueue) = 1 THEN DoWrite(queued) ELSE queued
    BY Zenon DEF Complete, e
  <2>3. DoWrite(queued) = [queued EXCEPT !.ops = @ \cup {Op("write")}]
    <3> HIDE DEF queued
    <3> QED
      BY <1>2, <2>1, Zenon DEF DoWrite, Started, Op
  <2> HIDE DEF t, queued
  <2> QED
    BY <1>2, <2>1, <2>2, <2>3
<1>4. /\ t.connected = s.connected /\ t.connecting = s.connecting /\ t.waiters = s.waiters
      /\ t.pending = s.pending \cup {e} /\ t.sendQueue = Append(q, job) /\ t.promise = s.promise
      /\ t.ops = IF q = <<>> THEN s.ops \cup {Op("write")} ELSE s.ops
      /\ t \in IoStates
  <2> DEFINE u == [queued EXCEPT !.ops = @ \cup {Op("write")}]
  <2>1. /\ queued \in IoStates /\ queued.pending = s.pending \cup {e}
        /\ queued.sendQueue = Append(q, job) /\ queued.promise = s.promise
        /\ queued.ops = s.ops /\ queued.connected = s.connected
        /\ queued.connecting = s.connecting /\ queued.waiters = s.waiters
    BY <1>1, <1>2 DEF IoStates
  <2>2. Op("write") \in [kind : AsyncKinds, sent : BOOLEAN, old : BOOLEAN]
    BY DEF Op, AsyncKinds
  <2> HIDE DEF queued
  <2>3. /\ u \in IoStates /\ u.pending = queued.pending
        /\ u.sendQueue = queued.sendQueue /\ u.promise = queued.promise
        /\ u.ops = queued.ops \cup {Op("write")} /\ u.connected = queued.connected
        /\ u.connecting = queued.connecting /\ u.waiters = queued.waiters
    BY <2>1, <2>2 DEF IoStates
  <2> HIDE DEF t, u
  <2>4. CASE q = <<>>
    <3>1. t = u
      BY <1>3, <2>4 DEF u
    <3> QED
      BY <2>1, <2>3, <2>4, <3>1
  <2>5. CASE q # <<>>
    <3>1. t = queued
      BY <1>3, <2>5
    <3> QED
      BY <2>1, <2>5, <3>1
  <2> QED
    BY <2>4, <2>5
<1> HIDE DEF t, q, J
<1>5. Op("write") # Written /\ ~Op("write").sent /\ Op("write").kind = "write"
  BY DEF Op, Written
<1>6. Writing(t)
  BY <1>2, <1>4, <1>5 DEF Sound, Writing, q
<1>7. /\ Ids(t) = Ids(s) \cup {job.n} /\ Nums(J) = Nums(jobs) \ {job.n}
      /\ job.n \in Nums(jobs) /\ job.n \notin Ids(s)
  <2>1. Nums(jobs \ {job}) = Nums(jobs) \ {job.n}
    <3>1. \A a, b \in jobs : a.n = b.n => a = b
      BY Zenon DEF Sound, Owned
    <3> QED
      BY <3>1, OneLess, Zenon
  <2>2. job.n \in Nums(jobs) /\ Nums(jobs) \cap Ids(s) = {}
    BY DEF Sound, Owned, Nums
  <2>3. Ids(t) = Ids(s) \cup {job.n}
    BY <1>1, <1>4 DEF Ids
  <2> QED
    BY <2>1, <2>2, <2>3 DEF J
<1>8. Owned(t, J)
  <2>1. \A a, b \in J : a.n = b.n => a = b
    BY DEF Sound, Owned, J
  <2>2. \A f \in s.pending : f.n \in Ids(s)
    BY DEF Ids
  <2>3. \A f, g \in t.pending : f.n = g.n => f = g
    <3>1. \A f, g \in s.pending : f.n = g.n => f = g
      BY DEF Sound, Owned
    <3> QED
      BY <1>1, <1>4, <1>7, <2>2, <3>1
  <2>4. Nums(J) \cap Ids(t) = {} /\ Nums(J) \cup Ids(t) = Nums(jobs) \cup Ids(s)
    BY <1>7 DEF Sound, Owned
  <2>5. Nums(jobs) \cup Ids(s) \subseteq 1..made
    BY DEF Sound, Owned
  <2>6. \A n \in Numbers : t.promise[n] = Unset <=> n \in Nums(J) \cup Ids(t) \/ n > made
    BY <1>4, <2>4 DEF Sound, Owned
  <2>7. \A n \in Numbers :
          t.promise[n] \in {Unset, Failed} \cup IF n \in asked THEN {answers[n]} \ {None} ELSE {Done}
    BY <1>4, Zenon DEF Sound, Owned
  <2>8. (\A x \in jobs : x.do = "request" <=> x.n \in asked) /\ Ids(s) \subseteq asked
    BY Zenon DEF Sound, Owned
  <2>9. \A x \in J : x.do = "request" <=> x.n \in asked
    BY <2>8 DEF J
  <2>10. Ids(t) \subseteq asked
    BY <1>7, <2>8
  <2> QED
    BY <2>1, <2>3, <2>4, <2>5, <2>6, <2>7, <2>9, <2>10, Zenon DEF Owned
<1>9. SentOnce(t, J)
  <2>1. /\ Distinct(q) /\ Unsent(s) \cap (Nums(AtServer) \cup Answered) = {}
        /\ Nums(jobs) \cap (Nums(ToSet(q)) \cup Nums(AtServer) \cup Answered) = {}
        /\ \A x \in ToSet(q) \cup AtServer : RequestKnown(s, x)
        /\ \A i \in DOMAIN wire.toClient : FrameKnown(s, wire.toClient[i])
    BY Zenon DEF Sound, SentOnce, q
  <2>2. Distinct(t.sendQueue)
    <3>1. job.n \notin Nums(ToSet(q) \ {Drop})
      BY <1>7, <2>1 DEF Nums
    <3> QED
      BY <1>1, <1>2, <1>4, <2>1, <3>1, OneMoreDistinct
  <2>3. Unsent(t) \subseteq Unsent(s) \cup {job.n}
    <3> SUFFICES ASSUME NEW i \in DOMAIN t.sendQueue, Written \in t.ops => i > 1
                 PROVE  t.sendQueue[i].n \in Unsent(s) \cup {job.n}
      BY DEF Unsent
    <3>1. Written \in s.ops => Written \in t.ops
      BY <1>4
    <3>2. i \in 1..(Len(q) + 1) /\ Len(q) \in Nat
      BY <1>2, <1>4
    <3>3. CASE i = Len(q) + 1
      BY <1>2, <1>4, <3>2, <3>3
    <3>4. CASE i # Len(q) + 1
      <4>1. i \in DOMAIN s.sendQueue /\ t.sendQueue[i] = s.sendQueue[i]
        BY <1>2, <1>4, <3>2, <3>4 DEF q
      <4> QED
        BY <3>1, <4>1 DEF Unsent
    <3> QED
      BY <3>3, <3>4
  <2>4. Unsent(t) \cap (Nums(AtServer) \cup Answered) = {}
    BY <1>7, <2>1, <2>3
  <2>5. Nums(ToSet(t.sendQueue)) = Nums(ToSet(q)) \cup {job.n}
    BY <1>2, <1>4 DEF Nums
  <2>6. Nums(J) \cap (Nums(ToSet(t.sendQueue)) \cup Nums(AtServer) \cup Answered) = {}
    BY <1>7, <2>1, <2>5
  <2>7. ASSUME NEW x \in ToSet(t.sendQueue) \cup AtServer PROVE RequestKnown(t, x)
    <3>1. job.n \in asked
      BY <1>1 DEF Sound, Owned
    <3>2. CASE x = job
      <4>1. \A f \in s.pending : f.n # job.n
        BY <1>7 DEF Ids
      <4> QED
        BY <1>1, <1>4, <3>1, <3>2, <4>1 DEF RequestKnown
    <3>3. CASE x # job
      <4>1. x \in ToSet(q) \cup AtServer
        BY <1>2, <1>4, <2>7, <3>3
      <4>2. x.n # job.n
        <5>1. x.n \in Nums(ToSet(q)) \cup Nums(AtServer)
          BY <4>1 DEF Nums
        <5> QED
          BY <1>7, <2>1, <5>1
      <4>3. RequestKnown(s, x)
        BY <2>1, <4>1
      <4> QED
        BY <1>1, <1>4, <4>2, <4>3 DEF RequestKnown
    <3> QED
      BY <3>2, <3>3
  <2>8. ASSUME NEW i \in DOMAIN wire.toClient PROVE FrameKnown(t, wire.toClient[i])
    <3> DEFINE frame == wire.toClient[i]
    <3>1. FrameKnown(s, frame)
      <4>1. \A k \in DOMAIN wire.toClient : FrameKnown(s, wire.toClient[k])
        BY <2>1
      <4> QED
        BY <4>1, Zenon
    <3> HIDE DEF frame
    <3>2. PICK kind \in Kinds : AnswerIn(s, frame, kind)
      BY <3>1, Zenon DEF FrameKnown
    <3>3. frame.n \in Numbers /\ frame.opcode \in {ResponseOpcode(k) : k \in Calls}
      BY <3>1 DEF FrameKnown
    <3>4. frame.n # job.n
      <4>1. answers[frame.n] \in AllAnswers
        <5>1. PICK a \in AnswersTo(frame.n, kind) : answers[frame.n] = a
          BY <3>2, Zenon DEF AnswerIn
        <5>2. AnswersTo(frame.n, kind) \subseteq AllAnswers
          BY <3>3, OneOfAllAnswers, Zenon
        <5> QED
          BY <5>1, <5>2
      <4>2. frame.n \in Answered
        BY <3>3, <4>1, ValuesDiffer DEF Answered
      <4> QED
        BY <1>7, <2>1, <4>2
    <3>5. AnswerIn(t, frame, kind)
      <4>1. \A f \in s.pending : f.n = frame.n => f.opcode = ResponseOpcode(kind)
        BY <3>2, Zenon DEF AnswerIn
      <4>2. \A f \in t.pending : f.n = frame.n => f.opcode = ResponseOpcode(kind)
        BY <1>1, <1>4, <3>4, <4>1
      <4> QED
        BY <3>2, <4>2, Zenon DEF AnswerIn
    <3>6. FrameKnown(t, frame)
      BY <3>3, <3>5, Zenon DEF FrameKnown
    <3> QED
      BY <3>6, Zenon DEF frame
  <2> QED
    BY <1>4, <2>2, <2>4, <2>6, <2>7, <2>8, Zenon DEF SentOnce
<1>10. \A op : op.kind # "write" => (op \in t.ops <=> op \in s.ops)
  BY <1>4, <1>5
<1> QED
  BY <1>4, <1>6, <1>8, <1>9, <1>10, Zenon DEF Sound, t, J

\* What the functions below leave alone.
SameConnection(s, t) ==
  /\ t.connected = s.connected /\ t.connecting = s.connecting /\ t.waiters = s.waiters
  /\ \A op : op.kind # "write" => (op \in t.ops <=> op \in s.ops)

\* A completion that waited for the connection.
LEMMA CompleteSound ==
  ASSUME made \in Nat, Answered \subseteq Numbers, NEW s, NEW jobs, Sound(s, jobs),
         jobs \subseteq Requests \cup Others,
         NEW job \in jobs, job.do # "close", NEW ok \in BOOLEAN, ok => s.connected
  PROVE  Sound(Complete(s, job, ok), jobs \ {job}) /\ SameConnection(s, Complete(s, job, ok))
<1>1. ASSUME NEW value, value = Failed \/ (value = Done /\ job.n \notin asked)
      PROVE  Sound(Settled(s, job.n, value), jobs \ {job}) /\ SameConnection(s, Settled(s, job.n, value))
  <2>1. Sound(Settled(s, job.n, value), jobs \ {job})
    BY <1>1, SettleSound, Zenon
  <2>2. SameConnection(s, Settled(s, job.n, value))
    <3>1. s \in IoStates
      BY DEF Sound
    <3> QED
      BY <3>1 DEF SameConnection, Settled, IoStates
  <2> QED
    BY <2>1, <2>2
<1>2. CASE job.do = "request" /\ ok
  <2>1. ok = TRUE
    BY <1>2
  <2>2. Sound(Complete(s, job, TRUE), jobs \ {job}) /\ SameConnection(s, Complete(s, job, TRUE))
    BY <1>2, EnqueueSound DEF SameConnection
  <2> QED
    BY <2>1, <2>2, Zenon
<1>3. CASE ~ok
  <2>1. Complete(s, job, ok) = Settled(s, job.n, Failed)
    BY <1>3, Zenon DEF Complete
  <2> QED
    BY <1>1, <2>1, Zenon
<1>4. CASE job.do = "connect" /\ ok
  <2>1. Complete(s, job, ok) = Settled(s, job.n, Done)
    BY <1>4, Zenon DEF Complete
  <2>2. job.n \notin asked
    BY <1>4, Zenon DEF Sound, Owned
  <2> QED
    BY <1>1, <2>1, <2>2, Zenon
<1>5. job.do \in {"request", "connect"}
  BY DEF Requests, Others
<1> QED
  BY <1>2, <1>3, <1>4, <1>5

\* Completions are run one after the other.
LEMMA CompletedInOrder ==
  ASSUME NEW s, NEW q, NEW ok, Len(q) \in Nat
  PROVE  \E f :
           /\ f[0] = s
           /\ \A i \in 1..Len(q) : f[i] = Complete(f[i - 1], q[i], ok)
           /\ CompleteAll(s, q, ok) = f[Len(q)]
<1> DEFINE F(f, n) == f = [i \in 0..n |-> IF i = 0 THEN s ELSE Complete(f[i - 1], q[i], ok)]
           T == {n \in 0..Len(q) : \E f : F(f, n)}
<1>1. 0 \in T
  <2>1. F([i \in 0..0 |-> s], 0)
    OBVIOUS
  <2>2. \E f : F(f, 0)
    BY <2>1, Zenon
  <2> QED
    BY <2>2
<1>2. ASSUME NEW n \in T, n < Len(q) PROVE n + 1 \in T
  <2>1. PICK f : F(f, n)
    BY <1>2
  <2> DEFINE g == [i \in 0..(n + 1) |-> IF i = n + 1 THEN Complete(f[n], q[n + 1], ok) ELSE f[i]]
  <2>2. F(g, n + 1)
    BY <2>1
  <2> HIDE DEF g
  <2>3. \E h : F(h, n + 1)
    BY <2>2, Zenon
  <2>4. n + 1 \in 0..Len(q)
    BY <1>2
  <2> QED
    BY <2>3, <2>4
<1>3. T = 0..Len(q)
  <2>1. T \in SUBSET (0..Len(q))
    OBVIOUS
  <2> HIDE DEF T
  <2> QED
    BY <1>1, <1>2, <2>1, Induction
<1>4. PICK f : F(f, Len(q))
  BY <1>3
<1> DEFINE after == CHOOSE g : F(g, Len(q))
<1>5. F(after, Len(q))
  BY <1>4
<1>6. CompleteAll(s, q, ok) = after[Len(q)]
  BY DEF CompleteAll
<1> HIDE DEF after
<1>7. after[0] = s /\ \A i \in 1..Len(q) : after[i] = Complete(after[i - 1], q[i], ok)
  BY <1>5
<1> QED
  BY <1>6, <1>7, Zenon

\* All that waited for the connection are told, each once.
LEMMA CompleteAllSound ==
  ASSUME made \in Nat, Answered \subseteq Numbers, NEW s, NEW jobs, Sound(s, jobs),
         jobs \subseteq Requests \cup Others,
         NEW q \in Seq(Requests \cup Others), Distinct(q), ToSet(q) \subseteq jobs,
         \A job \in ToSet(q) : job.do # "close",
         NEW ok \in BOOLEAN, ok => s.connected
  PROVE  Sound(CompleteAll(s, q, ok), jobs \ ToSet(q)) /\ SameConnection(s, CompleteAll(s, q, ok))
<1>1. Len(q) \in Nat /\ DOMAIN q = 1..Len(q) /\ \A i \in 1..Len(q) : q[i] \in ToSet(q)
  BY DEF ToSet
<1>2. PICK f :
        /\ f[0] = s
        /\ \A i \in 1..Len(q) : f[i] = Complete(f[i - 1], q[i], ok)
        /\ CompleteAll(s, q, ok) = f[Len(q)]
  BY <1>1, CompletedInOrder
<1> DEFINE First(i) == {q[k] : k \in 1..i}
           Good(i) == Sound(f[i], jobs \ First(i)) /\ SameConnection(s, f[i])
           T == {i \in 0..Len(q) : Good(i)}
<1>3. 0 \in T
  <2>1. First(0) = {}
    OBVIOUS
  <2>2. SameConnection(s, s)
    BY Zenon DEF SameConnection
  <2>3. jobs \ First(0) = jobs
    BY <2>1
  <2>4. 0 \in 0..Len(q)
    BY <1>1
  <2> HIDE DEF First
  <2> QED
    BY <1>2, <2>2, <2>3, <2>4
<1>4. ASSUME NEW i \in T, i < Len(q) PROVE i + 1 \in T
  <2> DEFINE j == i + 1
             J == jobs \ First(i)
  <2>1. j \in 1..Len(q) /\ j - 1 = i /\ j \in 0..Len(q) /\ i \in Nat /\ i < j
    BY <1>1, <1>4
  <2>2. First(j) = First(i) \cup {q[j]}
    BY <2>1
  <2>3. q[j] \in J
    <3>1. q[j] \in jobs /\ q[j] # Drop
      BY <1>1, <2>1, JobFacts
    <3>2. ASSUME NEW k \in 1..i PROVE q[k] # q[j]
      <4>1. k \in DOMAIN q /\ j \in DOMAIN q /\ k # j
        BY <1>1, <2>1
      <4> HIDE DEF j
      <4> QED
        BY <3>1, <4>1 DEF Distinct
    <3> QED
      BY <3>1, <3>2
  <2>4. Good(i)
    BY <1>4
  <2> HIDE DEF j, First, J
  <2>5. f[j] = Complete(f[i], q[j], ok) /\ q[j].do # "close"
    BY <1>1, <1>2, <2>1
  <2>6. Sound(f[i], J) /\ SameConnection(s, f[i]) /\ J \subseteq Requests \cup Others
    BY <2>4 DEF J
  <2>7. ok => f[i].connected
    BY <2>6 DEF SameConnection
  <2>8. Sound(f[j], J \ {q[j]}) /\ SameConnection(f[i], f[j])
    <3>1. PICK u : u = f[i]
      OBVIOUS
    <3>2. Sound(u, J) /\ (ok => u.connected)
      BY <2>6, <2>7, <3>1, Zenon
    <3>3. Sound(Complete(u, q[j], ok), J \ {q[j]}) /\ SameConnection(u, Complete(u, q[j], ok))
      BY <2>3, <2>5, <2>6, <3>2, CompleteSound, Zenon
    <3> QED
      BY <2>5, <3>1, <3>3, Zenon
  <2>9. J \ {q[j]} = jobs \ First(j)
    BY <2>2 DEF J
  <2>10. SameConnection(s, f[j])
    BY <2>6, <2>8, Zenon DEF SameConnection
  <2>11. Good(j)
    BY <2>8, <2>9, <2>10, Zenon
  <2> HIDE DEF Good
  <2> QED
    BY <2>1, <2>11 DEF j
<1>5. T = 0..Len(q)
  <2>1. T \in SUBSET (0..Len(q))
    OBVIOUS
  <2> HIDE DEF T
  <2> QED
    BY <1>1, <1>3, <1>4, <2>1, Induction
<1>6. Good(Len(q))
  <2>1. Len(q) \in 0..Len(q)
    BY <1>1
  <2> HIDE DEF Good
  <2> QED
    BY <1>5, <2>1
<1>7. First(Len(q)) = ToSet(q)
  BY <1>1 DEF ToSet
<1> HIDE DEF First
<1> QED
  BY <1>2, <1>6, <1>7

\* Promises, packets and what is known of them do not depend on the rest of the state.
LEMMA SoundAlike ==
  ASSUME NEW s, NEW jobs, Sound(s, jobs), NEW t \in IoStates, Writing(t),
         t.pending = s.pending, t.sendQueue = s.sendQueue, t.promise = s.promise,
         Written \in t.ops <=> Written \in s.ops
  PROVE  Sound(t, jobs)
<1>1. Ids(t) = Ids(s) /\ Unsent(t) = Unsent(s)
  BY DEF Ids, Unsent
<1>2. Owned(t, jobs)
  BY <1>1, Zenon DEF Sound, Owned
<1>3. (\A x : RequestKnown(t, x) <=> RequestKnown(s, x)) /\ (\A x : FrameKnown(t, x) <=> FrameKnown(s, x))
  BY Zenon DEF RequestKnown, FrameKnown, AnswerIn
<1>4. SentOnce(t, jobs)
  BY <1>1, <1>3, Zenon DEF Sound, SentOnce
<1> QED
  BY <1>2, <1>4, Zenon DEF Sound

\* Operations that are no writing come and go.
LEMMA OpsAreApart ==
  /\ \A kind \in AsyncKinds :
       /\ Op(kind) \in [kind : AsyncKinds, sent : BOOLEAN, old : BOOLEAN]
       /\ Op(kind).kind = kind /\ ~Op(kind).sent /\ ~Op(kind).old /\ Op(kind) # Written
  /\ Written.kind = "write" /\ Written.sent /\ ~Written.old
  /\ Written \in [kind : AsyncKinds, sent : BOOLEAN, old : BOOLEAN]
  /\ \A op \in [kind : AsyncKinds, sent : BOOLEAN, old : BOOLEAN] :
       ~op.sent /\ ~op.old => op = Op(op.kind)
BY DEF Op, Written, AsyncKinds

\* An operation that is no writing is started.
LEMMA StartSound ==
  ASSUME NEW s, NEW jobs, Sound(s, jobs), NEW kind \in AsyncKinds \ {"write"}
  PROVE  LET t == Started(s, kind)
         IN  /\ Sound(t, jobs) /\ t.ops = s.ops \cup {Op(kind)}
             /\ t.connected = s.connected /\ t.connecting = s.connecting /\ t.waiters = s.waiters
<1> DEFINE t == Started(s, kind)
<1>1. s \in IoStates
  BY DEF Sound
<1>2. t = [s EXCEPT !.ops = @ \cup {Op(kind)}]
  BY DEF Started, Op
<1>3. Op(kind) \in [kind : AsyncKinds, sent : BOOLEAN, old : BOOLEAN]
  BY OpsAreApart
<1> HIDE DEF t
<1>4. /\ t \in IoStates /\ t.ops = s.ops \cup {Op(kind)} /\ t.pending = s.pending
      /\ t.sendQueue = s.sendQueue /\ t.promise = s.promise
      /\ t.connected = s.connected /\ t.connecting = s.connecting /\ t.waiters = s.waiters
  BY <1>1, <1>2, <1>3 DEF IoStates
<1>5. ~Op(kind).sent /\ Op(kind) # Written /\ Op(kind) # Op("write")
  BY DEF Op, Written
<1>6. Writing(t)
  BY <1>4, <1>5 DEF Sound, Writing
<1>7. Sound(t, jobs)
  BY <1>4, <1>5, <1>6, SoundAlike
<1> QED
  BY <1>4, <1>7 DEF t

\* Operations of an earlier connection are none of the present one's.
LEMMA OutdatedOps ==
  ASSUME NEW ops \in SUBSET [kind : AsyncKinds, sent : BOOLEAN, old : BOOLEAN]
  PROVE  /\ Outdated(ops) \in SUBSET [kind : AsyncKinds, sent : BOOLEAN, old : BOOLEAN]
         /\ \A op \in Outdated(ops) : op.old /\ ~op.sent
         /\ \A kind : Op(kind) \notin Outdated(ops)
         /\ Written \notin Outdated(ops)
<1>1. ASSUME NEW op \in ops
      PROVE  LET o == [op EXCEPT !.old = TRUE, !.sent = FALSE]
             IN  o \in [kind : AsyncKinds, sent : BOOLEAN, old : BOOLEAN] /\ o.old /\ ~o.sent
  OBVIOUS
<1>2. /\ Outdated(ops) \in SUBSET [kind : AsyncKinds, sent : BOOLEAN, old : BOOLEAN]
      /\ \A op \in Outdated(ops) : op.old /\ ~op.sent
  BY <1>1 DEF Outdated
<1>3. (\A kind : ~Op(kind).old) /\ ~Written.old
  BY DEF Op, Written
<1> QED
  BY <1>2, <1>3

\* A connection that has been given up: promises of pending responses fail.  It does
\* not matter what operations were under way in it.
LEMMA AbandonSound ==
  ASSUME made \in Nat, NEW s, NEW jobs, Sound(s, jobs),
         NEW r \in IoStates, r.promise = s.promise, r.pending = s.pending
  PROVE  LET t == Abandoned(r)
         IN  /\ Sound(t, jobs)
             /\ ~t.connected /\ ~t.connecting /\ t.waiters = <<>> /\ \A op \in t.ops : op.old
<1> DEFINE t == Abandoned(r)
           promise == [n \in Numbers |-> IF n \in Ids(s) THEN Failed ELSE s.promise[n]]
<1>1. r \in IoStates /\ Ids(r) = Ids(s)
  BY DEF Ids
<1>2. t = [r EXCEPT !.ops = Outdated(r.ops), !.connected = FALSE, !.connecting = FALSE,
                    !.sendQueue = <<>>, !.pending = {}, !.waiters = <<>>, !.promise = promise]
  <2>1. [n \in Numbers |-> IF n \in Ids(r) THEN Failed ELSE r.promise[n]] = promise
    BY <1>1
  <2> HIDE DEF promise
  <2>2. t = [r EXCEPT !.ops = Outdated(r.ops), !.connected = FALSE, !.connecting = FALSE,
                      !.sendQueue = <<>>, !.pending = {}, !.waiters = <<>>,
                      !.promise = [n \in Numbers |-> IF n \in Ids(r) THEN Failed ELSE r.promise[n]]]
    BY <1>1 DEF Abandoned, IoStates
  <2> QED
    BY <2>1, <2>2
<1>3. /\ Outdated(r.ops) \in SUBSET [kind : AsyncKinds, sent : BOOLEAN, old : BOOLEAN]
      /\ \A op \in Outdated(r.ops) : op.old /\ ~op.sent
      /\ Op("write") \notin Outdated(r.ops) /\ Written \notin Outdated(r.ops)
  <2>1. r.ops \in SUBSET [kind : AsyncKinds, sent : BOOLEAN, old : BOOLEAN]
    BY <1>1 DEF IoStates
  <2> QED
    BY <2>1, OutdatedOps
<1>4. promise \in [Numbers -> AllAnswers \cup {Unset, Failed, Done}]
  BY <1>1 DEF IoStates
<1> HIDE DEF t, promise
<1>5. /\ t \in IoStates /\ t.ops = Outdated(r.ops) /\ t.connected = FALSE /\ t.connecting = FALSE
      /\ t.sendQueue = <<>> /\ t.pending = {} /\ t.waiters = <<>> /\ t.promise = promise
  <2>1. t = [connected |-> FALSE, connecting |-> FALSE, waiters |-> <<>>, pending |-> {},
             sendQueue |-> <<>>, promise |-> promise, ops |-> Outdated(r.ops)]
    BY <1>1, <1>2 DEF IoStates
  <2>2. <<>> \in Seq(Requests) /\ <<>> \in Seq(Requests \cup Others)
    OBVIOUS
  <2>3. t \in IoStates
    BY <1>3, <1>4, <2>1, <2>2 DEF IoStates
  <2> QED
    BY <2>1, <2>3
<1>6. Writing(t)
  BY <1>3, <1>5 DEF Writing
<1>7. Ids(t) = {} /\ Unsent(t) = {}
  BY <1>5 DEF Ids, Unsent
<1>8. Owned(t, jobs)
  <2>1. /\ \A a, b \in jobs : a.n = b.n => a = b
        /\ \A x \in jobs : x.do = "request" <=> x.n \in asked
    BY Zenon DEF Sound, Owned
  <2>2. /\ Nums(jobs) \cap Ids(s) = {} /\ Nums(jobs) \cup Ids(s) \subseteq 1..made
    BY DEF Sound, Owned
  <2>3. \A n \in Numbers : t.promise[n] = IF n \in Ids(s) THEN Failed ELSE s.promise[n]
    BY <1>5 DEF promise
  <2>4. \A n \in Numbers : t.promise[n] = Unset <=> n \in Nums(jobs) \/ n > made
    <3> TAKE n \in Numbers
    <3>1. s.promise[n] = Unset <=> n \in Nums(jobs) \cup Ids(s) \/ n > made
      BY DEF Sound, Owned
    <3> QED
      BY <2>2, <2>3, <3>1, ValuesDiffer
  <2>5. \A n \in Numbers : t.promise[n] \in
          {Unset, Failed} \cup IF n \in asked THEN {answers[n]} \ {None} ELSE {Done}
    <3> TAKE n \in Numbers
    <3>1. s.promise[n] \in {Unset, Failed} \cup IF n \in asked THEN {answers[n]} \ {None} ELSE {Done}
      BY DEF Sound, Owned
    <3> QED
      BY <2>3, <3>1
  <2> QED
    BY <1>5, <1>7, <2>1, <2>2, <2>4, <2>5 DEF Owned
<1>9. SentOnce(t, jobs)
  <2>1. Distinct(<<>>) /\ ToSet(<<>>) = {}
    BY DEF Distinct, ToSet
  <2>2. Nums(jobs) \cap (Nums(ToSet(t.sendQueue)) \cup Nums(AtServer) \cup Answered) = {}
    <3>1. Nums(jobs) \cap (Nums(AtServer) \cup Answered) = {} /\ Nums({}) = {}
      BY DEF Sound, SentOnce, Nums
    <3> QED
      BY <1>5, <2>1, <3>1
  <2>3. \A x \in AtServer : RequestKnown(t, x)
    <3>1. \A x \in AtServer : RequestKnown(s, x)
      BY DEF Sound, SentOnce
    <3> QED
      BY <1>5, <3>1 DEF RequestKnown
  <2>4. \A i \in DOMAIN wire.toClient : FrameKnown(t, wire.toClient[i])
    <3>1. \A i \in DOMAIN wire.toClient : FrameKnown(s, wire.toClient[i])
      BY DEF Sound, SentOnce
    <3>2. \A frame : FrameKnown(s, frame) => FrameKnown(t, frame)
      <4>1. \A frame, kind : AnswerIn(s, frame, kind) => AnswerIn(t, frame, kind)
        BY <1>5, Zenon DEF AnswerIn
      <4> QED
        BY <4>1, Zenon DEF FrameKnown
    <3> QED
      BY <3>1, <3>2, Zenon
  <2> QED
    BY <1>5, <1>7, <2>1, <2>2, <2>3, <2>4 DEF SentOnce
<1> QED
  BY <1>3, <1>5, <1>6, <1>8, <1>9 DEF Sound, t

\* Disconnecting: who waited for the connection is told that there is none.
LEMMA DisconnectSound ==
  ASSUME made \in Nat, Answered \subseteq Numbers, NEW s, NEW jobs, Sound(s, jobs),
         NEW r \in IoStates, r.promise = s.promise, r.pending = s.pending, r.waiters = s.waiters,
         jobs \subseteq Requests \cup Others, ToSet(s.waiters) \subseteq jobs, Distinct(s.waiters),
         \A job \in ToSet(s.waiters) : job.do # "close"
  PROVE  LET t == Disconnect(r)
         IN  Sound(t, jobs \ ToSet(s.waiters)) /\ Reading(t) /\ t.waiters = <<>> /\ ~t.connected
<1> DEFINE a == Abandoned(r)
           q == r.waiters
           t == CompleteAll(a, q, FALSE)
<1>1. /\ Sound(a, jobs)
      /\ ~a.connected /\ ~a.connecting /\ a.waiters = <<>> /\ \A op \in a.ops : op.old
  BY AbandonSound
<1>2. q \in Seq(Requests \cup Others)
  BY DEF Sound, IoStates
<1> HIDE DEF a
<1>3. Sound(t, jobs \ ToSet(q)) /\ SameConnection(a, t)
  BY <1>1, <1>2, CompleteAllSound, Zenon
<1> HIDE DEF t
<1>4. /\ t.connected = a.connected /\ t.connecting = a.connecting /\ t.waiters = a.waiters
      /\ \A op : op.kind # "write" => (op \in t.ops <=> op \in a.ops)
  BY <1>3, Zenon DEF SameConnection
<1>5. \A kind \in AsyncKinds \ {"write"} : Op(kind) \notin t.ops
  BY <1>1, <1>4, OpsAreApart
<1>6. Reading(t)
  BY <1>1, <1>4, <1>5 DEF Reading, AsyncKinds
<1> QED
  BY <1>1, <1>3, <1>4, <1>6 DEF Disconnect, a, t, q

\* The connection is open: who waited for it goes on.
LEMMA OpenSound ==
  ASSUME made \in Nat, Answered \subseteq Numbers, NEW s, NEW jobs, Sound(s, jobs),
         jobs \subseteq Requests \cup Others, ToSet(s.waiters) \subseteq jobs, Distinct(s.waiters),
         \A job \in ToSet(s.waiters) : job.do # "close"
  PROVE  LET t == OnOpen(s)
         IN  /\ Sound(t, jobs \ ToSet(s.waiters)) /\ t.waiters = <<>>
             /\ t.connected /\ ~t.connecting
             /\ \A op : op.kind # "write" => (op \in t.ops <=> op \in s.ops)
<1> DEFINE a == Open(s)
           q == s.waiters
           t == CompleteAll(a, q, TRUE)
<1>1. s \in IoStates
  BY DEF Sound
<1>2. /\ a \in IoStates /\ a.connected = TRUE /\ a.connecting = FALSE /\ a.waiters = <<>>
      /\ a.pending = s.pending /\ a.sendQueue = s.sendQueue /\ a.promise = s.promise /\ a.ops = s.ops
  <2>1. <<>> \in Seq(Requests \cup Others)
    OBVIOUS
  <2> QED
    BY <1>1, <2>1 DEF Open, IoStates
<1>3. q \in Seq(Requests \cup Others)
  BY <1>1 DEF IoStates
<1> HIDE DEF a
<1>4. Writing(a)
  BY <1>2, Zenon DEF Sound, Writing
<1>5. Sound(a, jobs)
  BY <1>2, <1>4, SoundAlike, Zenon
<1>6. Sound(t, jobs \ ToSet(q)) /\ SameConnection(a, t)
  BY <1>2, <1>3, <1>5, CompleteAllSound
<1> HIDE DEF t
<1>7. /\ t.connected = a.connected /\ t.connecting = a.connecting /\ t.waiters = a.waiters
      /\ \A op : op.kind # "write" => (op \in t.ops <=> op \in a.ops)
  BY <1>6, Zenon DEF SameConnection
<1> QED
  BY <1>2, <1>6, <1>7, Zenon DEF OnOpen, a, t, q

-----------------------------------------------------------------------------
(* The event loop runs posted functions and handlers.                      *)

\* The event loop's next state, while the server answers nothing.
LEMMA SoundNext ==
  ASSUME NEW t, io' = t, NEW jobs, Sound(t, jobs),
         (Posted \cup Waiting(io))' = jobs,
         UNCHANGED <<made, asked, answers>>, AtServer' = AtServer,
         \A i \in DOMAIN wire.toClient' :
           \E k \in DOMAIN wire.toClient : wire.toClient'[i] = wire.toClient[k]
  PROVE  Sound(io, Posted \cup Waiting(io))'
<1>1. (io \in IoStates)' /\ Writing(io)'
  <2>1. t \in IoStates /\ Writing(t)
    BY DEF Sound
  <2>2. IoStates' = IoStates
    BY DEF IoStates, Requests, Others, Entries, AllAnswers, AnswersTo, Numbers
  <2> QED
    BY <2>1, <2>2, Zenon DEF Writing
<1>2. Owned(io, Posted \cup Waiting(io))'
  <2>1. Owned(t, jobs)
    BY DEF Sound
  <2> QED
    BY <2>1, Zenon DEF Owned, Ids, Nums
<1>3. \A x : RequestKnown(t, x) => RequestKnown(io, x)'
  BY Zenon DEF RequestKnown
<1>4. ASSUME NEW i \in DOMAIN wire.toClient' PROVE FrameKnown(io, wire.toClient[i])'
  <2>1. PICK k \in DOMAIN wire.toClient : wire.toClient'[i] = wire.toClient[k]
    OBVIOUS
  <2>2. FrameKnown(t, wire.toClient[k])
    BY DEF Sound, SentOnce
  <2>3. PICK kind \in Kinds : AnswerIn(t, wire.toClient[k], kind)
    BY <2>2, Zenon DEF FrameKnown
  <2>4. AnswerIn(io, wire.toClient[i], kind)'
    BY <2>1, <2>3, Zenon DEF AnswerIn
  <2> QED
    BY <2>1, <2>2, <2>4, Zenon DEF FrameKnown
<1>5. SentOnce(io, Posted \cup Waiting(io))'
  <2>1. /\ Distinct(t.sendQueue)
        /\ Unsent(t) \cap (Nums(AtServer) \cup Answered) = {}
        /\ Nums(jobs) \cap (Nums(ToSet(t.sendQueue)) \cup Nums(AtServer) \cup Answered) = {}
        /\ \A job \in ToSet(t.sendQueue) \cup AtServer : RequestKnown(t, job)
        /\ \A i \in DOMAIN wire.toClient : FrameKnown(t, wire.toClient[i])
    BY DEF Sound, SentOnce
  <2>2. Answered' = Answered
    BY DEF Answered
  <2>4. Unsent(io)' = Unsent(t)
    BY DEF Unsent
  <2> QED
    BY <1>3, <1>4, <2>1, <2>2, <2>4, Zenon DEF SentOnce
<1> QED
  BY <1>1, <1>2, <1>5 DEF Sound

\* Taking the first of a sequence of jobs.
LEMMA OneTaken ==
  ASSUME NEW S, NEW q \in Seq(S), q # <<>>, Distinct(q)
  PROVE  /\ Tail(q) \in Seq(S) /\ Distinct(Tail(q)) /\ Head(q) \in ToSet(q) /\ Head(q) \in S
         /\ ToSet(q) = ToSet(Tail(q)) \cup {Head(q)}
         /\ Head(q) # Drop => ToSet(Tail(q)) \ {Drop} = (ToSet(q) \ {Drop}) \ {Head(q)}
         /\ Head(q) # Drop => Head(q).n \notin Nums(ToSet(Tail(q)) \ {Drop})
<1>1. /\ DOMAIN q = 1..Len(q) /\ Len(q) \in Nat /\ Len(q) > 0 /\ DOMAIN Tail(q) = 1..(Len(q) - 1)
      /\ Head(q) = q[1] /\ \A i \in 1..(Len(q) - 1) : Tail(q)[i] = q[i + 1]
      /\ Tail(q) \in Seq(S) /\ q[1] \in S
  OBVIOUS
<1> DEFINE r == Tail(q)
           h == Head(q)
<1> HIDE DEF r, h
<1>2. /\ \A i \in DOMAIN r : i + 1 \in DOMAIN q /\ r[i] = q[i + 1] /\ i + 1 # 1
      /\ \A k \in DOMAIN q : k = 1 \/ (k - 1 \in DOMAIN r /\ r[k - 1] = q[k])
      /\ 1 \in DOMAIN q /\ q[1] = h
  BY <1>1 DEF r, h
<1>3. Distinct(r)
  <2> SUFFICES ASSUME NEW i \in DOMAIN r, NEW j \in DOMAIN r, r[i] # Drop, r[j] # Drop,
                      r[i].n = r[j].n
               PROVE  i = j
    BY Zenon DEF Distinct
  <2>1. i + 1 = j + 1
    BY <1>2 DEF Distinct
  <2> QED
    BY <1>1, <2>1 DEF r
<1>4. ToSet(q) = ToSet(r) \cup {h}
  BY <1>2 DEF ToSet
<1>5. ASSUME h # Drop, NEW i \in DOMAIN r, r[i] # Drop PROVE r[i].n # h.n
  BY <1>2, <1>5 DEF Distinct
<1>6. h # Drop => h.n \notin Nums(ToSet(r) \ {Drop}) /\ h \notin ToSet(r) \ {Drop}
  <2>1. \A x \in ToSet(r) \ {Drop} : \E i \in DOMAIN r : r[i] # Drop /\ x = r[i]
    BY Zenon DEF ToSet
  <2> QED
    BY <1>5, <2>1, Zenon DEF Nums
<1> QED
  BY <1>1, <1>2, <1>3, <1>4, <1>6 DEF r, h

\* The operations under way that are no writing are those of the same connection.
LEMMA SameReading ==
  ASSUME NEW s, NEW t, Reading(s), SameConnection(s, t)
  PROVE  Reading(t)
<1>1. \A kind \in AsyncKinds \ {"write"} : Op(kind).kind # "write"
  BY OpsAreApart
<1>2. \A kind \in AsyncKinds \ {"write"} : Op(kind) \in t.ops <=> Op(kind) \in s.ops
  BY <1>1, Zenon DEF SameConnection
<1>3. {"readLength", "readData", "resolve", "connect", "timer"} \subseteq AsyncKinds \ {"write"}
  BY DEF AsyncKinds
<1> QED
  BY <1>2, <1>3 DEF Reading, SameConnection

\* Setting a promise does not touch the connection.
LEMMA SettledReading ==
  ASSUME NEW s \in IoStates, NEW n, NEW value
  PROVE  SameConnection(s, Settled(s, n, value))
BY DEF SameConnection, Settled, IoStates

\* The parts of the state that the event loop's functions leave alone.
LEMMA CalledSame ==
  Called /\ UNCHANGED <<made, call, asked, outcomes, answers>> => Called'
BY DEF Called, Answered

\* What is on its way stays there while neither network nor server does anything.
LEMMA CarriedSame ==
  Carried /\ UNCHANGED <<wire, answers>> => Carried'
BY Zenon DEF Carried, Requests, Frames, AtServer, Answered, Nums, Numbers

\* What the invariant says of the event loop's state, for the lemmas above.
LEMMA IoFacts ==
  ASSUME ClientInv
  PROVE  /\ made \in Nat /\ Answered \subseteq Numbers
         /\ Sound(io, Posted \cup Waiting(io)) /\ io \in IoStates
         /\ Posted \cup Waiting(io) \subseteq Requests \cup Others
         /\ ToSet(io.waiters) \subseteq Posted \cup Waiting(io) /\ Distinct(io.waiters)
         /\ \A job \in ToSet(io.waiters) : job.do # "close"
         /\ Posted = (Posted \cup Waiting(io)) \ ToSet(io.waiters)
<1>1. made \in Nat
  BY ClientAssumption DEF ClientInv, Called
<1>2. Answered \subseteq Numbers
  BY DEF Answered
<1>3. Sound(io, Posted \cup Waiting(io)) /\ io \in IoStates
  BY Zenon DEF ClientInv, Sound
<1>4. Posted \subseteq Requests \cup Others
  BY DEF ClientInv, Queued, Posted, ToSet
<1>5. Waiting(io) \subseteq Requests \cup Others
  BY <1>3 DEF IoStates, Waiting, ToSet
<1>6. \A x \in Posted : x \notin Waiting(io)
  BY DEF ClientInv, Queued, Nums
<1> QED
  BY <1>1, <1>2, <1>3, <1>4, <1>5, <1>6 DEF ClientInv, Queued, Waiting

\* A job that has to wait for the connection joins the others that wait.
LEMMA WaitSound ==
  ASSUME NEW s, NEW jobs, Sound(s, jobs), NEW job \in Requests \cup Others,
         NEW t, t = [s EXCEPT !.waiters = Append(s.waiters, job)],
         job.n \notin Nums(ToSet(s.waiters)), Distinct(s.waiters)
  PROVE  /\ Sound(t, jobs) /\ t \in IoStates
         /\ t.waiters = Append(s.waiters, job) /\ ToSet(t.waiters) = ToSet(s.waiters) \cup {job}
         /\ t.connected = s.connected /\ t.connecting = s.connecting /\ t.ops = s.ops
         /\ Distinct(t.waiters)
<1>1. s \in IoStates /\ s.waiters \in Seq(Requests \cup Others)
  BY DEF Sound, IoStates
<1> DEFINE q == s.waiters
<1> HIDE DEF q
<1>2. Append(q, job) \in Seq(Requests \cup Others) /\ ToSet(Append(q, job)) = ToSet(q) \cup {job}
  BY <1>1, OneMore DEF q
<1>3. Distinct(Append(q, job))
  <2>1. Nums(ToSet(q) \ {Drop}) \subseteq Nums(ToSet(q))
    BY DEF Nums
  <2> QED
    BY <1>1, <2>1, OneMoreDistinct DEF q
<1>4. /\ t \in IoStates /\ t.waiters = Append(q, job) /\ t.connected = s.connected
      /\ t.connecting = s.connecting /\ t.ops = s.ops /\ t.pending = s.pending
      /\ t.sendQueue = s.sendQueue /\ t.promise = s.promise
  BY <1>1, <1>2 DEF IoStates, q
<1>5. Writing(t)
  BY <1>4, Zenon DEF Sound, Writing
<1>6. Sound(t, jobs)
  BY <1>4, <1>5, SoundAlike, Zenon
<1> QED
  BY <1>2, <1>3, <1>4, <1>6 DEF q

\* A connection is begun while there is none.
LEMMA BeginSound ==
  ASSUME NEW s, NEW jobs, Sound(s, jobs), ~s.connected
  PROVE  LET begun == [s EXCEPT !.connecting = TRUE, !.ops = Outdated(@)]
             t     == Started(Started(begun, "timer"), "resolve")
         IN  /\ Sound(t, jobs) /\ Reading(t) /\ t.waiters = s.waiters
<1> DEFINE begun == [s EXCEPT !.connecting = TRUE, !.ops = Outdated(@)]
           u == Started(begun, "timer")
           t == Started(u, "resolve")
<1>1. s \in IoStates /\ s.ops \in SUBSET [kind : AsyncKinds, sent : BOOLEAN, old : BOOLEAN]
  BY DEF Sound, IoStates
<1>2. /\ Outdated(s.ops) \in SUBSET [kind : AsyncKinds, sent : BOOLEAN, old : BOOLEAN]
      /\ \A op \in Outdated(s.ops) : op.old /\ ~op.sent
      /\ \A kind : Op(kind) \notin Outdated(s.ops)
      /\ Written \notin Outdated(s.ops)
  BY <1>1, OutdatedOps
<1>3. /\ begun \in IoStates /\ begun.connecting = TRUE /\ begun.ops = Outdated(s.ops)
      /\ begun.connected = s.connected /\ begun.waiters = s.waiters /\ begun.pending = s.pending
      /\ begun.sendQueue = s.sendQueue /\ begun.promise = s.promise
  BY <1>1, <1>2 DEF IoStates
<1>4. s.pending = {} /\ s.sendQueue = <<>> /\ Written \notin s.ops
  BY DEF Sound, Writing
<1> HIDE DEF begun, t, u
<1>5. Writing(begun)
  BY <1>2, <1>3, <1>4 DEF Writing
<1>6. Sound(begun, jobs)
  BY <1>2, <1>3, <1>4, <1>5, SoundAlike
<1>7. /\ Sound(u, jobs) /\ u.ops = begun.ops \cup {Op("timer")}
      /\ u.connected = begun.connected /\ u.connecting = begun.connecting /\ u.waiters = begun.waiters
  <2>1. "timer" \in AsyncKinds \ {"write"}
    BY DEF AsyncKinds
  <2> QED
    BY <1>6, <2>1, StartSound DEF u
<1>8. /\ Sound(t, jobs) /\ t.ops = u.ops \cup {Op("resolve")}
      /\ t.connected = u.connected /\ t.connecting = u.connecting /\ t.waiters = u.waiters
  <2>1. "resolve" \in AsyncKinds \ {"write"}
    BY DEF AsyncKinds
  <2> QED
    BY <1>7, <2>1, StartSound DEF t
<1>9. \A k, l \in AsyncKinds : Op(k) = Op(l) => k = l
  BY OpsAreApart
<1>10. \A k \in AsyncKinds : Op(k) \in t.ops <=> k \in {"timer", "resolve"}
  BY <1>2, <1>3, <1>7, <1>8, <1>9 DEF AsyncKinds
<1>11. Reading(t)
  BY <1>3, <1>7, <1>8, <1>10 DEF Reading, AsyncKinds
<1> QED
  BY <1>3, <1>7, <1>8, <1>11 DEF begun, t, u

\* The function that is first in the queue is run.
LEMMA RunPostedKeeps ==
  ASSUME ClientInv, RunPosted
  PROVE  ClientInv'
<1> DEFINE job == Head(posted)
           J == Posted \cup Waiting(io)
           t == IF job = Drop THEN Disconnect(io)
                ELSE IF job.do = "close" THEN Settled(Disconnect(io), job.n, Done)
                ELSE EnsureConnected(io, job)
           rest == ToSet(Tail(posted)) \ {Drop}
<1>1. /\ posted # <<>> /\ posted' = Tail(posted) /\ io' = t
      /\ UNCHANGED <<made, call, asked, outcomes, answers, wire>>
  BY Zenon DEF RunPosted, EventLoop
<1>2. Called /\ Queued /\ Carried /\ Reading(io)
  BY DEF ClientInv
<1>3. /\ made \in Nat /\ Answered \subseteq Numbers /\ Sound(io, J) /\ io \in IoStates
      /\ J \subseteq Requests \cup Others /\ ToSet(io.waiters) \subseteq J /\ Distinct(io.waiters)
      /\ \A x \in ToSet(io.waiters) : x.do # "close"
      /\ Posted = J \ ToSet(io.waiters)
  BY IoFacts
<1>4. /\ Tail(posted) \in Seq(Requests \cup Others \cup {Drop}) /\ Distinct(Tail(posted))
      /\ job \in Requests \cup Others \cup {Drop} /\ job \in ToSet(posted)
      /\ ToSet(posted) = ToSet(Tail(posted)) \cup {job}
      /\ job # Drop => rest = Posted \ {job}
      /\ job # Drop => job.n \notin Nums(rest)
  <2>1. posted \in Seq(Requests \cup Others \cup {Drop}) /\ Distinct(posted)
    BY <1>2 DEF Queued
  <2>2. PICK S : S = Requests \cup Others \cup {Drop}
    OBVIOUS
  <2>3. posted \in Seq(S)
    BY <2>1, <2>2
  <2>4. /\ Tail(posted) \in Seq(S) /\ Distinct(Tail(posted)) /\ Head(posted) \in ToSet(posted)
        /\ Head(posted) \in S /\ ToSet(posted) = ToSet(Tail(posted)) \cup {Head(posted)}
        /\ Head(posted) # Drop => ToSet(Tail(posted)) \ {Drop} = (ToSet(posted) \ {Drop}) \ {Head(posted)}
        /\ Head(posted) # Drop => Head(posted).n \notin Nums(ToSet(Tail(posted)) \ {Drop})
    BY <1>1, <2>1, <2>3, OneTaken, Zenon
  <2> QED
    BY <2>2, <2>4 DEF Posted
<1>5. Called' /\ Carried'
  BY <1>1, <1>2, CalledSame, CarriedSame, Zenon
<1>6. Posted' = rest /\ AtServer' = AtServer /\ wire' = wire
  BY <1>1 DEF Posted, AtServer
<1> HIDE DEF t, job, J, rest
<1>7. ASSUME NEW jobs, Sound(t, jobs), Reading(t), rest \cup ToSet(t.waiters) = jobs,
             Nums(rest) \cap Nums(ToSet(t.waiters)) = {}, Distinct(t.waiters),
             \A x \in ToSet(t.waiters) : x.do # "close"
      PROVE  ClientInv'
  <2>1. Waiting(io)' = ToSet(t.waiters)
    BY <1>1 DEF Waiting
  <2>2. (Posted \cup Waiting(io))' = jobs
    BY <1>6, <1>7, <2>1
  <2>3. Sound(io, Posted \cup Waiting(io))'
    BY <1>1, <1>6, <1>7, <2>2, SoundNext
  <2>4. Reading(io)'
    BY <1>1, <1>7, Zenon DEF Reading
  <2>5. Nums(Posted)' = Nums(rest) /\ Nums(Waiting(io))' = Nums(ToSet(t.waiters))
    BY <1>6, <2>1 DEF Nums
  <2>6. Queued'
    BY <1>1, <1>4, <1>7, <2>1, <2>5 DEF Queued
  <2> QED
    BY <1>5, <2>3, <2>4, <2>6 DEF ClientInv
<1>8. Distinct(<<>>) /\ ToSet(<<>>) = {} /\ Nums({}) = {}
  BY DEF Distinct, ToSet, Nums
<1>9. /\ Sound(Disconnect(io), Posted) /\ Reading(Disconnect(io))
      /\ Disconnect(io).waiters = <<>>
  BY <1>3, DisconnectSound
<1>10. CASE job = Drop
  <2>1. t = Disconnect(io) /\ rest = Posted
    BY <1>4, <1>10 DEF t, rest, Posted
  <2>2. Sound(t, Posted) /\ Reading(t) /\ t.waiters = <<>>
    BY <1>9, <2>1, Zenon
  <2> QED
    BY <1>7, <1>8, <2>1, <2>2
<1>11. ASSUME job # Drop
       PROVE  /\ job \in Posted /\ rest = Posted \ {job} /\ job \in J /\ job \in Requests \cup Others
              /\ job.n \notin Nums(Waiting(io)) /\ job.n \notin Nums(rest)
  <2>1. job \in Posted /\ rest = Posted \ {job}
    BY <1>4, <1>11 DEF Posted
  <2>2. job.n \notin Nums(Waiting(io))
    BY <1>2, <2>1 DEF Queued, Nums
  <2> QED
    BY <1>3, <1>4, <1>11, <2>1, <2>2 DEF J
<1>12. CASE job # Drop /\ job.do = "close"
  <2> DEFINE u == Disconnect(io)
  <2>1. t = Settled(u, job.n, Done)
    BY <1>12 DEF t
  <2>2. job \in Posted /\ rest = Posted \ {job} /\ job.n \notin asked
    <3>1. job.do # "request"
      BY <1>12
    <3> QED
      BY <1>3, <1>11, <1>12, <3>1 DEF Sound, Owned
  <2> HIDE DEF u
  <2>3. Sound(u, Posted) /\ Reading(u) /\ u.waiters = <<>> /\ Posted \subseteq Requests \cup Others
    BY <1>3, <1>9 DEF u
  <2>4. Sound(t, rest)
    BY <1>3, <2>1, <2>2, <2>3, SettleSound
  <2>5. SameConnection(u, t) /\ u \in IoStates
    BY <2>1, <2>3, SettledReading DEF Sound
  <2>6. Reading(t) /\ t.waiters = <<>>
    <3>1. Reading(t)
      BY <2>3, <2>5, SameReading
    <3> QED
      BY <2>3, <2>5, <3>1 DEF SameConnection
  <2> QED
    BY <1>7, <1>8, <2>4, <2>6
<1>13. CASE job # Drop /\ job.do # "close"
  <2>1. t = EnsureConnected(io, job)
    BY <1>13 DEF t
  <2>2. /\ job \in Posted /\ rest = Posted \ {job} /\ job \in J /\ job \in Requests \cup Others
        /\ job.n \notin Nums(Waiting(io)) /\ job.n \notin Nums(rest)
    BY <1>11, <1>13
  <2>3. CASE io.connected
    <3>1. t = Complete(io, job, TRUE)
      BY <2>1, <2>3, Zenon DEF EnsureConnected
    <3>2. Sound(t, J \ {job}) /\ SameConnection(io, t)
      BY <1>3, <1>13, <2>2, <2>3, <3>1, CompleteSound
    <3>3. io.waiters = <<>>
      BY <1>2, <2>3 DEF Reading
    <3>4. t.waiters = <<>>
      BY <3>2, <3>3 DEF SameConnection
    <3>5. Reading(t)
      BY <1>2, <3>2, SameReading
    <3>6. J \ {job} = rest
      BY <1>8, <2>2, <3>3 DEF J, Waiting
    <3> QED
      BY <1>7, <1>8, <3>2, <3>4, <3>5, <3>6
  <2> DEFINE w == [io EXCEPT !.waiters = Append(@, job)]
  <2>4. /\ Sound(w, J) /\ w \in IoStates
        /\ w.waiters = Append(io.waiters, job) /\ ToSet(w.waiters) = ToSet(io.waiters) \cup {job}
        /\ w.connected = io.connected /\ w.connecting = io.connecting /\ w.ops = io.ops
        /\ Distinct(w.waiters)
    <3>1. job.n \notin Nums(ToSet(io.waiters)) /\ Distinct(io.waiters) /\ io \in IoStates
      BY <1>3, <2>2 DEF Waiting
    <3>2. PICK u : u = w /\ u = [io EXCEPT !.waiters = Append(io.waiters, job)]
      BY <3>1 DEF IoStates
    <3>3. /\ Sound(u, J) /\ u \in IoStates
          /\ u.waiters = Append(io.waiters, job) /\ ToSet(u.waiters) = ToSet(io.waiters) \cup {job}
          /\ u.connected = io.connected /\ u.connecting = io.connecting /\ u.ops = io.ops
          /\ Distinct(u.waiters)
      BY <1>3, <2>2, <3>1, <3>2, WaitSound, Zenon
    <3> QED
      BY <3>2, <3>3, Zenon
  <2>5. t.waiters = w.waiters =>
          /\ rest \cup ToSet(t.waiters) = J /\ Nums(rest) \cap Nums(ToSet(t.waiters)) = {}
          /\ Distinct(t.waiters) /\ \A x \in ToSet(t.waiters) : x.do # "close"
    <3>1. rest \cup ToSet(w.waiters) = J
      BY <2>2, <2>4 DEF J, Waiting
    <3>2. Nums(rest) \cap Nums(ToSet(w.waiters)) = {}
      <4>1. Nums(Posted) \cap Nums(Waiting(io)) = {}
        BY <1>2 DEF Queued
      <4> QED
        BY <2>2, <2>4, <4>1 DEF Nums, Waiting
    <3>3. \A x \in ToSet(w.waiters) : x.do # "close"
      BY <1>3, <1>13, <2>4
    <3> QED
      BY <2>4, <3>1, <3>2, <3>3
  <2>6. CASE ~io.connected /\ io.connecting
    <3>1. t = w
      BY <2>1, <2>6, Zenon DEF EnsureConnected
    <3> HIDE DEF w
    <3>2. Reading(w)
      BY <1>2, <2>4, <2>6 DEF Reading
    <3> QED
      BY <1>7, <2>4, <2>5, <3>1, <3>2
  <2>7. CASE ~io.connected /\ ~io.connecting
    <3> DEFINE begun == [w EXCEPT !.connecting = TRUE, !.ops = Outdated(@)]
    <3>1. t = Started(Started(begun, "timer"), "resolve")
      BY <2>1, <2>7, Zenon DEF EnsureConnected
    <3> HIDE DEF w
    <3>2. Sound(t, J) /\ Reading(t) /\ t.waiters = w.waiters
      BY <2>4, <2>7, <3>1, BeginSound
    <3> QED
      BY <1>7, <2>5, <3>2
  <2> QED
    BY <2>3, <2>6, <2>7
<1> QED
  BY <1>10, <1>12, <1>13

\* The server's answers are values for the fields of the response.
LEMMA AnswersAreValues ==
  ASSUME NEW n \in Numbers, NEW kind \in Calls, NEW a \in AnswersTo(n, kind)
  PROVE  /\ Values(ResponseFields(kind), a.v)
         /\ a = [result |-> n, v |-> a.v]
<1> DEFINE fields == ResponseFields(kind)
           Field(name) == CHOOSE f \in ToSet(fields) : f.name = name
           Value(f, flag) == IF f.kind = "flag" THEN flag
                             ELSE IF f.unless # "never" /\ flag THEN Default(f)
                             ELSE IF f.kind = "number" THEN n
                             ELSE <<n>>
           names == {f.name : f \in ToSet(fields)}
<1>1. PICK flag \in BOOLEAN :
        a = [result |-> n, v |-> [name \in DOMAIN Defaults(fields) |-> Value(Field(name), flag)]]
  BY Zenon DEF AnswersTo
<1>2. DOMAIN Defaults(fields) = names
  BY DEF Defaults
<1>3. WellFormed(fields)
  BY ResponsesWellFormed
<1>4. /\ fields \in Seq(Fields)
      /\ \A i, j \in DOMAIN fields : fields[i].name = fields[j].name => i = j
  BY <1>3 DEF WellFormed
<1> DEFINE v == a.v
<1> HIDE DEF fields
<1>5. ASSUME NEW i \in DOMAIN fields
      PROVE  fields[i] \in ToSet(fields) /\ Field(fields[i].name) = fields[i] /\ fields[i].name \in names
  <2>1. fields[i] \in ToSet(fields)
    BY Zenon DEF ToSet
  <2>2. \A f \in ToSet(fields) : f.name = fields[i].name => f = fields[i]
    BY <1>4 DEF ToSet
  <2> QED
    BY <2>1, <2>2, Zenon
<1> HIDE DEF Field, Value, names
<1>6. a = [result |-> n, v |-> v] /\ v = [name \in names |-> Value(Field(name), flag)]
  <2>1. PICK w : w = [name \in names |-> Value(Field(name), flag)]
    OBVIOUS
  <2>2. a = [result |-> n, v |-> w]
    BY <1>1, <1>2, <2>1, Zenon
  <2>3. v = w
    BY <2>2
  <2> QED
    BY <2>1, <2>2, <2>3
<1> HIDE DEF v
<1>7. \A i \in DOMAIN fields : v[fields[i].name] = Value(fields[i], flag)
  BY <1>5, <1>6, Zenon
<1>8. v = [name \in names |-> v[name]]
  BY <1>6, Zenon
<1>9. ASSUME NEW i \in DOMAIN fields
      PROVE  v[fields[i].name] \in IF IsSent(fields[i], v) THEN Content(fields[i])
                                  ELSE {Default(fields[i])}
  <2> DEFINE f == fields[i]
  <2>1. f \in Fields /\ v[f.name] = Value(f, flag)
    BY <1>4, <1>7
  <2>2. IsSent(f, v) <=> f.unless = "never" \/ ~flag
    <3>1. CASE f.unless = "never"
      BY <3>1, Zenon DEF IsSent
    <3>2. CASE f.unless # "never"
      <4>1. PICK j \in 1..(i - 1) : fields[j].name = f.unless /\ fields[j].kind = "flag"
        BY <1>3, <3>2 DEF WellFormed
      <4>2. j \in DOMAIN fields
        <5>1. DOMAIN fields = 1..Len(fields) /\ Len(fields) \in Nat
          BY <1>4
        <5> QED
          BY <4>1, <5>1
      <4>3. v[f.unless] = flag
        BY <1>7, <4>1, <4>2, Zenon DEF Value
      <4> QED
        BY <3>2, <4>3, Zenon DEF IsSent
    <3> QED
      BY <3>1, <3>2
  <2> HIDE DEF f
  <2>3. n \in Nat /\ <<n>> \in Seq(Nat)
    <3>1. n \in Nat
      BY JobFacts
    <3> QED
      BY <3>1
  <2>4. Value(f, flag) \in IF f.unless = "never" \/ ~flag THEN Content(f) ELSE {Default(f)}
    <3>1. f.kind = "number" => Content(f) = Nat
      BY Zenon DEF Content
    <3>2. f.kind = "flag" => Content(f) = BOOLEAN
      BY Zenon DEF Content
    <3>3. f.kind = "buffer" => Content(f) = Seq(Nat)
      BY Zenon DEF Content
    <3>4. f.kind \in {"number", "flag", "buffer"} /\ (f.unless # "never" => f.kind # "flag")
      BY <2>1 DEF Fields
    <3>5. CASE f.kind = "flag"
      BY <3>2, <3>4, <3>5, Zenon DEF Value
    <3>6. CASE f.kind = "number"
      BY <2>3, <3>1, <3>6 DEF Value
    <3>7. CASE f.kind = "buffer"
      BY <2>3, <3>3, <3>7 DEF Value
    <3> QED
      BY <3>4, <3>5, <3>6, <3>7
  <2>5. v[f.name] \in IF IsSent(f, v) THEN Content(f) ELSE {Default(f)}
    BY <2>1, <2>2, <2>4, Zenon
  <2> QED
    BY <2>5, Zenon DEF f
<1>10. Values(fields, v)
  BY <1>8, <1>9, Zenon DEF Values, names
<1> QED
  BY <1>6, <1>10, Zenon DEF fields, v

\* A frame's cells are numbers, and if they can be read they are the answer.
LEMMA AnswerIsRead ==
  ASSUME NEW n \in Numbers, NEW kind \in Calls, NEW a \in AnswersTo(n, kind),
         NEW cells \in {Pack(ResponseFields(kind), a.v), Front(Pack(ResponseFields(kind), a.v))}
  PROVE  /\ cells \in Seq(Nat)
         /\ Unpack(ResponseFields(kind), cells).ok =>
              [result |-> a.result, v |-> Unpack(ResponseFields(kind), cells).v] = a
<1> DEFINE fields == ResponseFields(kind)
           P == Pack(fields, a.v)
<1>1. WellFormed(fields) /\ Values(fields, a.v) /\ a = [result |-> n, v |-> a.v]
  BY ResponsesWellFormed, AnswersAreValues
<1>2. a = [result |-> a.result, v |-> a.v]
  BY <1>1
<1> HIDE DEF fields
<1>3. /\ P \in Seq(Nat)
      /\ Unpack(fields, P).ok /\ Unpack(fields, P).v = a.v
      /\ \A m \in 0..Len(P) : m < Len(P) => ~Unpack(fields, SubSeq(P, 1, m)).ok
  BY <1>1, UnpackPacked
<1>4. cells = P \/ cells = Front(P)
  BY DEF fields
<1> HIDE DEF P
<1>5. CASE cells = P
  BY <1>2, <1>3, <1>5, Zenon DEF fields
<1>6. CASE P # <<>> /\ cells = Front(P)
  <2>1. Len(P) - 1 \in 0..Len(P) /\ Len(P) - 1 < Len(P)
    BY <1>3, <1>6
  <2>2. ~Unpack(fields, SubSeq(P, 1, Len(P) - 1)).ok
    BY <1>3, <2>1
  <2>3. Front(P) = SubSeq(P, 1, Len(P) - 1) /\ Front(P) \in Seq(Nat)
    BY <1>3, <1>6 DEF Front
  <2> QED
    BY <1>6, <2>2, <2>3 DEF fields
<1>7. CASE P = <<>> /\ cells = Front(P)
  <2>1. Front(P) = P
    BY <1>7 DEF Front
  <2> QED
    BY <1>5, <1>7, <2>1
<1> QED
  BY <1>4, <1>5, <1>6, <1>7

\* A pending response has come.
LEMMA AnsweredSound ==
  ASSUME made \in Nat, NEW s, NEW jobs, Sound(s, jobs), NEW n \in Ids(s), answers[n] \in AllAnswers
  PROVE  LET t == [Settled(s, n, answers[n]) EXCEPT !.pending = {e \in @ : e.n # n}]
         IN  Sound(t, jobs) /\ SameConnection(s, t)
<1> DEFINE value == answers[n]
           u == Settled(s, n, value)
           t == [u EXCEPT !.pending = {e \in @ : e.n # n}]
<1>1. s \in IoStates /\ n \in Numbers /\ n \in asked /\ n \in 1..made /\ n \notin Nums(jobs)
  <2>1. s \in IoStates /\ n \in asked /\ n \in 1..made /\ n \notin Nums(jobs)
    BY DEF Sound, Owned
  <2>2. n \in Numbers
    BY <2>1 DEF Ids, IoStates, Entries
  <2> QED
    BY <2>1, <2>2
<1> HIDE DEF value
<1>2. u = [s EXCEPT !.promise = [s.promise EXCEPT ![n] = value]] /\ u \in IoStates
  BY <1>1, SettledState DEF value
<1>3. /\ u.connected = s.connected /\ u.connecting = s.connecting /\ u.waiters = s.waiters
      /\ u.pending = s.pending /\ u.sendQueue = s.sendQueue /\ u.ops = s.ops
      /\ u.promise = [s.promise EXCEPT ![n] = value]
  BY <1>1, <1>2 DEF IoStates
<1> HIDE DEF u
<1>4. /\ t \in IoStates /\ t.connected = s.connected /\ t.connecting = s.connecting
      /\ t.waiters = s.waiters /\ t.sendQueue = s.sendQueue /\ t.ops = s.ops
      /\ t.pending = {e \in s.pending : e.n # n} /\ t.promise = u.promise
  BY <1>2, <1>3 DEF IoStates
<1> HIDE DEF t
<1>5. Ids(t) = Ids(s) \ {n} /\ Unsent(t) = Unsent(s) /\ t.pending \subseteq s.pending
  BY <1>4 DEF Ids, Unsent
<1>6. Writing(t)
  BY <1>4 DEF Sound, Writing
<1>7. Owned(t, jobs)
  <2>1. /\ \A a, b \in jobs : a.n = b.n => a = b
        /\ \A x \in jobs : x.do = "request" <=> x.n \in asked
        /\ \A e, f \in s.pending : e.n = f.n => e = f
    BY Zenon DEF Sound, Owned
  <2>2. /\ Nums(jobs) \cap Ids(s) = {} /\ Nums(jobs) \cup Ids(s) \subseteq 1..made /\ Ids(s) \subseteq asked
    BY DEF Sound, Owned
  <2>3. \A m \in Numbers : t.promise[m] = IF m = n THEN value ELSE s.promise[m]
    BY <1>1, <1>3, <1>4 DEF IoStates
  <2>4. \A m \in Numbers : t.promise[m] = Unset <=> m \in Nums(jobs) \cup Ids(t) \/ m > made
    <3> TAKE m \in Numbers
    <3>1. s.promise[m] = Unset <=> m \in Nums(jobs) \cup Ids(s) \/ m > made
      BY DEF Sound, Owned
    <3>2. value # Unset /\ ~(n > made)
      BY <1>1, ValuesDiffer DEF value
    <3> QED
      BY <1>1, <1>5, <2>3, <3>1, <3>2
  <2>5. \A m \in Numbers : t.promise[m] \in
          {Unset, Failed} \cup IF m \in asked THEN {answers[m]} \ {None} ELSE {Done}
    <3> TAKE m \in Numbers
    <3>1. s.promise[m] \in {Unset, Failed} \cup IF m \in asked THEN {answers[m]} \ {None} ELSE {Done}
      BY DEF Sound, Owned
    <3>2. value = answers[n] /\ value # None
      BY ValuesDiffer DEF value
    <3> QED
      BY <1>1, <2>3, <3>1, <3>2
  <2>6. \A e, f \in t.pending : e.n = f.n => e = f
    BY <1>5, <2>1
  <2>7. Nums(jobs) \cap Ids(t) = {} /\ Nums(jobs) \cup Ids(t) \subseteq 1..made /\ Ids(t) \subseteq asked
    BY <1>5, <2>2
  <2> QED
    BY <2>1, <2>4, <2>5, <2>6, <2>7 DEF Owned
<1>8. SentOnce(t, jobs)
  <2>1. \A x : RequestKnown(s, x) => RequestKnown(t, x)
    BY <1>5 DEF RequestKnown
  <2>2. \A x : FrameKnown(s, x) => FrameKnown(t, x)
    <3>1. \A x, kind : AnswerIn(s, x, kind) => AnswerIn(t, x, kind)
      <4>1. \A e \in t.pending : e \in s.pending
        BY <1>5
      <4> QED
        BY <4>1, Zenon DEF AnswerIn
    <3> QED
      BY <3>1, Zenon DEF FrameKnown
  <2> QED
    BY <1>4, <1>5, <2>1, <2>2, Zenon DEF Sound, SentOnce
<1>9. SameConnection(s, t)
  BY <1>4, Zenon DEF SameConnection
<1>10. Sound(t, jobs)
  BY <1>4, <1>6, <1>7, <1>8, Zenon DEF Sound
<1> QED
  BY <1>9, <1>10, Zenon DEF t, u, value

\* What comes back is ignored, or is the answer to the request that waits for it, or
\* ends the connection.
LEMMA ResponseSound ==
  ASSUME made \in Nat, NEW s, NEW jobs, Sound(s, jobs), NEW frame, FrameKnown(s, frame)
  PROVE  LET t == HandleResponse(s, frame, KindOf(frame.opcode))
         IN  t = Disconnect(s) \/ (Sound(t, jobs) /\ SameConnection(s, t))
<1> DEFINE k == KindOf(frame.opcode)
           t == HandleResponse(s, frame, k)
           r == Unpack(ResponseFields(k), frame.cells)
<1>1. CASE frame.n \notin Ids(s)
  <2>1. t = s
    BY <1>1, Zenon DEF HandleResponse
  <2>2. SameConnection(s, s)
    BY Zenon DEF SameConnection
  <2> QED
    BY <2>1, <2>2
<1>2. CASE frame.n \in Ids(s) /\ (~Expected(s, frame) \/ ~r.ok)
  <2>1. t = Disconnect(s)
    BY <1>2, Zenon DEF HandleResponse
  <2> QED
    BY <2>1
<1>3. CASE frame.n \in Ids(s) /\ Expected(s, frame) /\ r.ok
  <2> DEFINE value == [result |-> frame.result, v |-> r.v]
  <2>1. t = [Settled(s, frame.n, value) EXCEPT !.pending = {e \in @ : e.n # frame.n}]
    BY <1>3, Zenon DEF HandleResponse
  <2>2. frame.n \in Numbers
    BY DEF FrameKnown
  <2>3. PICK kind \in Kinds : AnswerIn(s, frame, kind)
    BY Zenon DEF FrameKnown
  <2>4. PICK a \in AnswersTo(frame.n, kind) :
          /\ answers[frame.n] = a
          /\ frame.result = a.result
          /\ frame.cells \in {Pack(ResponseFields(kind), a.v), Front(Pack(ResponseFields(kind), a.v))}
    BY <2>3, Zenon DEF AnswerIn
  <2>5. kind \in Calls
    BY ClientAssumption
  <2>6. k = kind
    <3>1. PICK e : e = [n |-> frame.n, opcode |-> frame.opcode]
      OBVIOUS
    <3>2. e \in s.pending /\ e.n = frame.n /\ e.opcode = frame.opcode
      BY <1>3, <3>1 DEF Expected
    <3>3. frame.opcode = ResponseOpcode(kind)
      BY <2>3, <3>2, Zenon DEF AnswerIn
    <3> QED
      BY <2>5, <3>3, Opcodes, Zenon
  <2> HIDE DEF k, t, r
  <2>7. value = a
    <3>1. Unpack(ResponseFields(kind), frame.cells).ok =>
            [result |-> a.result, v |-> Unpack(ResponseFields(kind), frame.cells).v] = a
      BY <2>2, <2>4, <2>5, AnswerIsRead, Zenon
    <3>2. r = Unpack(ResponseFields(kind), frame.cells)
      BY <2>6 DEF r
    <3> QED
      BY <1>3, <2>4, <3>1, <3>2
  <2>8. answers[frame.n] \in AllAnswers
    <3>1. AnswersTo(frame.n, kind) \subseteq AllAnswers
      BY <2>2, OneOfAllAnswers
    <3> QED
      BY <2>4, <3>1
  <2> HIDE DEF value
  <2>9. t = [Settled(s, frame.n, answers[frame.n]) EXCEPT !.pending = {e \in @ : e.n # frame.n}]
    BY <2>1, <2>4, <2>7, Zenon
  <2>10. Sound(t, jobs) /\ SameConnection(s, t)
    BY <1>3, <2>8, <2>9, AnsweredSound
  <2> QED
    BY <2>10, Zenon DEF t, k
<1> QED
  BY <1>1, <1>2, <1>3

\* The operation that has ended is gone.
LEMMA EndedOp ==
  ASSUME NEW s, NEW jobs, Sound(s, jobs), NEW op \in s.ops,
         NEW r, r = [s EXCEPT !.ops = @ \ {op}]
  PROVE  /\ r \in IoStates /\ r.ops = s.ops \ {op}
         /\ r.connected = s.connected /\ r.connecting = s.connecting /\ r.waiters = s.waiters
         /\ r.promise = s.promise /\ r.pending = s.pending /\ r.sendQueue = s.sendQueue
         /\ ~op.old => op = Op(op.kind) \/ op = Written
         /\ op.kind \in AsyncKinds
         /\ op.old \/ op.kind # "write" => Sound(r, jobs)
<1>1. s \in IoStates /\ s.ops \in SUBSET [kind : AsyncKinds, sent : BOOLEAN, old : BOOLEAN]
  BY DEF Sound, IoStates
<1>2. /\ r \in IoStates /\ r.ops = s.ops \ {op}
      /\ r.connected = s.connected /\ r.connecting = s.connecting /\ r.waiters = s.waiters
      /\ r.promise = s.promise /\ r.pending = s.pending /\ r.sendQueue = s.sendQueue
  BY <1>1 DEF IoStates
<1>3. op \in [kind : AsyncKinds, sent : BOOLEAN, old : BOOLEAN]
  BY <1>1
<1>4. ~op.old => op = Op(op.kind) \/ op = Written
  <2>1. op.sent => op = Written
    BY DEF Sound, Writing
  <2> QED
    BY <1>3, <2>1, OpsAreApart
<1>5. ASSUME op.old \/ op.kind # "write" PROVE Sound(r, jobs)
  <2>1. op # Written /\ op # Op("write")
    BY <1>5 DEF Written, Op
  <2>2. Writing(r)
    BY <1>2, <2>1 DEF Sound, Writing
  <2> QED
    BY <1>2, <2>1, <2>2, SoundAlike
<1> QED
  BY <1>2, <1>3, <1>4, <1>5

\* The first packet of the queue has been written; the next one is being written.
LEMMA WrittenSound ==
  ASSUME NEW s, NEW jobs, Sound(s, jobs), Written \in s.ops,
         NEW r, r = [s EXCEPT !.ops = @ \ {Written}]
  PROVE  LET t == DoWrite([r EXCEPT !.sendQueue = Tail(@)])
         IN  Sound(t, jobs) /\ SameConnection(s, t)
<1> DEFINE q == s.sendQueue
           u == [r EXCEPT !.sendQueue = Tail(@)]
           t == DoWrite(u)
           ops == s.ops \ {Written}
<1>1. /\ s \in IoStates /\ q \in Seq(Requests) /\ q # <<>> /\ Op("write") \notin s.ops
      /\ Distinct(q)
  BY DEF Sound, Writing, SentOnce, IoStates
<1>2. Tail(q) \in Seq(Requests) /\ Distinct(Tail(q)) /\ ToSet(Tail(q)) \subseteq ToSet(q)
  BY <1>1, OneTaken
<1>3. /\ u \in IoStates /\ u.sendQueue = Tail(q) /\ u.ops = ops
      /\ u.connected = s.connected /\ u.connecting = s.connecting /\ u.waiters = s.waiters
      /\ u.promise = s.promise /\ u.pending = s.pending
  <2>1. /\ r \in IoStates /\ r.ops = ops
        /\ r.connected = s.connected /\ r.connecting = s.connecting /\ r.waiters = s.waiters
        /\ r.promise = s.promise /\ r.pending = s.pending /\ r.sendQueue = q
    BY <1>1 DEF IoStates
  <2> HIDE DEF q
  <2> QED
    BY <1>2, <2>1 DEF IoStates
<1> HIDE DEF u, q
<1>4. Op("write") \in [kind : AsyncKinds, sent : BOOLEAN, old : BOOLEAN] /\ Op("write") # Written
      /\ ~Op("write").sent /\ Op("write").kind = "write" /\ Written.kind = "write"
  BY DEF Op, Written, AsyncKinds
<1>5. /\ t \in IoStates /\ t.sendQueue = Tail(q)
      /\ t.ops = IF Tail(q) = <<>> THEN ops ELSE ops \cup {Op("write")}
      /\ t.connected = s.connected /\ t.connecting = s.connecting /\ t.waiters = s.waiters
      /\ t.promise = s.promise /\ t.pending = s.pending
  <2>1. CASE Tail(q) = <<>>
    <3>1. t = u
      BY <1>3, <2>1, Zenon DEF DoWrite
    <3> QED
      BY <1>3, <2>1, <3>1
  <2>2. CASE Tail(q) # <<>>
    <3>1. t = [u EXCEPT !.ops = @ \cup {Op("write")}]
      BY <1>3, <2>2, Zenon DEF DoWrite, Started, Op
    <3> HIDE DEF t
    <3> QED
      BY <1>3, <1>4, <2>2, <3>1 DEF IoStates
  <2> QED
    BY <2>1, <2>2
<1> HIDE DEF t
<1>6. Writing(t)
  BY <1>1, <1>4, <1>5 DEF Sound, Writing
<1>7. Unsent(t) \subseteq Unsent(s)
  <2> SUFFICES ASSUME NEW i \in DOMAIN t.sendQueue PROVE t.sendQueue[i].n \in Unsent(s)
    BY DEF Unsent
  <2>1. i + 1 \in DOMAIN q /\ i + 1 > 1 /\ t.sendQueue[i] = q[i + 1]
    BY <1>1, <1>5
  <2> QED
    BY <2>1 DEF Unsent, q
<1>8. Ids(t) = Ids(s)
  BY <1>5 DEF Ids
<1>9. Owned(t, jobs)
  BY <1>5, <1>8, Zenon DEF Sound, Owned
<1>10. SentOnce(t, jobs)
  <2>1. /\ Unsent(s) \cap (Nums(AtServer) \cup Answered) = {}
        /\ Nums(jobs) \cap (Nums(ToSet(q)) \cup Nums(AtServer) \cup Answered) = {}
        /\ \A job \in ToSet(q) \cup AtServer : RequestKnown(s, job)
        /\ \A i \in DOMAIN wire.toClient : FrameKnown(s, wire.toClient[i])
    BY DEF Sound, SentOnce, q
  <2>2. (\A x : RequestKnown(t, x) <=> RequestKnown(s, x)) /\ (\A x : FrameKnown(t, x) <=> FrameKnown(s, x))
    BY <1>5, Zenon DEF RequestKnown, FrameKnown, AnswerIn
  <2>3. Nums(ToSet(Tail(q))) \subseteq Nums(ToSet(q))
    BY <1>2 DEF Nums
  <2>4. Unsent(t) \cap (Nums(AtServer) \cup Answered) = {}
    BY <1>7, <2>1
  <2>5. Nums(jobs) \cap (Nums(ToSet(t.sendQueue)) \cup Nums(AtServer) \cup Answered) = {}
    BY <1>5, <2>1, <2>3
  <2>6. \A job \in ToSet(t.sendQueue) \cup AtServer : RequestKnown(t, job)
    BY <1>2, <1>5, <2>1, <2>2
  <2>7. \A i \in DOMAIN wire.toClient : FrameKnown(t, wire.toClient[i])
    BY <2>1, <2>2, Zenon
  <2> QED
    BY <1>2, <1>5, <2>4, <2>5, <2>6, <2>7 DEF SentOnce
<1>11. SameConnection(s, t)
  BY <1>4, <1>5 DEF SameConnection
<1>12. Sound(t, jobs)
  BY <1>5, <1>6, <1>9, <1>10, Zenon DEF Sound
<1> QED
  BY <1>11, <1>12, Zenon DEF t, u

\* The event loop's next state, when those that wait still do or do no longer.
LEMMA IoNext ==
  ASSUME ClientInv, NEW t, io' = t, UNCHANGED <<posted, made, call, asked, outcomes, answers>>,
         Carried', AtServer' = AtServer,
         \A i \in DOMAIN wire.toClient' :
           \E k \in DOMAIN wire.toClient : wire.toClient'[i] = wire.toClient[k],
         Reading(t),
         \/ Sound(t, Posted \cup Waiting(io)) /\ t.waiters = io.waiters
         \/ Sound(t, (Posted \cup Waiting(io)) \ ToSet(io.waiters)) /\ t.waiters = <<>>
  PROVE  ClientInv'
<1>1. Called /\ Queued
  BY DEF ClientInv
<1>2. Called'
  BY <1>1, CalledSame, Zenon
<1>3. Posted' = Posted /\ Waiting(io)' = ToSet(t.waiters)
  BY DEF Posted, Waiting
<1>4. Reading(io)'
  BY Zenon DEF Reading
<1>5. CASE Sound(t, Posted \cup Waiting(io)) /\ t.waiters = io.waiters
  <2>1. (Posted \cup Waiting(io))' = Posted \cup Waiting(io)
    BY <1>3, <1>5 DEF Waiting
  <2>2. Sound(io, Posted \cup Waiting(io))'
    BY <1>5, <2>1, SoundNext
  <2>3. Nums(Posted)' = Nums(Posted) /\ Nums(Waiting(io))' = Nums(Waiting(io)) /\ Waiting(io)' = Waiting(io)
    BY <1>3, <1>5 DEF Nums, Waiting
  <2>4. Queued'
    BY <1>1, <1>5, <2>3 DEF Queued
  <2> QED
    BY <1>2, <1>4, <2>2, <2>4 DEF ClientInv
<1>6. CASE Sound(t, (Posted \cup Waiting(io)) \ ToSet(io.waiters)) /\ t.waiters = <<>>
  <2>1. Posted = (Posted \cup Waiting(io)) \ ToSet(io.waiters)
    BY IoFacts
  <2>2. Distinct(<<>>) /\ ToSet(<<>>) = {} /\ Nums({}) = {}
    BY DEF Distinct, ToSet, Nums
  <2>3. Waiting(io)' = {} /\ io'.waiters = <<>>
    BY <1>3, <1>6, <2>2
  <2>4. (Posted \cup Waiting(io))' = (Posted \cup Waiting(io)) \ ToSet(io.waiters)
    BY <1>3, <2>1, <2>3
  <2>5. Sound(io, Posted \cup Waiting(io))'
    BY <1>6, <2>4, SoundNext
  <2>6. Nums(Posted)' = Nums(Posted) /\ Nums(Waiting(io))' = {}
    BY <1>3, <2>2, <2>3 DEF Nums
  <2>7. Queued'
    BY <1>1, <2>2, <2>3, <2>6 DEF Queued
  <2> QED
    BY <1>2, <1>4, <2>5, <2>7 DEF ClientInv
<1> QED
  BY <1>5, <1>6

\* A handler takes at most a frame off the connection, or the connection is new.
LEMMA HandlerWire ==
  ASSUME Carried, answers' = answers,
         \/ wire' = wire
         \/ wire' = [toServer |-> <<>>, toClient |-> <<>>, late |-> wire.late \cup ToSet(wire.toServer)]
         \/ wire.toClient # <<>> /\ wire' = [wire EXCEPT !.toClient = Tail(@)]
  PROVE  /\ Carried' /\ AtServer' = AtServer
         /\ \A i \in DOMAIN wire.toClient' :
              \E k \in DOMAIN wire.toClient : wire.toClient'[i] = wire.toClient[k]
<1>1. /\ wire \in [toServer : Seq(Requests), toClient : Seq(Frames), late : SUBSET Requests]
      /\ Distinct(wire.toServer)
      /\ \A a, b \in wire.late : a.n = b.n => a = b
      /\ Nums(wire.late) \cap Nums(ToSet(wire.toServer)) = {}
      /\ Nums(AtServer) \cap Answered = {}
  BY DEF Carried
<1>2. Answered' = Answered
  BY DEF Answered
<1>3. CASE wire' = wire
  <2>1. AtServer' = AtServer
    BY <1>3 DEF AtServer
  <2>2. Carried'
    BY <1>3, CarriedSame, Zenon
  <2> QED
    BY <1>3, <2>1, <2>2
<1>4. CASE wire' = [toServer |-> <<>>, toClient |-> <<>>, late |-> wire.late \cup ToSet(wire.toServer)]
  <2>1. /\ wire'.toServer = <<>> /\ wire'.toClient = <<>>
        /\ wire'.late = wire.late \cup ToSet(wire.toServer)
    BY <1>4
  <2>2. ToSet(<<>>) = {} /\ Distinct(<<>>) /\ Nums({}) = {} /\ DOMAIN <<>> = {}
    BY DEF ToSet, Distinct, Nums
  <2>3. AtServer' = AtServer
    BY <2>1, <2>2 DEF AtServer
  <2>4. ToSet(wire.toServer) \subseteq Requests
    BY <1>1 DEF ToSet
  <2>5. wire' \in [toServer : Seq(Requests), toClient : Seq(Frames), late : SUBSET Requests]
    BY <1>1, <1>4, <2>4
  <2>6. \A a, b \in ToSet(wire.toServer) : a.n = b.n => a = b
    <3>1. \A x \in ToSet(wire.toServer) : x # Drop
      BY <2>4, JobFacts
    <3> QED
      BY <1>1, <3>1 DEF ToSet, Distinct
  <2>7. \A a, b \in wire'.late : a.n = b.n => a = b
    <3>1. \A a \in wire.late, b \in ToSet(wire.toServer) : a.n # b.n
      BY <1>1 DEF Nums
    <3> QED
      BY <1>1, <2>1, <2>6, <3>1
  <2>8. Nums(wire'.late) \cap Nums(ToSet(wire'.toServer)) = {}
    BY <2>1, <2>2
  <2>9. Nums(AtServer)' = Nums(AtServer)
    BY <2>3 DEF Nums
  <2>10. Distinct(wire.toServer)' /\ Nums(ToSet(wire.toServer))' = {}
    BY <2>1, <2>2 DEF Distinct, Nums
  <2>11. Carried'
    BY <1>1, <1>2, <2>5, <2>7, <2>9, <2>10 DEF Carried
  <2> QED
    BY <2>1, <2>2, <2>3, <2>11
<1>5. CASE wire.toClient # <<>> /\ wire' = [wire EXCEPT !.toClient = Tail(@)]
  <2>1. /\ wire.toClient \in Seq(Frames) /\ Tail(wire.toClient) \in Seq(Frames)
        /\ wire' \in [toServer : Seq(Requests), toClient : Seq(Frames), late : SUBSET Requests]
        /\ wire'.toServer = wire.toServer /\ wire'.late = wire.late
        /\ wire'.toClient = Tail(wire.toClient)
    <3>1. PICK q \in Seq(Frames) : q = wire.toClient /\ q # <<>>
      BY <1>1, <1>5
    <3>2. Tail(q) \in Seq(Frames)
      BY <3>1
    <3>3. wire' = [toServer |-> wire.toServer, toClient |-> Tail(q), late |-> wire.late]
      BY <1>1, <1>5, <3>1
    <3> QED
      BY <1>1, <3>1, <3>2, <3>3
  <2>2. AtServer' = AtServer
    BY <2>1 DEF AtServer
  <2>3. \A i \in DOMAIN wire.toClient' :
          \E k \in DOMAIN wire.toClient : wire.toClient'[i] = wire.toClient[k]
    <3> SUFFICES ASSUME NEW i \in DOMAIN wire'.toClient
                 PROVE  i + 1 \in DOMAIN wire.toClient /\ wire'.toClient[i] = wire.toClient[i + 1]
      OBVIOUS
    <3> QED
      BY <1>5, <2>1
  <2>4. Nums(AtServer)' = Nums(AtServer) /\ Nums(wire.late)' = Nums(wire.late)
        /\ Nums(ToSet(wire.toServer))' = Nums(ToSet(wire.toServer))
    BY <2>1, <2>2 DEF Nums
  <2>5. Distinct(wire.toServer)'
    BY <1>1, <2>1 DEF Distinct
  <2>6. Carried'
    BY <1>1, <1>2, <2>1, <2>4, <2>5 DEF Carried
  <2> QED
    BY <2>2, <2>3, <2>6
<1> QED
  BY <1>3, <1>4, <1>5

\* Operations of different kinds differ.
LEMMA KindsOfOps ==
  /\ {"timer", "resolve", "connect", "readLength", "readData"} = AsyncKinds \ {"write"}
  /\ \A k, l \in AsyncKinds : Op(k) = Op(l) => k = l
  /\ \A k \in AsyncKinds : k # "write" => Op(k) # Written
<1>1. \A k \in AsyncKinds : Op(k).kind = k /\ Op(k) # Written
  BY OpsAreApart
<1>2. {"timer", "resolve", "connect", "readLength", "readData"} = AsyncKinds \ {"write"}
  BY DEF AsyncKinds
<1> QED
  BY <1>1, <1>2

\* The handler of an operation runs to its end.
LEMMA RunHandlerKeeps ==
  ASSUME ClientInv, NEW op \in io.ops, NEW ok \in BOOLEAN, RunHandler(op, ok)
  PROVE  ClientInv'
<1> DEFINE r == [io EXCEPT !.ops = @ \ {op}]
           J == Posted \cup Waiting(io)
           t == IF op.old THEN r ELSE Handled(r, op, ok)
<1>1. /\ MayEnd(op, ok)
      /\ io' = t /\ UNCHANGED <<posted, made, call, asked, outcomes, answers>>
      /\ wire' = IF ~ok THEN wire
             ELSE CASE op.kind = "connect" ->
                         [toServer |-> <<>>, toClient |-> <<>>,
                          late |-> wire.late \cup ToSet(wire.toServer)]
                    [] op.kind = "readData" -> [wire EXCEPT !.toClient = Tail(@)]
                    [] OTHER -> wire
  <2>1. MayEnd(op, ok) /\ UNCHANGED posted /\ EventLoop(t)
    BY Zenon DEF RunHandler, OfThisConnection
  <2>2. io' = t /\ UNCHANGED <<made, call, asked, outcomes, answers>>
    BY <2>1, Zenon DEF EventLoop
  <2>3. wire' = IF ~ok THEN wire
             ELSE CASE op.kind = "connect" ->
                         [toServer |-> <<>>, toClient |-> <<>>,
                          late |-> wire.late \cup ToSet(wire.toServer)]
                    [] op.kind = "readData" -> [wire EXCEPT !.toClient = Tail(@)]
                    [] OTHER -> wire
    BY Zenon DEF RunHandler
  <2> QED
    BY <2>1, <2>2, <2>3, Zenon
<1>2. Reading(io) /\ Carried
  BY DEF ClientInv
<1>3. /\ made \in Nat /\ Answered \subseteq Numbers
      /\ Sound(io, J) /\ io \in IoStates
      /\ J \subseteq Requests \cup Others
      /\ ToSet(io.waiters) \subseteq J /\ Distinct(io.waiters)
      /\ \A job \in ToSet(io.waiters) : job.do # "close"
  BY IoFacts
<1> HIDE DEF r, J, t
<1>4. /\ r \in IoStates /\ r.ops = io.ops \ {op}
      /\ r.connected = io.connected /\ r.connecting = io.connecting /\ r.waiters = io.waiters
      /\ r.promise = io.promise /\ r.pending = io.pending /\ r.sendQueue = io.sendQueue
      /\ ~op.old => op = Op(op.kind) \/ op = Written
      /\ op.kind \in AsyncKinds
      /\ op.old \/ op.kind # "write" => Sound(r, J)
  <2>1. r = [io EXCEPT !.ops = @ \ {op}]
    BY Zenon DEF r
  <2> QED
    BY <1>3, <2>1, EndedOp
<1>5. /\ op.old => ~ok
      /\ op.kind = "timer" /\ ~ok /\ ~op.old => io.connected
      /\ ok /\ op.kind # "timer" => EndsWell(op)
      /\ ok /\ op.kind = "write" => op.sent
      /\ ok /\ op.kind \in {"readLength", "readData"} => wire.toClient # <<>>
  <2>1. /\ op.old => ~ok
        /\ op.kind = "timer" /\ ~ok /\ ~op.old => io.connected
        /\ ok /\ op.kind # "timer" => EndsWell(op)
    BY <1>1 DEF MayEnd, EndsWell, IsCancelled
  <2> QED
    BY <2>1 DEF EndsWell
<1>6. /\ Carried' /\ AtServer' = AtServer
      /\ \A i \in DOMAIN wire.toClient' :
           \E k \in DOMAIN wire.toClient : wire.toClient'[i] = wire.toClient[k]
  <2>1. \/ wire' = wire
        \/ wire' = [toServer |-> <<>>, toClient |-> <<>>, late |-> wire.late \cup ToSet(wire.toServer)]
        \/ wire.toClient # <<>> /\ wire' = [wire EXCEPT !.toClient = Tail(@)]
    <3>1. CASE ~ok
      BY <1>1, <3>1, Zenon
    <3>2. CASE ok /\ op.kind = "connect"
      BY <1>1, <3>2, Zenon
    <3>3. CASE ok /\ op.kind = "readData"
      BY <1>1, <1>5, <3>3
    <3>4. CASE ok /\ op.kind # "connect" /\ op.kind # "readData"
      BY <1>1, <3>4, Zenon
    <3> QED
      BY <3>1, <3>2, <3>3, <3>4
  <2> QED
    BY <1>1, <1>2, <2>1, HandlerWire, Zenon
<1>7. ASSUME Reading(t), Sound(t, J), t.waiters = io.waiters PROVE ClientInv'
  BY <1>1, <1>6, <1>7, IoNext, Zenon DEF J
<1>8. ASSUME Reading(t), Sound(t, J \ ToSet(io.waiters)), t.waiters = <<>> PROVE ClientInv'
  BY <1>1, <1>6, <1>8, IoNext, Zenon DEF J
<1>9. /\ Sound(Disconnect(r), J \ ToSet(io.waiters)) /\ Reading(Disconnect(r))
      /\ Disconnect(r).waiters = <<>> /\ ~Disconnect(r).connected
  BY <1>3, <1>4, DisconnectSound
<1>10. ASSUME t = Disconnect(r) PROVE ClientInv'
  BY <1>8, <1>9, <1>10, Zenon
<1>11. CASE op.old
  <2>1. t = r
    BY <1>11 DEF t
  <2>2. \A k \in AsyncKinds : op # Op(k)
    BY <1>11, OpsAreApart
  <2>3. Reading(r)
    BY <1>2, <1>4, <2>2 DEF Reading, AsyncKinds
  <2> QED
    BY <1>4, <1>7, <1>11, <2>1, <2>3
<1>12. CASE ~op.old /\ op.kind = "timer"
  <2>1. op = Op("timer")
    BY <1>4, <1>12 DEF Written
  <2>2. CASE ~io.connected
    <3>1. t = Disconnect(r)
      BY <1>4, <1>5, <1>12, <2>2, Zenon DEF t, Handled
    <3> QED
      BY <1>10, <3>1
  <2>3. CASE io.connected
    <3>1. t = r
      BY <1>4, <1>12, <2>3, Zenon DEF t, Handled
    <3>2. Reading(r)
      BY <1>2, <1>4, <2>1, <2>3, KindsOfOps DEF Reading, AsyncKinds
    <3> QED
      BY <1>4, <1>7, <1>12, <3>1, <3>2
  <2> QED
    BY <2>2, <2>3
<1>13. CASE ~op.old /\ op.kind # "timer" /\ ~ok
  <2>1. t = Disconnect(r)
    BY <1>13, Zenon DEF t, Handled
  <2> QED
    BY <1>10, <2>1
<1>14. CASE ~op.old /\ ok /\ op.kind = "resolve"
  <2>1. op = Op("resolve")
    BY <1>4, <1>14 DEF Written
  <2>2. t = Started(r, "connect")
    BY <1>14 DEF t, Handled
  <2>3. "connect" \in AsyncKinds \ {"write"} /\ Sound(r, J)
    BY <1>4, <1>14 DEF AsyncKinds
  <2>4. /\ Sound(t, J) /\ t.ops = r.ops \cup {Op("connect")}
        /\ t.connected = r.connected /\ t.connecting = r.connecting /\ t.waiters = r.waiters
    BY <2>2, <2>3, StartSound, Zenon
  <2>5. Reading(t)
    BY <1>2, <1>4, <2>1, <2>4, KindsOfOps DEF Reading, AsyncKinds
  <2> QED
    BY <1>4, <1>7, <2>4, <2>5
<1>15. CASE ~op.old /\ ok /\ op.kind = "connect"
  <2>1. op = Op("connect")
    BY <1>4, <1>15 DEF Written
  <2> DEFINE u == OnOpen(r)
             K == J \ ToSet(io.waiters)
  <2>2. t = Started(u, "readLength")
    BY <1>15 DEF t, Handled
  <2>3. "readLength" \in AsyncKinds \ {"write"} /\ Sound(r, J)
    BY <1>4, <1>15 DEF AsyncKinds
  <2>4. /\ Sound(u, K) /\ u.waiters = <<>> /\ u.connected /\ ~u.connecting
        /\ \A o : o.kind # "write" => (o \in u.ops <=> o \in r.ops)
    BY <1>3, <1>4, <2>3, OpenSound
  <2> HIDE DEF u, K
  <2>5. /\ Sound(t, K) /\ t.ops = u.ops \cup {Op("readLength")}
        /\ t.connected = u.connected /\ t.connecting = u.connecting /\ t.waiters = u.waiters
    BY <2>2, <2>3, <2>4, StartSound, Zenon
  <2>6. /\ io.connecting /\ ~io.connected /\ Op("readData") \notin io.ops /\ Op("resolve") \notin io.ops
    BY <1>2, <2>1 DEF Reading
  <2>7. /\ Op("connect") \notin u.ops /\ Op("resolve") \notin u.ops /\ Op("readData") \notin u.ops
    <3>1. \A k \in {"connect", "resolve", "readData"} : Op(k).kind # "write"
      BY OpsAreApart, KindsOfOps
    <3> QED
      BY <1>4, <2>1, <2>4, <2>6, <3>1
  <2>8. Reading(t)
    <3>1. \A k \in {"connect", "resolve", "readData"} : Op(k) # Op("readLength")
      BY KindsOfOps DEF AsyncKinds
    <3> QED
      BY <2>4, <2>5, <2>7, <3>1 DEF Reading
  <2> QED
    BY <1>8, <2>4, <2>5, <2>8 DEF K
<1>16. CASE ~op.old /\ ok /\ op.kind = "readLength"
  <2>1. op = Op("readLength")
    BY <1>4, <1>16 DEF Written
  <2>2. CASE t = Disconnect(r)
    BY <1>10, <2>2
  <2>3. CASE t = Started(r, "readData")
    <3>1. "readData" \in AsyncKinds \ {"write"} /\ Sound(r, J)
      BY <1>4, <1>16 DEF AsyncKinds
    <3>2. /\ Sound(t, J) /\ t.ops = r.ops \cup {Op("readData")}
          /\ t.connected = r.connected /\ t.connecting = r.connecting /\ t.waiters = r.waiters
      BY <2>3, <3>1, StartSound, Zenon
    <3>3. Reading(t)
      BY <1>2, <1>4, <2>1, <3>2, KindsOfOps DEF Reading, AsyncKinds
    <3> QED
      BY <1>4, <1>7, <3>2, <3>3
  <2>4. t = Disconnect(r) \/ t = Started(r, "readData")
    BY <1>16 DEF t, Handled
  <2> QED
    BY <2>2, <2>3, <2>4
<1>17. CASE ~op.old /\ ok /\ op.kind = "readData"
  <2>1. op = Op("readData")
    BY <1>4, <1>17 DEF Written
  <2> DEFINE frame == wire.toClient[1]
             u == HandleResponse(r, frame, KindOf(frame.opcode))
  <2>2. t = ReadNext(u)
    BY <1>17 DEF t, Handled
  <2>3. "readLength" \in AsyncKinds \ {"write"} /\ Sound(r, J)
    BY <1>4, <1>17 DEF AsyncKinds
  <2>4. FrameKnown(r, frame)
    <3>1. 1 \in DOMAIN wire.toClient
      <4>1. wire.toClient \in Seq(Frames) /\ wire.toClient # <<>>
        BY <1>2, <1>5, <1>17 DEF Carried
      <4> QED
        BY <4>1
    <3>2. FrameKnown(r, wire.toClient[1])
      BY <2>3, <3>1 DEF Sound, SentOnce
    <3> QED
      BY <3>2
  <2> HIDE DEF frame
  <2>5. u = Disconnect(r) \/ (Sound(u, J) /\ SameConnection(r, u))
    BY <1>3, <2>3, <2>4, ResponseSound
  <2> HIDE DEF u
  <2>6. CASE u = Disconnect(r)
    <3>1. t = Disconnect(r)
      BY <1>9, <2>2, <2>6, Zenon DEF ReadNext
    <3> QED
      BY <1>10, <3>1
  <2>7. CASE Sound(u, J) /\ SameConnection(r, u)
    <3>1. /\ u.connected = r.connected /\ u.connecting = r.connecting /\ u.waiters = r.waiters
          /\ \A o : o.kind # "write" => (o \in u.ops <=> o \in r.ops)
      BY <2>7, Zenon DEF SameConnection
    <3>2. io.connected /\ ~io.connecting /\ Op("resolve") \notin io.ops /\ Op("connect") \notin io.ops
      BY <1>2, <2>1 DEF Reading
    <3>3. t = Started(u, "readLength")
      BY <1>4, <2>2, <3>1, <3>2, Zenon DEF ReadNext
    <3>4. /\ Sound(t, J) /\ t.ops = u.ops \cup {Op("readLength")}
          /\ t.connected = u.connected /\ t.connecting = u.connecting /\ t.waiters = u.waiters
      BY <2>3, <2>7, <3>3, StartSound, Zenon
    <3>5. \A k \in {"connect", "resolve", "readData"} : Op(k) \notin u.ops /\ Op(k) # Op("readLength")
      <4>1. \A k \in {"connect", "resolve", "readData"} : Op(k).kind # "write" /\ Op(k) # Op("readLength")
        BY OpsAreApart, KindsOfOps
      <4> QED
        BY <1>4, <2>1, <3>1, <3>2, <4>1
    <3>6. io.waiters = <<>>
      BY <1>2, <3>2 DEF Reading
    <3>7. Reading(t)
      BY <1>4, <3>1, <3>2, <3>4, <3>5, <3>6 DEF Reading
    <3> QED
      BY <1>4, <1>7, <3>1, <3>4, <3>7
  <2> QED
    BY <2>5, <2>6, <2>7
<1>18. CASE ~op.old /\ ok /\ op.kind = "write"
  <2>1. op = Written
    BY <1>4, <1>5, <1>18, OpsAreApart
  <2>2. t = DoWrite([r EXCEPT !.sendQueue = Tail(@)])
    BY <1>18 DEF t, Handled
  <2>3. Sound(t, J) /\ SameConnection(io, t)
    BY <1>3, <2>1, <2>2, WrittenSound, Zenon DEF r
  <2>4. Reading(t) /\ t.waiters = io.waiters
    <3>1. Reading(t)
      BY <1>2, <2>3, SameReading, Zenon
    <3> QED
      BY <2>3, <3>1, Zenon DEF SameConnection
  <2> QED
    BY <1>7, <2>3, <2>4
<1> QED
  BY <1>4, <1>11, <1>12, <1>13, <1>14, <1>15, <1>16, <1>17, <1>18 DEF AsyncKinds

-----------------------------------------------------------------------------
(* The network and the server.                                             *)

\* A request goes out.
LEMMA TransmitKeeps ==
  ASSUME ClientInv, NEW op \in io.ops, Transmit(op)
  PROVE  ClientInv'
<1> DEFINE q == io.sendQueue
           h == Head(q)
           J == Posted \cup Waiting(io)
           S == wire.toServer
<1>1. /\ wire' = [wire EXCEPT !.toServer = Append(@, h)]
      /\ io' = [io EXCEPT !.ops = (@ \ {op}) \cup {[op EXCEPT !.sent = TRUE]}]
      /\ UNCHANGED <<made, call, asked, outcomes, posted, answers, faults>>
      /\ op.kind = "write" /\ ~op.sent /\ ~op.old
  BY DEF Transmit
<1>2. Reading(io) /\ Carried /\ Queued /\ Called
  BY DEF ClientInv
<1>3. Sound(io, J) /\ io \in IoStates /\ J \subseteq Requests \cup Others
  BY IoFacts
<1>4. op = Op("write") /\ [op EXCEPT !.sent = TRUE] = Written
  <2>1. op \in [kind : AsyncKinds, sent : BOOLEAN, old : BOOLEAN]
    BY <1>3 DEF IoStates
  <2>2. op = Op("write")
    <3>1. op = Op(op.kind)
      BY <1>1, <2>1, OpsAreApart
    <3> QED
      BY <1>1, <3>1
  <2>3. [op EXCEPT !.sent = TRUE] = Written
    <3>1. PICK o : o = [op EXCEPT !.sent = TRUE]
      OBVIOUS
    <3>2. o \in [kind : AsyncKinds, sent : BOOLEAN, old : BOOLEAN]
      BY <2>1, <3>1
    <3>3. o.kind = "write" /\ o.sent /\ ~o.old
      BY <1>1, <2>1, <3>1
    <3>4. o = Written
      BY <3>2, <3>3 DEF Written
    <3> QED
      BY <3>1, <3>4, Zenon
  <2> QED
    BY <2>2, <2>3
<1>5. /\ q \in Seq(Requests) /\ q # <<>> /\ Distinct(q) /\ Written \notin io.ops
  BY <1>3, <1>4 DEF Sound, Writing, SentOnce, IoStates
<1> HIDE DEF J, S, q
<1>6. /\ h \in ToSet(q) /\ h \in Requests /\ h # Drop
  <2>1. h \in ToSet(q) /\ h \in Requests
    BY <1>5, OneTaken
  <2> QED
    BY <2>1, JobFacts
<1>7. 1 \in DOMAIN q /\ q[1] = h
  BY <1>5
<1> HIDE DEF h
<1>8. h.n \in Unsent(io)
  BY <1>5, <1>7 DEF Unsent, q
<1>9. h.n \notin Nums(AtServer) /\ h.n \notin Answered
  BY <1>3, <1>8 DEF Sound, SentOnce
<1>10. /\ io' \in IoStates /\ io'.ops = (io.ops \ {Op("write")}) \cup {Written}
       /\ io'.connected = io.connected /\ io'.connecting = io.connecting /\ io'.waiters = io.waiters
       /\ io'.promise = io.promise /\ io'.pending = io.pending /\ io'.sendQueue = q
  <2>1. Written \in [kind : AsyncKinds, sent : BOOLEAN, old : BOOLEAN]
    BY OpsAreApart
  <2>2. io' = [io EXCEPT !.ops = (io.ops \ {Op("write")}) \cup {Written}]
    BY <1>1, <1>3, <1>4 DEF IoStates
  <2> QED
    BY <1>3, <2>1, <2>2 DEF IoStates, q
<1>11. S \in Seq(Requests) /\ Distinct(S) /\ wire \in [toServer : Seq(Requests), toClient : Seq(Frames), late : SUBSET Requests]
  BY <1>2 DEF Carried, S
<1>12. /\ wire'.toServer = Append(S, h) /\ wire'.toClient = wire.toClient /\ wire'.late = wire.late
       /\ wire' \in [toServer : Seq(Requests), toClient : Seq(Frames), late : SUBSET Requests]
  <2>1. Append(S, h) \in Seq(Requests)
    BY <1>6, <1>11
  <2>2. wire' = [toServer |-> Append(S, h), toClient |-> wire.toClient, late |-> wire.late]
    BY <1>1, <1>11 DEF S
  <2> QED
    BY <1>11, <2>1, <2>2
<1>13. ToSet(Append(S, h)) = ToSet(S) \cup {h}
  BY <1>6, <1>11, OneMore
<1>14. AtServer' = AtServer \cup {h} /\ Nums(AtServer) \cup {h.n} = Nums(AtServer \cup {h})
       /\ Answered' = Answered
  BY <1>1, <1>12, <1>13 DEF AtServer, Nums, S, Answered
<1>15. Distinct(Append(S, h))
  <2>1. h.n \notin Nums(ToSet(S) \ {Drop})
    BY <1>9 DEF Nums, AtServer, S
  <2> QED
    BY <1>6, <1>11, <2>1, OneMoreDistinct
<1>16. Nums(AtServer)' = Nums(AtServer) \cup {h.n}
  BY <1>14 DEF Nums
<1>17. Carried'
  <2>1. Nums(wire.late)' = Nums(wire.late) /\ Nums(ToSet(wire.toServer))' = Nums(ToSet(S)) \cup {h.n}
    BY <1>12, <1>13 DEF Nums
  <2>2. h.n \notin Nums(wire.late)
    BY <1>9 DEF AtServer, Nums
  <2>3. /\ \A a, b \in wire.late : a.n = b.n => a = b
        /\ Nums(wire.late) \cap Nums(ToSet(S)) = {}
        /\ Nums(AtServer) \cap Answered = {}
    BY <1>2 DEF Carried, S
  <2>4. Distinct(wire.toServer)'
    BY <1>12, <1>15 DEF Distinct
  <2>5. (wire \in [toServer : Seq(Requests), toClient : Seq(Frames), late : SUBSET Requests])'
    BY <1>12 DEF Requests, Frames, Numbers
  <2>6. (Nums(AtServer) \cap Answered)' = {}
    BY <1>9, <1>14, <1>16, <2>3
  <2> QED
    BY <1>12, <2>1, <2>2, <2>3, <2>4, <2>5, <2>6 DEF Carried
<1>18. Called'
  BY <1>1, <1>2, CalledSame, Zenon
<1>19. Posted' = Posted /\ Waiting(io)' = Waiting(io)
  BY <1>1, <1>10 DEF Posted, Waiting
<1>20. Queued'
  <2>1. Nums(Posted)' = Nums(Posted) /\ Nums(Waiting(io))' = Nums(Waiting(io))
    BY <1>19 DEF Nums
  <2> QED
    BY <1>1, <1>2, <1>10, <1>19, <2>1 DEF Queued
<1>21. Reading(io)'
  <2>1. \A k \in AsyncKinds \ {"write"} : Op(k) \in io'.ops <=> Op(k) \in io.ops
    BY <1>10, KindsOfOps DEF AsyncKinds
  <2> QED
    BY <1>2, <1>10, <2>1, KindsOfOps DEF Reading
<1>22. Writing(io)'
  <2>1. Op("write") # Written
    BY DEF Op, Written
  <2> QED
    BY <1>3, <1>5, <1>10, <2>1 DEF Sound, Writing, q
<1>23. Owned(io, J)'
  <2>1. Owned(io, J) /\ J' = J /\ Ids(io)' = Ids(io)
    BY <1>3, <1>10, <1>19, Zenon DEF Sound, J, Ids
  <2> QED
    BY <1>1, <1>10, <2>1, Zenon DEF Owned, Nums
<1>24. SentOnce(io, J)'
  <2>1. J' = J /\ Nums(J)' = Nums(J) /\ Nums(ToSet(io.sendQueue))' = Nums(ToSet(q)) /\ h.n \in Nums(ToSet(q))
    BY <1>6, <1>10, <1>19 DEF J, Nums
  <2>2. Unsent(io)' \subseteq Unsent(io) /\ h.n \notin Unsent(io)'
    <3>1. Unsent(io)' = {q[i].n : i \in {i \in DOMAIN q : i > 1}}
      BY <1>10 DEF Unsent
    <3>2. Unsent(io) = {q[i].n : i \in DOMAIN q}
      BY <1>5 DEF Unsent, q
    <3>3. ASSUME NEW i \in DOMAIN q, i > 1 PROVE q[i].n # h.n
      <4>1. q[i] \in Requests /\ i # 1
        BY <1>5, <3>3
      <4>2. q[i] # Drop
        BY <4>1, JobFacts
      <4> QED
        BY <1>5, <1>6, <1>7, <4>1, <4>2 DEF Distinct
    <3> QED
      BY <3>1, <3>2, <3>3
  <2>3. /\ Unsent(io) \cap (Nums(AtServer) \cup Answered) = {}
        /\ Nums(J) \cap (Nums(ToSet(q)) \cup Nums(AtServer) \cup Answered) = {}
        /\ \A job \in ToSet(q) \cup AtServer : RequestKnown(io, job)
        /\ \A i \in DOMAIN wire.toClient : FrameKnown(io, wire.toClient[i])
    BY <1>3 DEF Sound, SentOnce, q
  <2>4. \A x : RequestKnown(io, x)' <=> RequestKnown(io, x)
    BY <1>1, <1>10, Zenon DEF RequestKnown
  <2>5. \A i \in DOMAIN wire.toClient' : FrameKnown(io, wire.toClient[i])'
    <3>1. TAKE i \in DOMAIN wire.toClient'
    <3>2. FrameKnown(io, wire.toClient[i]) /\ wire.toClient'[i] = wire.toClient[i]
      BY <1>12, <2>3
    <3>3. PICK kind \in Kinds : AnswerIn(io, wire.toClient[i], kind)
      BY <3>2, Zenon DEF FrameKnown
    <3>4. AnswerIn(io, wire.toClient[i], kind)'
      BY <1>1, <1>10, <3>2, <3>3, Zenon DEF AnswerIn
    <3> QED
      BY <3>2, <3>4, Zenon DEF FrameKnown
  <2>6. Distinct(io.sendQueue)'
    BY <1>5, <1>10 DEF Distinct
  <2>7. (Unsent(io) \cap (Nums(AtServer) \cup Answered))' = {}
    BY <1>14, <1>16, <2>2, <2>3
  <2>8. (Nums(J) \cap (Nums(ToSet(io.sendQueue)) \cup Nums(AtServer) \cup Answered))' = {}
    BY <1>14, <1>16, <2>1, <2>3
  <2>9. \A job \in (ToSet(io.sendQueue) \cup AtServer)' : RequestKnown(io, job)'
    BY <1>6, <1>10, <1>14, <2>3, <2>4
  <2> QED
    BY <2>5, <2>6, <2>7, <2>8, <2>9 DEF SentOnce
<1>25. (io \in IoStates)'
  <2>1. IoStates' = IoStates
    BY DEF IoStates, Requests, Others, Entries, AllAnswers, AnswersTo, Numbers
  <2> QED
    BY <1>10, <2>1, Zenon
<1>26. Sound(io, J)'
  BY <1>22, <1>23, <1>24, <1>25 DEF Sound
<1> QED
  BY <1>17, <1>18, <1>20, <1>21, <1>26 DEF ClientInv, J

\* What a server sends for an answer: frames with that answer, maybe cut short, of some
\* type.
IsReplyTo(frame, job, a) ==
  /\ frame \in Frames
  /\ frame.n = job.n /\ frame.result = a.result
  /\ frame.opcode \in {ResponseOpcode(k) : k \in Calls}
  /\ frame.cells \in {Pack(ResponseFields(job.kind), a.v), Front(Pack(ResponseFields(job.kind), a.v))}

\* Whatever a server sends for an answer, each frame of it has that answer.
LEMMA ReplyIsFrames ==
  ASSUME NEW job \in Requests, NEW a \in AnswersTo(job.n, job.kind), NEW reply,
         \/ reply = <<Frame(job, a)>>
         \/ \E kind \in DOMAIN BadReplies(Frame(job, a)) : reply \in BadReplies(Frame(job, a))[kind]
  PROVE  /\ reply \in Seq(Frames)
         /\ \A i \in DOMAIN reply : IsReplyTo(reply[i], job, a)
<1> DEFINE f == Frame(job, a)
           cells == Pack(ResponseFields(job.kind), a.v)
<1>1. job.n \in Numbers /\ job.kind \in Kinds /\ job.kind \in Calls
  <2>1. job.n \in Numbers /\ job.kind \in Kinds
    BY DEF Requests
  <2>2. Kinds \subseteq Calls
    BY ClientAssumption
  <2> QED
    BY <2>1, <2>2
<1>2. cells \in Seq(Nat) /\ Front(cells) \in Seq(Nat)
  BY <1>1, AnswerIsRead
<1>3. a.result = job.n
  BY DEF AnswersTo
<1>4. PICK op : op = ResponseOpcode(job.kind) /\ op \in Nat /\ op \in {ResponseOpcode(k) : k \in Calls}
  BY <1>1, Opcodes
<1> HIDE DEF cells
<1>5. f = [n |-> job.n, opcode |-> op, result |-> a.result, cells |-> cells, length |-> "right"]
  BY <1>4, Zenon DEF Frame, cells
<1> HIDE DEF f
<1>6. IsReplyTo(f, job, a) /\ f \in Frames /\ f.cells = cells
  <2>1. f \in Frames /\ f.n = job.n /\ f.result = a.result /\ f.opcode = op /\ f.cells = cells
    BY <1>1, <1>2, <1>3, <1>4, <1>5 DEF Frames
  <2> QED
    BY <1>4, <2>1 DEF IsReplyTo, cells
<1>7. IsReplyTo([f EXCEPT !.length = "wrong"], job, a)
  <2>1. PICK g : g = [f EXCEPT !.length = "wrong"]
    OBVIOUS
  <2>2. g \in Frames /\ g.n = f.n /\ g.result = f.result /\ g.opcode = f.opcode /\ g.cells = f.cells
    BY <1>6, <2>1 DEF Frames
  <2> QED
    BY <1>6, <2>1, <2>2, Zenon DEF IsReplyTo
<1>8. IsReplyTo([f EXCEPT !.cells = Front(@)], job, a)
  <2>1. PICK g : g = [f EXCEPT !.cells = Front(cells)] /\ g = [f EXCEPT !.cells = Front(@)]
    BY <1>6 DEF Frames
  <2>2. g \in Frames /\ g.n = f.n /\ g.result = f.result /\ g.opcode = f.opcode /\ g.cells = Front(cells)
    BY <1>2, <1>6, <2>1 DEF Frames
  <2> QED
    BY <1>6, <2>1, <2>2 DEF IsReplyTo, cells
<1>9. ASSUME NEW k \in WrongKinds PROVE IsReplyTo([f EXCEPT !.opcode = ResponseOpcode(k)], job, a)
  <2>1. k \in Calls /\ ResponseOpcode(k) \in Nat
    BY ClientAssumption, Opcodes
  <2>2. PICK g, o : g = [f EXCEPT !.opcode = o] /\ o = ResponseOpcode(k) /\ o \in {ResponseOpcode(l) : l \in Calls}
                    /\ o \in Nat
    BY <2>1
  <2>3. g \in Frames /\ g.n = f.n /\ g.result = f.result /\ g.opcode = o /\ g.cells = f.cells
    BY <1>6, <2>2 DEF Frames
  <2> QED
    BY <1>6, <2>2, <2>3, Zenon DEF IsReplyTo
<1>10. \/ reply = <<f>> \/ reply = <<>> \/ reply = <<f, f>>
       \/ reply = <<[f EXCEPT !.length = "wrong"]>> \/ reply = <<[f EXCEPT !.cells = Front(@)]>>
       \/ \E k \in WrongKinds : reply = <<[f EXCEPT !.opcode = ResponseOpcode(k)]>>
  <2>1. CASE reply = <<f>>
    BY <2>1
  <2>2. CASE \E kind \in DOMAIN BadReplies(f) : reply \in BadReplies(f)[kind]
    <3>1. PICK kind \in DOMAIN BadReplies(f) : reply \in BadReplies(f)[kind]
      BY <2>2
    <3>2. kind \in {"silent", "twice", "length", "cut", "opcode"}
      BY <3>1 DEF BadReplies
    <3> QED
      BY <3>1, <3>2 DEF BadReplies
  <2> QED
    BY <2>1, <2>2 DEF f
<1>11. ASSUME NEW g, IsReplyTo(g, job, a)
       PROVE  /\ <<g>> \in Seq(Frames) /\ <<g, g>> \in Seq(Frames)
              /\ \A i \in DOMAIN <<g>> : IsReplyTo(<<g>>[i], job, a)
              /\ \A i \in DOMAIN <<g, g>> : IsReplyTo(<<g, g>>[i], job, a)
  <2>1. g \in Frames
    BY <1>11 DEF IsReplyTo
  <2> QED
    BY <1>11, <2>1
<1>12. <<>> \in Seq(Frames) /\ DOMAIN <<>> = {}
  OBVIOUS
<1> QED
  BY <1>6, <1>7, <1>8, <1>9, <1>10, <1>11, <1>12

\* A request leaves the server, answered or not.
LEMMA AtServerOnce ==
  ASSUME Carried
  PROVE  /\ AtServer \subseteq Requests
         /\ \A a, b \in AtServer : a.n = b.n => a = b
         /\ \A x \in ToSet(wire.toServer) : x # Drop
<1>1. /\ wire \in [toServer : Seq(Requests), toClient : Seq(Frames), late : SUBSET Requests]
      /\ Distinct(wire.toServer)
      /\ \A a, b \in wire.late : a.n = b.n => a = b
      /\ Nums(wire.late) \cap Nums(ToSet(wire.toServer)) = {}
  BY DEF Carried
<1>2. ToSet(wire.toServer) \subseteq Requests /\ wire.late \subseteq Requests
  BY <1>1 DEF ToSet
<1>3. \A x \in ToSet(wire.toServer) : x # Drop
  BY <1>2, JobFacts
<1>4. \A a, b \in ToSet(wire.toServer) : a.n = b.n => a = b
  BY <1>1, <1>3 DEF ToSet, Distinct
<1>5. \A a \in wire.late, b \in ToSet(wire.toServer) : a.n # b.n
  BY <1>1 DEF Nums
<1> QED
  BY <1>1, <1>2, <1>3, <1>4, <1>5 DEF AtServer

\* The request that is answered leaves the server, and its reply, if there is one, comes last.
LEMMA AnswerWire ==
  ASSUME Carried, NEW job \in AtServer, NEW a \in AnswersTo(job.n, job.kind), Answer(job, a)
  PROVE  /\ wire' \in [toServer : Seq(Requests), toClient : Seq(Frames), late : SUBSET Requests]
         /\ Distinct(wire'.toServer) /\ wire'.late \subseteq wire.late
         /\ ToSet(wire'.toServer) \subseteq ToSet(wire.toServer)
         /\ AtServer' = AtServer \ {job}
         /\ \A i \in DOMAIN wire'.toClient :
              \/ \E k \in DOMAIN wire.toClient : wire'.toClient[i] = wire.toClient[k]
              \/ IsReplyTo(wire'.toClient[i], job, a)
<1>1. /\ wire \in [toServer : Seq(Requests), toClient : Seq(Frames), late : SUBSET Requests]
      /\ Distinct(wire.toServer)
      /\ \A x \in wire.late, y \in ToSet(wire.toServer) : x # y
  BY DEF Carried, Nums
<1>2. job \in Requests /\ AtServer = ToSet(wire.toServer) \cup wire.late
  BY AtServerOnce DEF AtServer
<1>3. CASE job \in wire.late /\ wire' = [wire EXCEPT !.late = @ \ {job}]
  <2>1. /\ wire' = [toServer |-> wire.toServer, toClient |-> wire.toClient, late |-> wire.late \ {job}]
    BY <1>1, <1>3
  <2>2. /\ wire'.toServer = wire.toServer /\ wire'.toClient = wire.toClient
        /\ wire'.late = wire.late \ {job}
    BY <2>1
  <2>3. wire' \in [toServer : Seq(Requests), toClient : Seq(Frames), late : SUBSET Requests]
    BY <1>1, <2>1
  <2>4. AtServer' = AtServer \ {job}
    <3>1. AtServer' = ToSet(wire.toServer) \cup (wire.late \ {job})
      BY <2>2 DEF AtServer
    <3> QED
      BY <1>1, <1>2, <1>3, <3>1
  <2> QED
    BY <1>1, <2>2, <2>3, <2>4
<1>4. ASSUME wire.toServer # <<>>, job = Head(wire.toServer), NEW reply \in Seq(Frames),
             wire' = [wire EXCEPT !.toServer = Tail(@), !.toClient = @ \o reply],
             \A i \in DOMAIN reply : IsReplyTo(reply[i], job, a)
      PROVE  /\ wire' \in [toServer : Seq(Requests), toClient : Seq(Frames), late : SUBSET Requests]
             /\ Distinct(wire'.toServer) /\ wire'.late \subseteq wire.late
             /\ ToSet(wire'.toServer) \subseteq ToSet(wire.toServer)
             /\ AtServer' = AtServer \ {job}
             /\ \A i \in DOMAIN wire'.toClient :
                  \/ \E k \in DOMAIN wire.toClient : wire'.toClient[i] = wire.toClient[k]
                  \/ IsReplyTo(wire'.toClient[i], job, a)
  <2>1. PICK q \in Seq(Requests), c \in Seq(Frames) : q = wire.toServer /\ c = wire.toClient
    BY <1>1
  <2>2. /\ Tail(q) \in Seq(Requests) /\ Distinct(Tail(q))
        /\ ToSet(q) = ToSet(Tail(q)) \cup {Head(q)}
        /\ Head(q) # Drop => ToSet(Tail(q)) \ {Drop} = (ToSet(q) \ {Drop}) \ {Head(q)}
    BY <1>1, <1>4, <2>1, OneTaken
  <2>3. c \o reply \in Seq(Frames) /\
        \A i \in DOMAIN (c \o reply) :
          \/ \E k \in DOMAIN c : (c \o reply)[i] = c[k]
          \/ \E k \in DOMAIN reply : (c \o reply)[i] = reply[k]
    BY <1>4
  <2>4. wire' = [toServer |-> Tail(q), toClient |-> c \o reply, late |-> wire.late]
    BY <1>1, <1>4, <2>1
  <2>5. wire'.toServer = Tail(q) /\ wire'.toClient = c \o reply /\ wire'.late = wire.late
    BY <2>4
  <2>6. wire' \in [toServer : Seq(Requests), toClient : Seq(Frames), late : SUBSET Requests]
    BY <1>1, <2>2, <2>3, <2>4
  <2>7. AtServer' = AtServer \ {job}
    <3>1. \A x \in ToSet(q) : x # Drop
      BY <2>1, AtServerOnce
    <3>2. ToSet(Tail(q)) = ToSet(q) \ {job} /\ job \in ToSet(q)
      BY <1>4, <2>1, <2>2, <3>1
    <3>3. AtServer' = (ToSet(q) \ {job}) \cup wire.late
      BY <2>5, <3>2 DEF AtServer
    <3> QED
      BY <1>1, <1>2, <2>1, <3>2, <3>3
  <2>8. \A i \in DOMAIN wire'.toClient :
          \/ \E k \in DOMAIN wire.toClient : wire'.toClient[i] = wire.toClient[k]
          \/ IsReplyTo(wire'.toClient[i], job, a)
    <3> TAKE i \in DOMAIN wire'.toClient
    <3>1. \/ \E k \in DOMAIN c : (c \o reply)[i] = c[k]
          \/ \E k \in DOMAIN reply : (c \o reply)[i] = reply[k]
      BY <2>3, <2>5, Zenon
    <3> QED
      BY <1>4, <2>1, <2>5, <3>1, Zenon
  <2> QED
    BY <2>1, <2>2, <2>5, <2>6, <2>7, <2>8
<1>5. CASE ~(job \in wire.late /\ wire' = [wire EXCEPT !.late = @ \ {job}])
  <2>1. PICK reply :
          /\ wire.toServer # <<>> /\ job = Head(wire.toServer)
          /\ wire' = [wire EXCEPT !.toServer = Tail(@), !.toClient = @ \o reply]
          /\ \/ reply = <<Frame(job, a)>>
             \/ \E kind \in DOMAIN BadReplies(Frame(job, a)) : reply \in BadReplies(Frame(job, a))[kind]
    BY <1>5, Zenon DEF Answer
  <2>2. reply \in Seq(Frames) /\ \A i \in DOMAIN reply : IsReplyTo(reply[i], job, a)
    BY <1>2, <2>1, ReplyIsFrames, Zenon
  <2> QED
    BY <1>4, <2>1, <2>2, Zenon
<1> QED
  BY <1>3, <1>5

\* The server answers a request.
LEMMA AnswerFacts ==
  ASSUME ClientInv, NEW job \in AtServer, NEW a \in AnswersTo(job.n, job.kind), Answer(job, a)
  PROVE  /\ job \in Requests /\ job.n \in Numbers /\ job.kind \in Kinds
         /\ job.n \in asked /\ answers[job.n] = None
         /\ a \in AllAnswers /\ a # None /\ a # Unset
         /\ answers' = [answers EXCEPT ![job.n] = a]
         /\ answers' \in [Numbers -> AllAnswers \cup {None}]
         /\ \A m \in Numbers : answers'[m] = IF m = job.n THEN a ELSE answers[m]
         /\ Answered' = Answered \cup {job.n}
         /\ Nums(AtServer \ {job}) = Nums(AtServer) \ {job.n} /\ job.n \in Nums(AtServer)
         /\ RequestKnown(io, job)
<1>1. Carried /\ Called
  BY DEF ClientInv
<1>2. job \in Requests /\ job.n \in Numbers /\ job.kind \in Kinds
  <2>1. job \in Requests
    BY <1>1, AtServerOnce
  <2> QED
    BY <2>1 DEF Requests
<1>3. RequestKnown(io, job) /\ job.n \in asked
  BY IoFacts DEF Sound, SentOnce, RequestKnown
<1>4. job.n \in Nums(AtServer)
  BY DEF Nums
<1>5. answers[job.n] = None
  BY <1>1, <1>2, <1>4 DEF Carried, Answered
<1>6. a \in AllAnswers
  BY <1>2, OneOfAllAnswers
<1>7. answers' = [answers EXCEPT ![job.n] = a]
  BY Zenon DEF Answer
<1>8. answers \in [Numbers -> AllAnswers \cup {None}]
  BY <1>1 DEF Called
<1>9. /\ answers' \in [Numbers -> AllAnswers \cup {None}]
      /\ \A m \in Numbers : answers'[m] = IF m = job.n THEN a ELSE answers[m]
  BY <1>2, <1>6, <1>7, <1>8
<1>10. a # None /\ a # Unset
  BY <1>6, ValuesDiffer
<1>11. Answered' = Answered \cup {job.n}
  BY <1>2, <1>9, <1>10 DEF Answered, Numbers
<1>12. Nums(AtServer \ {job}) = Nums(AtServer) \ {job.n}
  <2>1. \A x, y \in AtServer : x.n = y.n => x = y
    BY <1>1, AtServerOnce
  <2> QED
    BY <2>1, OneLess
<1> QED
  BY <1>2, <1>3, <1>4, <1>5, <1>6, <1>7, <1>9, <1>10, <1>11, <1>12

\* The server answers, and maybe fails to send what it should.
LEMMA ServeKeeps ==
  ASSUME ClientInv, Serve
  PROVE  ClientInv'
<1>1. PICK job \in AtServer : \E a \in AnswersTo(job.n, job.kind) : Answer(job, a)
  BY Zenon DEF Serve, AtServer
<1>2. PICK a \in AnswersTo(job.n, job.kind) : Answer(job, a)
  BY <1>1
<1> DEFINE n == job.n
           J == Posted \cup Waiting(io)
<1>3. UNCHANGED <<made, call, asked, outcomes, posted, io>>
  BY DEF Serve
<1>4. Reading(io) /\ Carried /\ Queued /\ Called
  BY DEF ClientInv
<1>5. Sound(io, J) /\ io \in IoStates
  BY IoFacts
<1>6. /\ job \in Requests /\ n \in Numbers /\ job.kind \in Kinds
      /\ n \in asked /\ answers[n] = None
      /\ a \in AllAnswers /\ a # None /\ a # Unset
      /\ answers' \in [Numbers -> AllAnswers \cup {None}]
      /\ \A m \in Numbers : answers'[m] = IF m = n THEN a ELSE answers[m]
      /\ Answered' = Answered \cup {n}
      /\ Nums(AtServer \ {job}) = Nums(AtServer) \ {n} /\ n \in Nums(AtServer)
      /\ RequestKnown(io, job)
  BY <1>2, AnswerFacts
<1>7. /\ wire' \in [toServer : Seq(Requests), toClient : Seq(Frames), late : SUBSET Requests]
      /\ Distinct(wire'.toServer) /\ wire'.late \subseteq wire.late
      /\ ToSet(wire'.toServer) \subseteq ToSet(wire.toServer)
      /\ AtServer' = AtServer \ {job}
      /\ \A i \in DOMAIN wire'.toClient :
           \/ \E k \in DOMAIN wire.toClient : wire'.toClient[i] = wire.toClient[k]
           \/ IsReplyTo(wire'.toClient[i], job, a)
  BY <1>2, <1>4, AnswerWire
<1> HIDE DEF n, J
<1>8. Nums(AtServer)' = Nums(AtServer) \ {n}
  BY <1>6, <1>7 DEF Nums
<1>9. Called'
  <2>1. Answered' \subseteq asked'
    BY <1>3, <1>4, <1>6 DEF Called
  <2>2. (answers \in [Numbers -> AllAnswers \cup {None}])'
    BY <1>6
  <2> QED
    BY <1>3, <1>4, <2>1, <2>2 DEF Called
<1>10. J' = J /\ Posted' = Posted /\ Waiting(io)' = Waiting(io)
  BY <1>3 DEF J, Posted, Waiting
<1>11. Queued'
  <2>1. Nums(Posted)' = Nums(Posted) /\ Nums(Waiting(io))' = Nums(Waiting(io))
    BY <1>10 DEF Nums
  <2> QED
    BY <1>3, <1>4, <1>10, <2>1 DEF Queued
<1>12. Carried'
  <2>1. (wire \in [toServer : Seq(Requests), toClient : Seq(Frames), late : SUBSET Requests])'
    BY <1>7 DEF Requests, Frames, Numbers
  <2>2. Distinct(wire.toServer)'
    BY <1>7 DEF Distinct
  <2>3. \A x, y \in wire'.late : x.n = y.n => x = y
    BY <1>4, <1>7 DEF Carried
  <2>4. (Nums(wire.late) \cap Nums(ToSet(wire.toServer)))' = {}
    <3>1. Nums(wire.late) \cap Nums(ToSet(wire.toServer)) = {}
      BY <1>4 DEF Carried
    <3>2. Nums(wire.late)' \subseteq Nums(wire.late) /\ Nums(ToSet(wire.toServer))' \subseteq Nums(ToSet(wire.toServer))
      BY <1>7 DEF Nums
    <3> QED
      BY <3>1, <3>2
  <2>5. (Nums(AtServer) \cap Answered)' = {}
    <3>1. Nums(AtServer) \cap Answered = {}
      BY <1>4 DEF Carried
    <3> QED
      BY <1>6, <1>8, <3>1
  <2> QED
    BY <2>1, <2>2, <2>3, <2>4, <2>5 DEF Carried
<1>13. Reading(io)' /\ Writing(io)' /\ (io \in IoStates)'
  <2>1. Writing(io)
    BY <1>5 DEF Sound
  <2>2. IoStates' = IoStates
    BY DEF IoStates, Requests, Others, Entries, AllAnswers, AnswersTo, Numbers
  <2> QED
    BY <1>3, <1>4, <1>5, <2>1, <2>2, Zenon DEF Reading, Writing
<1>14. Owned(io, J)'
  <2>1. Ids(io)' = Ids(io) /\ Nums(J)' = Nums(J)
    BY <1>3, <1>10 DEF Ids, Nums
  <2>2. /\ \A x, y \in J : x.n = y.n => x = y
        /\ \A e, f \in io.pending : e.n = f.n => e = f
        /\ \A x \in J : x.do = "request" <=> x.n \in asked
        /\ Nums(J) \cap Ids(io) = {}
        /\ Nums(J) \cup Ids(io) \subseteq 1..made
        /\ \A m \in Numbers : io.promise[m] = Unset <=> m \in Nums(J) \cup Ids(io) \/ m > made
        /\ Ids(io) \subseteq asked
    BY <1>5, Zenon DEF Sound, Owned
  <2>3. \A m \in Numbers : io.promise[m] \in
          {Unset, Failed} \cup IF m \in asked THEN {answers'[m]} \ {None} ELSE {Done}
    <3> TAKE m \in Numbers
    <3>1. io.promise[m] \in {Unset, Failed} \cup IF m \in asked THEN {answers[m]} \ {None} ELSE {Done}
      BY <1>5 DEF Sound, Owned
    <3>2. CASE m # n
      BY <1>6, <3>1, <3>2
    <3>3. CASE m = n
      BY <1>6, <3>1, <3>3
    <3> QED
      BY <3>2, <3>3
  <2> QED
    BY <1>3, <1>10, <2>1, <2>2, <2>3, Zenon DEF Owned
<1>15. SentOnce(io, J)'
  <2>1. /\ Distinct(io.sendQueue)
        /\ Unsent(io) \cap (Nums(AtServer) \cup Answered) = {}
        /\ Nums(J) \cap (Nums(ToSet(io.sendQueue)) \cup Nums(AtServer) \cup Answered) = {}
        /\ \A x \in ToSet(io.sendQueue) \cup AtServer : RequestKnown(io, x)
        /\ \A i \in DOMAIN wire.toClient : FrameKnown(io, wire.toClient[i])
    BY <1>5 DEF Sound, SentOnce
  <2>2. (Nums(AtServer) \cup Answered)' = Nums(AtServer) \cup Answered
    BY <1>6, <1>8
  <2>3. /\ Distinct(io.sendQueue)' /\ Unsent(io)' = Unsent(io) /\ Nums(J)' = Nums(J)
        /\ Nums(ToSet(io.sendQueue))' = Nums(ToSet(io.sendQueue))
    BY <1>3, <1>10, <2>1 DEF Distinct, Unsent, Nums
  <2>4. \A x : RequestKnown(io, x) => RequestKnown(io, x)'
    BY <1>3, Zenon DEF RequestKnown
  <2>5. \A x \in (ToSet(io.sendQueue) \cup AtServer)' : RequestKnown(io, x)'
    BY <1>3, <1>7, <2>1, <2>4
  <2>6. ASSUME NEW frame, FrameKnown(io, frame) PROVE FrameKnown(io, frame)'
    <3>1. /\ frame.n \in Numbers
          /\ frame.opcode \in {ResponseOpcode(k) : k \in Calls}
          /\ \E kind \in Kinds : AnswerIn(io, frame, kind)
      BY <2>6 DEF FrameKnown
    <3>2. PICK kind \in Kinds : AnswerIn(io, frame, kind)
      BY <3>1
    <3>3. PICK b \in AnswersTo(frame.n, kind) :
            /\ answers[frame.n] = b
            /\ frame.result = b.result
            /\ frame.cells \in {Pack(ResponseFields(kind), b.v), Front(Pack(ResponseFields(kind), b.v))}
      BY <3>2, Zenon DEF AnswerIn
    <3>4. answers'[frame.n] = b
      <4>1. b \in AllAnswers
        BY <3>1, OneOfAllAnswers
      <4>2. frame.n # n
        BY <1>6, <3>3, <4>1, ValuesDiffer
      <4> QED
        BY <1>6, <3>1, <3>3, <4>2
    <3>5. \A e \in io.pending : e.n = frame.n => e.opcode = ResponseOpcode(kind)
      BY <3>2, Zenon DEF AnswerIn
    <3>6. AnswerIn(io, frame, kind)'
      BY <1>3, <3>3, <3>4, <3>5, Zenon DEF AnswerIn
    <3> QED
      BY <3>1, <3>6, Zenon DEF FrameKnown
  <2>7. ASSUME NEW frame, IsReplyTo(frame, job, a) PROVE FrameKnown(io, frame)'
    <3>1. /\ frame.n = n /\ frame.result = a.result
          /\ frame.opcode \in {ResponseOpcode(k) : k \in Calls}
          /\ frame.cells \in {Pack(ResponseFields(job.kind), a.v), Front(Pack(ResponseFields(job.kind), a.v))}
      BY <2>7, Zenon DEF IsReplyTo, n
    <3>2. \A e \in io.pending : e.n = n => e.opcode = ResponseOpcode(job.kind)
      BY <1>6, Zenon DEF RequestKnown, n
    <3>3. a \in AnswersTo(frame.n, job.kind) /\ answers'[frame.n] = a
      BY <1>6, <3>1 DEF n
    <3>4. AnswerIn(io, frame, job.kind)'
      BY <1>3, <3>1, <3>2, <3>3, Zenon DEF AnswerIn
    <3> QED
      BY <1>6, <3>1, <3>4, Zenon DEF FrameKnown
  <2>8. \A i \in DOMAIN wire.toClient' : FrameKnown(io, wire.toClient[i])'
    <3> TAKE i \in DOMAIN wire.toClient'
    <3>1. ASSUME NEW k \in DOMAIN wire.toClient, wire'.toClient[i] = wire.toClient[k]
          PROVE  FrameKnown(io, wire.toClient[i])'
      <4>1. PICK frame : frame = wire.toClient[k] /\ FrameKnown(io, frame)
        BY <2>1
      <4>2. FrameKnown(io, frame)'
        BY <2>6, <4>1
      <4>3. frame = wire'.toClient[i]
        BY <3>1, <4>1, Zenon
      <4> QED
        BY <4>2, <4>3, Zenon
    <3>2. ASSUME IsReplyTo(wire'.toClient[i], job, a) PROVE FrameKnown(io, wire.toClient[i])'
      <4>1. PICK frame : frame = wire'.toClient[i]
        OBVIOUS
      <4>2. FrameKnown(io, frame)'
        BY <2>7, <3>2, <4>1
      <4> QED
        BY <4>1, <4>2, Zenon DEF FrameKnown, AnswerIn
    <3> QED
      BY <1>7, <3>1, <3>2
  <2> QED
    BY <2>1, <2>2, <2>3, <2>5, <2>8 DEF SentOnce
<1> QED
  BY <1>9, <1>11, <1>12, <1>13, <1>14, <1>15, Zenon DEF ClientInv, Sound, J

-----------------------------------------------------------------------------
(* The caller.                                                             *)

\* What the caller does leaves the event loop's state alone.
LEMMA LoopSame ==
  ASSUME ClientInv, UNCHANGED <<made, asked, io, wire, answers>>, Posted' = Posted
  PROVE  /\ Reading(io)' /\ Carried' /\ Sound(io, Posted \cup Waiting(io))'
         /\ Waiting(io)' = Waiting(io)
<1>1. Reading(io) /\ Carried /\ Sound(io, Posted \cup Waiting(io))
  BY DEF ClientInv
<1>2. Waiting(io)' = Waiting(io) /\ AtServer' = AtServer
  BY DEF Waiting, AtServer
<1>3. Reading(io)' /\ Carried'
  BY <1>1, CarriedSame, Zenon DEF Reading
<1>4. \A i \in DOMAIN wire.toClient' :
        \E k \in DOMAIN wire.toClient : wire.toClient'[i] = wire.toClient[k]
  BY Zenon
<1>5. Sound(io, Posted \cup Waiting(io))'
  BY <1>1, <1>2, <1>4, SoundNext, Zenon
<1> QED
  BY <1>2, <1>3, <1>5

\* A call returns.
LEMMA EndedKeeps ==
  ASSUME ClientInv, call # None, NEW o \in AllAnswers \cup {Failed, Done}, Ended(o),
         posted' \in {posted, Append(posted, Drop)}
  PROVE  ClientInv'
<1>1. /\ outcomes' = [outcomes EXCEPT ![call.n] = o]
      /\ call' = None
      /\ UNCHANGED <<made, asked, io, wire, answers>>
  BY DEF Ended
<1>2. Called /\ Queued
  BY DEF ClientInv
<1>3. o # None
  BY ValuesDiffer
<1>4. made \in Nat /\ call.n = made /\ made \in Numbers
  <2>1. call \in Requests \cup Others /\ call.n = made /\ made \in 0..MaxCalls
    BY <1>2 DEF Called
  <2>2. call.n \in Numbers
    BY <2>1, JobFacts
  <2> QED
    BY <2>1, <2>2, ClientAssumption
<1>5. Called'
  <2>1. \A n \in Numbers : outcomes'[n] = None <=> n > made
    <3> TAKE n \in Numbers
    <3>1. outcomes[n] = None <=> n > made \/ (call # None /\ n = made)
      BY <1>2 DEF Called
    <3>2. outcomes'[n] = IF n = made THEN o ELSE outcomes[n]
      BY <1>1, <1>2, <1>4 DEF Called
    <3>3. n \in Nat
      BY JobFacts
    <3> QED
      BY <1>3, <1>4, <3>1, <3>2, <3>3
  <2>2. outcomes' \in [Numbers -> AllAnswers \cup {None, Failed, Done}]
    BY <1>1, <1>2 DEF Called
  <2>3. Answered' = Answered
    BY <1>1 DEF Answered
  <2> QED
    BY <1>1, <1>2, <2>1, <2>2, <2>3 DEF Called
<1>6. posted \in Seq(Requests \cup Others \cup {Drop}) /\ Distinct(posted)
  BY <1>2 DEF Queued
<1>7. /\ posted' \in Seq(Requests \cup Others \cup {Drop}) /\ Distinct(posted')
      /\ ToSet(posted') \ {Drop} = ToSet(posted) \ {Drop}
  <2>1. CASE posted' = posted
    BY <1>6, <2>1
  <2>2. CASE posted' = Append(posted, Drop)
    <3>1. PICK S : S = Requests \cup Others \cup {Drop}
      OBVIOUS
    <3>2. /\ Append(posted, Drop) \in Seq(S)
          /\ ToSet(Append(posted, Drop)) = ToSet(posted) \cup {Drop}
          /\ Distinct(Append(posted, Drop))
      <4>1. Drop \in S /\ posted \in Seq(S)
        BY <1>6, <3>1
      <4> QED
        <5>1. PICK x : x = Drop
          OBVIOUS
        <5>2. Append(posted, x) \in Seq(S) /\ ToSet(Append(posted, x)) = ToSet(posted) \cup {x}
          BY <4>1, <5>1, OneMore
        <5>3. Distinct(Append(posted, x))
          BY <1>6, <4>1, <5>1, OneMoreDistinct
        <5> QED
          BY <5>1, <5>2, <5>3
    <3> QED
      BY <2>2, <3>1, <3>2
  <2> QED
    BY <2>1, <2>2
<1>8. Posted' = Posted
  BY <1>7 DEF Posted
<1>9. /\ Reading(io)' /\ Carried' /\ Sound(io, Posted \cup Waiting(io))'
      /\ Waiting(io)' = Waiting(io)
  BY <1>1, <1>8, LoopSame
<1>10. Queued'
  <2>1. Nums(Posted)' = Nums(Posted) /\ Nums(Waiting(io))' = Nums(Waiting(io))
    BY <1>8, <1>9 DEF Nums
  <2>2. Distinct(posted)' /\ Distinct(io.waiters)'
    BY <1>1, <1>2, <1>7 DEF Distinct, Queued
  <2> QED
    BY <1>1, <1>2, <1>7, <1>9, <2>1, <2>2 DEF Queued
<1> QED
  BY <1>5, <1>9, <1>10 DEF ClientInv

\* The promise of a call is set, or its time is up.
LEMMA ReturnKeeps ==
  ClientInv /\ (Return \/ Timeout) => ClientInv'
<1> SUFFICES ASSUME ClientInv, Return \/ Timeout PROVE ClientInv'
  OBVIOUS
<1>1. CASE Return
  <2>1. call # None /\ io.promise[call.n] # Unset /\ Ended(io.promise[call.n])
        /\ posted' \in {posted, Append(posted, Drop)}
    BY <1>1, Zenon DEF Return
  <2>2. io.promise[call.n] \in AllAnswers \cup {Failed, Done}
    <3>1. call \in Requests \cup Others
      BY <2>1 DEF ClientInv, Called
    <3>2. call.n \in Numbers
      BY <3>1, JobFacts
    <3>3. io \in IoStates
      BY IoFacts
    <3> QED
      BY <2>1, <3>2, <3>3 DEF IoStates
  <2> QED
    BY <2>1, <2>2, EndedKeeps
<1>2. CASE Timeout
  <2>1. call # None /\ Ended(Failed) /\ posted' \in {posted, Append(posted, Drop)}
    BY <1>2, Zenon DEF Timeout
  <2> QED
    BY <2>1, EndedKeeps
<1> QED
  BY <1>1, <1>2

\* Nothing of this depends on what has gone wrong before.
LEMMA CalmDownKeeps ==
  ClientInv /\ UNCHANGED <<made, call, asked, outcomes, posted, io, wire, answers>> => ClientInv'
<1> SUFFICES ASSUME ClientInv, UNCHANGED <<made, call, asked, outcomes, posted, io, wire, answers>>
             PROVE  ClientInv'
  OBVIOUS
<1>1. Called /\ Queued
  BY DEF ClientInv
<1>2. Posted' = Posted
  BY DEF Posted
<1>3. /\ Reading(io)' /\ Carried' /\ Sound(io, Posted \cup Waiting(io))'
      /\ Waiting(io)' = Waiting(io)
  BY <1>2, LoopSame
<1>4. Called'
  BY <1>1, CalledSame, Zenon
<1>5. Queued'
  <2>1. Nums(Posted)' = Nums(Posted) /\ Nums(Waiting(io))' = Nums(Waiting(io))
    BY <1>2, <1>3 DEF Nums
  <2> QED
    BY <1>1, <1>3, <2>1 DEF Queued
<1> QED
  BY <1>3, <1>4, <1>5 DEF ClientInv

\* A call is made.
LEMMA CallKeeps ==
  ASSUME ClientInv, NEW do, NEW kind, Call(do, kind),
         \/ do = "request" /\ kind \in Kinds
         \/ do \in {"connect", "close"} /\ kind = None
  PROVE  ClientInv'
<1> DEFINE job == [do |-> do, n |-> made + 1, kind |-> kind]
           J == Posted \cup Waiting(io)
           K == J \cup {job}
<1>1. /\ call = None /\ made < MaxCalls /\ call' = job /\ posted' = Append(posted, job)
      /\ made' = made + 1
      /\ asked' = IF do = "request" THEN asked \cup {made'} ELSE asked
      /\ UNCHANGED <<outcomes, io, wire, answers>>
  BY DEF Call
<1>2. Called /\ Queued /\ Carried /\ Reading(io)
  BY DEF ClientInv
<1>3. /\ made \in Nat /\ Answered \subseteq Numbers
      /\ Sound(io, J) /\ io \in IoStates /\ J \subseteq Requests \cup Others
  BY IoFacts
<1>4. made + 1 \in Numbers
  BY <1>1, <1>3, ClientAssumption DEF Numbers
<1>5. /\ job.n = made + 1 /\ job.do = do
      /\ job \in Requests \cup Others
      /\ job \in IF do = "request" THEN Requests ELSE Others
  BY <1>4 DEF Requests, Others
<1>6. job # Drop /\ job # None
  BY <1>5, JobFacts, ClientAssumption
<1> HIDE DEF job, J, K
<1>7. Nums(J) \subseteq 1..made /\ made + 1 \notin Nums(J) /\ Nums(Posted) \subseteq Nums(J)
  <2>1. Nums(J) \subseteq 1..made
    BY <1>3 DEF Sound, Owned
  <2>2. Nums(Posted) \subseteq Nums(J)
    BY DEF J, Nums
  <2> QED
    BY <1>3, <2>1, <2>2
<1>8. /\ posted \in Seq(Requests \cup Others \cup {Drop}) /\ Distinct(posted)
      /\ posted' \in Seq(Requests \cup Others \cup {Drop}) /\ Distinct(posted')
      /\ ToSet(posted') = ToSet(posted) \cup {job}
  <2>1. PICK S : S = Requests \cup Others \cup {Drop}
    OBVIOUS
  <2>2. posted \in Seq(S) /\ Distinct(posted) /\ job \in S
    BY <1>2, <1>5, <2>1 DEF Queued
  <2>3. job.n \notin Nums(ToSet(posted) \ {Drop})
    BY <1>5, <1>7 DEF Posted
  <2>4. Append(posted, job) \in Seq(S) /\ ToSet(Append(posted, job)) = ToSet(posted) \cup {job}
        /\ Distinct(Append(posted, job))
    BY <2>2, <2>3, OneMore, OneMoreDistinct
  <2> QED
    BY <1>1, <2>1, <2>2, <2>4
<1>9. Posted' = Posted \cup {job} /\ Waiting(io)' = Waiting(io) /\ AtServer' = AtServer
      /\ Answered' = Answered
  BY <1>1, <1>6, <1>8 DEF Posted, Waiting, AtServer, Answered
<1>10. (Posted \cup Waiting(io))' = K
  BY <1>9 DEF J, K
<1>11. Nums(K) = Nums(J) \cup {made + 1}
  BY <1>5 DEF K, Nums
<1>12. Called'
  <2>1. made' \in 0..MaxCalls /\ asked' \subseteq 1..made' /\ asked \subseteq asked'
    BY <1>1, <1>2, <1>3, ClientAssumption DEF Called
  <2>2. \A n \in Numbers : outcomes[n] = None <=> n > made' \/ n = made'
    <3> TAKE n \in Numbers
    <3>1. outcomes[n] = None <=> n > made
      BY <1>1, <1>2 DEF Called
    <3>2. n \in Nat
      BY JobFacts
    <3> QED
      BY <1>1, <1>3, <3>1, <3>2
  <2>3. call' # None /\ call'.n = made' /\ call' \in Requests \cup Others
    BY <1>1, <1>5, <1>6
  <2>4. /\ outcomes \in [Numbers -> AllAnswers \cup {None, Failed, Done}]
        /\ answers \in [Numbers -> AllAnswers \cup {None}] /\ Answered' \subseteq asked'
    BY <1>2, <1>9, <2>1 DEF Called
  <2> QED
    BY <1>1, <2>1, <2>2, <2>3, <2>4 DEF Called
<1>13. Queued'
  <2>1. Nums(Posted)' = Nums(Posted) \cup {made + 1} /\ Nums(Waiting(io))' = Nums(Waiting(io))
    BY <1>5, <1>9 DEF Nums
  <2>2. Distinct(posted)' /\ Distinct(io.waiters)'
    BY <1>1, <1>2, <1>8 DEF Distinct, Queued
  <2>3. made + 1 \notin Nums(Waiting(io))
    BY <1>7 DEF J, Nums
  <2>4. (Nums(Posted) \cap Nums(Waiting(io)))' = {}
    BY <1>2, <2>1, <2>3 DEF Queued
  <2> QED
    BY <1>1, <1>2, <1>8, <1>9, <2>2, <2>4 DEF Queued
<1>14. Carried'
  BY <1>1, <1>2, CarriedSame, Zenon
<1>15. Reading(io)' /\ Writing(io)' /\ (io \in IoStates)'
  <2>1. Writing(io)
    BY <1>3 DEF Sound
  <2>2. IoStates' = IoStates
    BY DEF IoStates, Requests, Others, Entries, AllAnswers, AnswersTo, Numbers
  <2> QED
    BY <1>1, <1>2, <1>3, <2>1, <2>2, Zenon DEF Reading, Writing
<1>16. /\ asked \subseteq 1..made /\ asked \subseteq asked' /\ asked' \subseteq asked \cup {made + 1}
       /\ made + 1 \in asked' <=> do = "request"
  BY <1>1, <1>2, <1>3 DEF Called
<1>17. PICK L : L = K
  OBVIOUS
<1>18. L = J \cup {job} /\ Nums(L) = Nums(J) \cup {made + 1} /\ (Posted \cup Waiting(io))' = L
  BY <1>10, <1>11, <1>17 DEF K
<1>19. Owned(io, L)'
  <2>1. Ids(io)' = Ids(io) /\ Ids(io) \subseteq 1..made /\ Ids(io) \subseteq asked
        /\ Nums(J) \cap Ids(io) = {}
    BY <1>1, <1>3 DEF Ids, Sound, Owned
  <2>2. \A x, y \in L : x.n = y.n => x = y
    <3>1. \A x, y \in J : x.n = y.n => x = y
      BY <1>3, Zenon DEF Sound, Owned
    <3>2. \A x \in J : x.n # job.n
      BY <1>5, <1>7 DEF Nums
    <3> QED
      BY <1>18, <3>1, <3>2
  <2>3. \A x \in L : x.do = "request" <=> x.n \in asked'
    <3>1. \A x \in J : (x.do = "request" <=> x.n \in asked) /\ x.n # made + 1
      <4>1. \A x \in J : x.do = "request" <=> x.n \in asked
        BY <1>3, Zenon DEF Sound, Owned
      <4>2. \A x \in J : x.n # made + 1
        BY <1>7 DEF Nums
      <4> QED
        BY <4>1, <4>2
    <3> QED
      BY <1>5, <1>16, <1>18, <3>1
  <2>4. \A e, f \in io.pending : e.n = f.n => e = f
    BY <1>3, Zenon DEF Sound, Owned
  <2>5. Nums(L) \cap Ids(io) = {} /\ Nums(L) \cup Ids(io) \subseteq 1..made' /\ Ids(io) \subseteq asked'
    <3>1. made + 1 \notin Ids(io) /\ 1..made \subseteq 1..made' /\ made + 1 \in 1..made'
      BY <1>1, <1>3, <2>1
    <3> QED
      BY <1>7, <1>16, <1>18, <2>1, <3>1
  <2>6. \A m \in Numbers : io.promise[m] = Unset <=> m \in Nums(L) \cup Ids(io) \/ m > made'
    <3> TAKE m \in Numbers
    <3>1. io.promise[m] = Unset <=> m \in Nums(J) \cup Ids(io) \/ m > made
      BY <1>3 DEF Sound, Owned
    <3>2. m \in Nat
      BY JobFacts
    <3>3. m > made <=> m = made + 1 \/ m > made'
      BY <1>1, <1>3, <3>2
    <3> QED
      BY <1>18, <3>1, <3>3
  <2>7. \A m \in Numbers : io.promise[m] \in
          {Unset, Failed} \cup IF m \in asked' THEN {answers[m]} \ {None} ELSE {Done}
    <3> TAKE m \in Numbers
    <3>1. io.promise[m] \in {Unset, Failed} \cup IF m \in asked THEN {answers[m]} \ {None} ELSE {Done}
      BY <1>3 DEF Sound, Owned
    <3>2. CASE m = made + 1
      <4>1. m \notin 1..made /\ m > made
        BY <1>3, <3>2
      <4>2. io.promise[m] = Unset
        BY <1>3, <4>1 DEF Sound, Owned
      <4> QED
        BY <4>2
    <3>3. CASE m # made + 1
      <4>1. m \in asked' <=> m \in asked
        BY <1>16, <3>3
      <4> QED
        BY <3>1, <4>1
    <3> QED
      BY <3>2, <3>3
  <2>8. Nums(L)' = Nums(L)
    BY DEF Nums
  <2> QED
    BY <1>1, <2>1, <2>2, <2>3, <2>4, <2>5, <2>6, <2>7, <2>8, Zenon DEF Owned
<1>20. SentOnce(io, L)'
  <2>1. /\ Distinct(io.sendQueue)
        /\ Unsent(io) \cap (Nums(AtServer) \cup Answered) = {}
        /\ Nums(J) \cap (Nums(ToSet(io.sendQueue)) \cup Nums(AtServer) \cup Answered) = {}
        /\ \A x \in ToSet(io.sendQueue) \cup AtServer : RequestKnown(io, x)
        /\ \A i \in DOMAIN wire.toClient : FrameKnown(io, wire.toClient[i])
    BY <1>3 DEF Sound, SentOnce
  <2>2. /\ Distinct(io.sendQueue)' /\ Unsent(io)' = Unsent(io) /\ Nums(L)' = Nums(L)
        /\ Nums(ToSet(io.sendQueue))' = Nums(ToSet(io.sendQueue)) /\ Nums(AtServer)' = Nums(AtServer)
    BY <1>1, <1>9, <2>1 DEF Distinct, Unsent, Nums
  <2>3. made + 1 \notin Nums(ToSet(io.sendQueue)) \cup Nums(AtServer) \cup Answered
    <3>1. made + 1 \notin asked
      BY <1>3, <1>16
    <3>2. Nums(ToSet(io.sendQueue)) \cup Nums(AtServer) \subseteq asked
      BY <2>1 DEF RequestKnown, Nums
    <3> QED
      BY <1>2, <3>1, <3>2 DEF Called
  <2>4. \A x \in (ToSet(io.sendQueue) \cup AtServer)' : RequestKnown(io, x)'
    <3>1. \A x : RequestKnown(io, x) => RequestKnown(io, x)'
      BY <1>1, <1>16 DEF RequestKnown
    <3>2. (ToSet(io.sendQueue) \cup AtServer)' = ToSet(io.sendQueue) \cup AtServer
      BY <1>1, <1>9, Zenon
    <3>3. \A x \in ToSet(io.sendQueue) \cup AtServer : RequestKnown(io, x)'
      BY <2>1, <3>1, Zenon
    <3> QED
      BY <3>2, <3>3, Zenon
  <2>5. \A i \in DOMAIN wire.toClient' : FrameKnown(io, wire.toClient[i])'
    <3>1. ASSUME NEW frame, FrameKnown(io, frame) PROVE FrameKnown(io, frame)'
      <4>1. ASSUME NEW k, AnswerIn(io, frame, k) PROVE AnswerIn(io, frame, k)'
        BY <1>1, <4>1, Zenon DEF AnswerIn
      <4> QED
        BY <3>1, <4>1, Zenon DEF FrameKnown
    <3>2. ASSUME NEW i \in DOMAIN wire.toClient' PROVE FrameKnown(io, wire.toClient[i])'
      <4>1. i \in DOMAIN wire.toClient
        BY <1>1, <3>2, Zenon
      <4>2. PICK frame : frame = wire.toClient[i] /\ FrameKnown(io, frame)
        BY <2>1, <4>1
      <4>3. frame = wire'.toClient[i]
        BY <1>1, <4>2, Zenon
      <4>4. FrameKnown(io, frame)'
        BY <3>1, <4>2
      <4> QED
        BY <4>3, <4>4, Zenon
    <3> QED
      BY <3>2, Zenon
  <2>6. (Unsent(io) \cap (Nums(AtServer) \cup Answered))' = {}
    BY <1>9, <2>1, <2>2
  <2>7. (Nums(L) \cap (Nums(ToSet(io.sendQueue)) \cup Nums(AtServer) \cup Answered))' = {}
    BY <1>9, <1>18, <2>1, <2>2, <2>3
  <2> QED
    BY <2>2, <2>4, <2>5, <2>6, <2>7 DEF SentOnce
<1>21. Sound(io, L)'
  BY <1>15, <1>19, <1>20 DEF Sound
<1>22. Sound(io, Posted \cup Waiting(io))'
  BY <1>18, <1>21, Zenon
<1> QED
  BY <1>12, <1>13, <1>14, <1>15, <1>22 DEF ClientInv

-----------------------------------------------------------------------------
(* The invariant.                                                          *)

\* The invariant holds before the first call.
LEMMA InitInv == Init => ClientInv
<1> SUFFICES ASSUME Init PROVE ClientInv
  OBVIOUS
<1>1. /\ made = 0 /\ call = None /\ asked = {}
      /\ outcomes = [n \in Numbers |-> None]
      /\ posted = <<>>
      /\ wire = [toServer |-> <<>>, toClient |-> <<>>, late |-> {}]
      /\ answers = [n \in Numbers |-> None]
  BY Zenon DEF Init
<1>2. io = [connected |-> FALSE, connecting |-> FALSE, waiters |-> <<>>, pending |-> {},
            sendQueue |-> <<>>, promise |-> [n \in Numbers |-> Unset], ops |-> {}]
  BY Zenon DEF Init
<1>3. /\ Distinct(<<>>) /\ ToSet(<<>>) = {} /\ Nums({}) = {} /\ DOMAIN <<>> = {}
      /\ <<>> \in Seq(Requests) /\ <<>> \in Seq(Frames) /\ <<>> \in Seq(Requests \cup Others)
      /\ <<>> \in Seq(Requests \cup Others \cup {Drop})
  BY DEF Distinct, ToSet, Nums
<1>4. /\ wire.toServer = <<>> /\ wire.toClient = <<>> /\ wire.late = {}
  BY <1>1
<1>5. /\ io.connected = FALSE /\ io.connecting = FALSE /\ io.waiters = <<>> /\ io.pending = {}
      /\ io.sendQueue = <<>> /\ io.promise = [n \in Numbers |-> Unset] /\ io.ops = {}
  BY <1>2
<1>6. AtServer = {} /\ Answered = {} /\ Posted = {} /\ Waiting(io) = {}
  BY <1>1, <1>3, <1>4, <1>5 DEF AtServer, Answered, Posted, Waiting
<1>7. Called
  BY <1>1, <1>6, JobFacts, ClientAssumption DEF Called
<1>8. Queued
  BY <1>1, <1>3, <1>5, <1>6 DEF Queued
<1>9. Carried
  BY <1>1, <1>3, <1>4, <1>6 DEF Carried
<1>10. Reading(io) /\ Writing(io)
  BY <1>5 DEF Reading, Writing
<1>11. io \in IoStates
  BY <1>2, <1>3 DEF IoStates
<1>12. Ids(io) = {} /\ Unsent(io) = {}
  BY <1>3, <1>5 DEF Ids, Unsent
<1>13. Owned(io, {})
  <2>1. \A n \in Numbers : n > made /\ io.promise[n] = Unset
    <3> TAKE n \in Numbers
    <3>1. n \in Nat /\ n # 0
      BY JobFacts
    <3>2. n > 0
      BY <3>1
    <3> QED
      BY <1>1, <1>5, <3>2
  <2> QED
    BY <1>1, <1>3, <1>5, <1>12, <2>1 DEF Owned
<1>14. SentOnce(io, {})
  BY <1>3, <1>4, <1>5, <1>6, <1>12 DEF SentOnce
<1> QED
  BY <1>6, <1>7, <1>8, <1>9, <1>10, <1>11, <1>13, <1>14 DEF ClientInv, Sound

\* Every step keeps the client's invariant.
LEMMA StepInv == ClientInv /\ [Next]_vars => ClientInv'
<1> SUFFICES ASSUME ClientInv, [Next]_vars PROVE ClientInv'
  OBVIOUS
<1>1. CASE RunPosted
  BY <1>1, RunPostedKeeps
<1>2. CASE RunHandlers
  BY <1>2, RunHandlerKeeps DEF RunHandlers
<1>3. CASE Makes
  BY <1>3, CallKeeps DEF Makes
<1>4. CASE Return \/ Timeout
  BY <1>4, ReturnKeeps
<1>5. CASE Transmits
  BY <1>5, TransmitKeeps DEF Transmits
<1>6. CASE Serve
  BY <1>6, ServeKeeps
<1>7. CASE CalmDown \/ UNCHANGED vars
  BY <1>7, CalmDownKeeps DEF CalmDown, vars
<1> QED
  BY <1>1, <1>2, <1>3, <1>4, <1>5, <1>6, <1>7 DEF Next

\* The client's state is sound: promises have one owner each, and what the server has
\* of a request is that request's.
THEOREM ClientSound == Spec => []ClientInv
BY InitInv, StepInv, PTL DEF Spec

-----------------------------------------------------------------------------
\* A set with no two elements.
LEMMA AtMostOne ==
  ASSUME NEW S, \A x, y \in S : x = y
  PROVE  Cardinality(S) = IF S = {} THEN 0 ELSE 1
<1>1. CASE S = {}
  BY <1>1, FS_EmptySet
<1>2. CASE S # {}
  <2>1. PICK x : x \in S
    BY <1>2
  <2>2. S = {x}
    BY <2>1
  <2> QED
    BY <1>2, <2>2, FS_Singleton
<1> QED
  BY <1>1, <1>2

\* With the invariant the connection is served.
LEMMA InvServed == ClientInv => ConnectionIsServed
<1> SUFFICES ASSUME ClientInv PROVE ConnectionIsServed
  OBVIOUS
<1> DEFINE J == Posted \cup Waiting(io)
<1>1. /\ made \in Nat /\ Sound(io, J) /\ io \in IoStates
      /\ J \subseteq Requests \cup Others
  BY IoFacts
<1>2. Reading(io) /\ Writing(io) /\ Owned(io, J) /\ Queued
  BY <1>1 DEF ClientInv, Sound
<1> HIDE DEF J
<1>3. \A kind \in AsyncKinds \ {"write"} :
        OpsOf(kind) = IF Op(kind) \in io.ops THEN {Op(kind)} ELSE {}
  <2> TAKE kind \in AsyncKinds \ {"write"}
  <2>1. ASSUME NEW op \in io.ops, op.kind = kind, ~op.old PROVE op = Op(kind)
    <3>1. op \in [kind : AsyncKinds, sent : BOOLEAN, old : BOOLEAN]
      BY <1>1 DEF IoStates
    <3>2. ~op.sent
      BY <1>2, <2>1, OpsAreApart DEF Writing
    <3>3. op = Op(op.kind)
      BY <2>1, <3>1, <3>2, OpsAreApart
    <3> QED
      BY <2>1, <3>3
  <2>2. Op(kind).kind = kind /\ ~Op(kind).old
    BY OpsAreApart
  <2> QED
    BY <2>1, <2>2 DEF OpsOf
<1>4. OpsOf("write") = {Op("write"), Written} \cap io.ops
  <2>1. ASSUME NEW op \in io.ops, op.kind = "write", ~op.old PROVE op \in {Op("write"), Written}
    <3>1. op \in [kind : AsyncKinds, sent : BOOLEAN, old : BOOLEAN]
      BY <1>1 DEF IoStates
    <3>2. CASE op.sent
      BY <1>2, <3>2 DEF Writing
    <3>3. CASE ~op.sent
      <4>1. op = Op(op.kind)
        BY <2>1, <3>1, <3>3, OpsAreApart
      <4> QED
        BY <2>1, <4>1
    <3> QED
      BY <3>2, <3>3
  <2>2. Op("write").kind = "write" /\ ~Op("write").old /\ Written.kind = "write" /\ ~Written.old
    BY OpsAreApart DEF AsyncKinds
  <2> QED
    BY <2>1, <2>2 DEF OpsOf
<1>5. /\ OpsOf("readLength") \cup OpsOf("readData") =
           {Op("readLength"), Op("readData")} \cap io.ops
      /\ OpsOf("resolve") \cup OpsOf("connect") = {Op("resolve"), Op("connect")} \cap io.ops
      /\ Op("timer") \in io.ops => OpsOf("timer") # {}
  <2>1. /\ OpsOf("readLength") = IF Op("readLength") \in io.ops THEN {Op("readLength")} ELSE {}
        /\ OpsOf("readData") = IF Op("readData") \in io.ops THEN {Op("readData")} ELSE {}
        /\ OpsOf("resolve") = IF Op("resolve") \in io.ops THEN {Op("resolve")} ELSE {}
        /\ OpsOf("connect") = IF Op("connect") \in io.ops THEN {Op("connect")} ELSE {}
        /\ OpsOf("timer") = IF Op("timer") \in io.ops THEN {Op("timer")} ELSE {}
    BY <1>3, KindsOfOps
  <2> QED
    BY <2>1
<1>6. Cardinality(OpsOf("readLength") \cup OpsOf("readData")) = IF io.connected THEN 1 ELSE 0
  <2> DEFINE S == {Op("readLength"), Op("readData")} \cap io.ops
  <2>1. (\A x, y \in S : x = y) /\ (S # {} <=> io.connected)
    BY <1>2 DEF Reading
  <2> HIDE DEF S
  <2>2. Cardinality(S) = IF S = {} THEN 0 ELSE 1
    BY <2>1, AtMostOne
  <2> QED
    BY <1>5, <2>1, <2>2 DEF S
<1>7. Cardinality(OpsOf("resolve") \cup OpsOf("connect")) = IF io.connecting THEN 1 ELSE 0
  <2> DEFINE S == {Op("resolve"), Op("connect")} \cap io.ops
  <2>1. (\A x, y \in S : x = y) /\ (S # {} <=> io.connecting)
    BY <1>2 DEF Reading
  <2> HIDE DEF S
  <2>2. Cardinality(S) = IF S = {} THEN 0 ELSE 1
    BY <2>1, AtMostOne
  <2> QED
    BY <1>5, <2>1, <2>2 DEF S
<1>8. Cardinality(OpsOf("write")) = IF io.sendQueue = <<>> THEN 0 ELSE 1
  <2> DEFINE S == {Op("write"), Written} \cap io.ops
  <2>1. (\A x, y \in S : x = y) /\ (S # {} <=> io.sendQueue # <<>>)
    BY <1>2 DEF Writing
  <2> HIDE DEF S
  <2>2. Cardinality(S) = IF S = {} THEN 0 ELSE 1
    BY <2>1, AtMostOne
  <2> QED
    BY <1>4, <2>1, <2>2 DEF S
<1>9. EachPromiseSetOnce
  <2> SUFFICES ASSUME NEW n \in 1..made
               PROVE  Places(n) = IF io.promise[n] = Unset THEN 1 ELSE 0
    BY DEF EachPromiseSetOnce
  <2> DEFINE P == {i \in DOMAIN posted : posted[i] # Drop /\ posted[i].n = n}
             W == {i \in DOMAIN io.waiters : io.waiters[i].n = n}
             E == {e \in io.pending : e.n = n}
  <2>1. Places(n) = Cardinality(P) + Cardinality(W) + Cardinality(E)
    BY Zenon DEF Places
  <2>2. (\A x, y \in P : x = y) /\ (P # {} <=> n \in Nums(Posted))
    <3>1. \A x, y \in P : x = y
      BY <1>2 DEF Queued, Distinct
    <3>2. P # {} <=> n \in Nums(Posted)
      BY DEF Nums, Posted, ToSet
    <3> QED
      BY <3>1, <3>2
  <2>3. (\A x, y \in W : x = y) /\ (W # {} <=> n \in Nums(Waiting(io)))
    <3>1. \A i \in DOMAIN io.waiters : io.waiters[i] # Drop
      BY <1>1, JobFacts DEF J, Waiting, ToSet
    <3>2. \A x, y \in W : x = y
      BY <1>2, <3>1 DEF Queued, Distinct
    <3>3. W # {} <=> n \in Nums(Waiting(io))
      BY DEF Nums, Waiting, ToSet
    <3> QED
      BY <3>2, <3>3
  <2>4. (\A x, y \in E : x = y) /\ (E # {} <=> n \in Ids(io))
    BY <1>2 DEF Owned, Ids
  <2> HIDE DEF P, W, E
  <2>5. /\ Cardinality(P) = IF P = {} THEN 0 ELSE 1
        /\ Cardinality(W) = IF W = {} THEN 0 ELSE 1
        /\ Cardinality(E) = IF E = {} THEN 0 ELSE 1
    BY <2>2, <2>3, <2>4, AtMostOne
  <2>6. /\ Nums(Posted) \cap Nums(Waiting(io)) = {}
        /\ (Nums(Posted) \cup Nums(Waiting(io))) \cap Ids(io) = {}
        /\ io.promise[n] = Unset <=> n \in Nums(Posted) \cup Nums(Waiting(io)) \cup Ids(io)
    <3>1. Nums(J) = Nums(Posted) \cup Nums(Waiting(io))
      BY DEF Nums, J
    <3>2. n \in Numbers /\ ~(n > made)
      BY <1>1, ClientAssumption DEF ClientInv, Called, Numbers
    <3> QED
      BY <1>2, <3>1, <3>2 DEF Owned, Queued
  <2> QED
    BY <2>1, <2>2, <2>3, <2>4, <2>5, <2>6
<1> QED
  BY <1>2, <1>5, <1>6, <1>7, <1>8, <1>9 DEF ConnectionIsServed, Reading, Writing

\* The connection is read and written by one operation each, whoever waits is answered
\* once, and nobody waits for a connection that is not being opened; for any number of
\* calls and faults.
THEOREM ConnectionServed == Spec => []ConnectionIsServed
BY ClientSound, InvServed, PTL

-----------------------------------------------------------------------------
\* At the start nothing has been asked.
LEMMA InitCalls == Init => Service!Init
BY DEF Init, Service!Init, Numbers

\* Every step of the client is one of RemoteCalls, or none.
LEMMA StepCalls == ClientInv /\ [Next]_vars => [Service!Next]_Service!vars
<1> SUFFICES ASSUME ClientInv, [Next]_vars PROVE [Service!Next]_Service!vars
  OBVIOUS
<1>1. Called
  BY DEF ClientInv
<1>2. CASE RunPosted \/ RunHandlers \/ Transmits \/ CalmDown \/ UNCHANGED vars
  <2>1. UNCHANGED <<made, asked, answers, outcomes>>
    BY <1>2, Zenon DEF RunPosted, RunHandlers, RunHandler, EventLoop, Transmits, Transmit, CalmDown, vars
  <2> QED
    BY <2>1 DEF Service!vars
<1>3. CASE Makes
  <2>1. PICK do, kind : Call(do, kind)
    BY <1>3 DEF Makes
  <2>2. /\ call = None /\ made < MaxCalls /\ made' = made + 1
        /\ asked' \in {asked, asked \cup {made'}}
        /\ UNCHANGED <<outcomes, answers>>
    BY <2>1 DEF Call
  <2>3. made > 0 => outcomes[made] # None
    <3>1. made > 0 => made \in Numbers
      BY <1>1, ClientAssumption DEF Called, Numbers
    <3>2. made \in Nat
      BY <1>1, ClientAssumption DEF Called
    <3> QED
      BY <1>1, <2>2, <3>1, <3>2 DEF Called
  <2>4. Service!Make
    BY <2>2, <2>3 DEF Service!Make
  <2> QED
    BY <2>4 DEF Service!Next
<1>4. ASSUME call # None, NEW o, Ended(o),
             o \in IF made \in asked THEN {answers[made], Failed} \ {None} ELSE {Done, Failed}
      PROVE  Service!Next
  <2>1. /\ outcomes' = [outcomes EXCEPT ![made] = o]
        /\ UNCHANGED <<made, asked, answers>>
    BY <1>1, <1>4 DEF Ended, Called
  <2>2. made > 0 /\ outcomes[made] = None
    <3>1. made \in Numbers
      <4>1. call \in Requests \cup Others /\ call.n = made
        BY <1>1, <1>4 DEF Called
      <4> QED
        BY <4>1, JobFacts
    <3>2. made > 0
      BY <3>1, ClientAssumption DEF Numbers
    <3> QED
      BY <1>1, <1>4, <3>1, <3>2 DEF Called
  <2>3. Service!Return
    BY <1>4, <2>1, <2>2, Zenon DEF Service!Return
  <2> QED
    BY <2>3, Zenon DEF Service!Next
<1>5. CASE Return
  <2>1. call # None /\ io.promise[call.n] # Unset /\ Ended(io.promise[call.n])
    BY <1>5, Zenon DEF Return
  <2>2. call.n = made /\ made \in Numbers
    <3>1. call \in Requests \cup Others /\ call.n = made
      BY <1>1, <2>1 DEF Called
    <3> QED
      BY <3>1, JobFacts
  <2>3. io.promise[made] \in {Unset, Failed} \cup IF made \in asked THEN {answers[made]} \ {None} ELSE {Done}
    <3>1. Owned(io, Posted \cup Waiting(io))
      BY DEF ClientInv, Sound
    <3> QED
      BY <2>2, <3>1 DEF Owned
  <2>4. io.promise[made] \in IF made \in asked THEN {answers[made], Failed} \ {None} ELSE {Done, Failed}
    BY <2>1, <2>2, <2>3, ValuesDiffer
  <2> QED
    BY <1>4, <2>1, <2>2, <2>4
<1>6. CASE Timeout
  <2>1. call # None /\ Ended(Failed)
    BY <1>6, Zenon DEF Timeout
  <2>2. Failed \in IF made \in asked THEN {answers[made], Failed} \ {None} ELSE {Done, Failed}
    BY ValuesDiffer
  <2> QED
    BY <1>4, <2>1, <2>2
<1>7. CASE Serve
  <2>1. PICK job \in AtServer : \E a \in AnswersTo(job.n, job.kind) : Answer(job, a)
    BY <1>7, Zenon DEF Serve, AtServer
  <2>2. PICK a \in AnswersTo(job.n, job.kind) : Answer(job, a)
    BY <2>1
  <2>3. /\ job.n \in asked /\ answers[job.n] = None /\ a \in AllAnswers
        /\ answers' = [answers EXCEPT ![job.n] = a]
    BY <2>2, AnswerFacts
  <2>4. UNCHANGED <<made, asked, outcomes>>
    BY <1>7 DEF Serve
  <2>5. Service!Answer(job.n)
    BY <2>3, <2>4 DEF Service!Answer
  <2> QED
    BY <2>3, <2>5 DEF Service!Next
<1> QED
  BY <1>2, <1>3, <1>5, <1>6, <1>7 DEF Next

\* A call returns the server's answer to that very call, or fails; and the server is
\* asked at most once: for any number of calls, and whatever is lost, cut, doubled, of
\* another type or late.
THEOREM RemoteCallsImplemented == Spec => ImplementsRemoteCalls
<1>1. Service!Init /\ [][Service!Next]_Service!vars => Service!Spec
  BY DEF Service!Spec
<1> QED
  BY InitCalls, StepCalls, ClientSound, <1>1, PTL DEF Spec, ImplementsRemoteCalls

=============================================================================
