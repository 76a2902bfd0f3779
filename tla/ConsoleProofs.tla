--------------------------- MODULE ConsoleProofs ---------------------------
(***************************************************************************)
(* What is shown answers what was chosen, and agrees with the service, for  *)
(* any number of calls, clicks, losses and changes.  The answers come in    *)
(* any order, so what an open call will bring belongs to the invariant.     *)
(*                                                                         *)
(* The first part is about sequences of open calls; then each page has its  *)
(* inductive invariant, and the last part puts the pages together.          *)
(***************************************************************************)
EXTENDS Console, TLAPS, FiniteSetTheorems

\* A call has its fields, and an answer to it that says so.
Whole(c) ==
  /\ DOMAIN c = {"op", "arg", "pc", "ok", "answer"}
  /\ c.pc \in {"sent", "answered"} /\ c.ok \in BOOLEAN
  /\ c.ok => c.pc = "answered"

Calls(cs) == cs \in Seq(ToSet(cs)) /\ \A c \in ToSet(cs) : Whole(c)

Has(cs, ops) == \E c \in ToSet(cs) : c.op \in ops
Acted(cs, ops) == \E c \in ToSet(cs) : c.op \in ops /\ c.ok

Single(cs, ops) ==
  \A i \in DOMAIN cs, j \in DOMAIN cs : cs[i].op \in ops /\ cs[j].op \in ops => i = j

Before(cs, i, ops) == \E j \in 1..(i - 1) : cs[j].op \in ops

\* The last call of these asks for `f`.
LastAsks(cs, ops, f) ==
  \A i \in DOMAIN cs :
    cs[i].op \in ops /\ (\A j \in DOMAIN cs : j > i => cs[j].op \notin ops) => cs[i].arg = f

\* A call is good, or a listing is asked for after it.
Fresh(cs, good) ==
  \A i \in DOMAIN cs : cs[i] \in good \/ \E j \in DOMAIN cs : j > i /\ cs[j].op = "list"

-----------------------------------------------------------------------------
(* A call is sent. *)

LEMMA Sent ==
  ASSUME NEW S, NEW cs \in Seq(S), NEW r \in S
  PROVE  /\ Append(cs, r) \in Seq(S) /\ Len(Append(cs, r)) = Len(cs) + 1
         /\ ToSet(Append(cs, r)) = ToSet(cs) \cup {r}
<1> DEFINE d == Append(cs, r)
<1>1. d \in Seq(S) /\ Len(d) = Len(cs) + 1 /\ d[Len(cs) + 1] = r
  OBVIOUS
<1>2. \A i \in 1..Len(cs) : d[i] = cs[i]
  OBVIOUS
<1> HIDE DEF d
<1>3. DOMAIN d = 1..(Len(cs) + 1) /\ DOMAIN cs = 1..Len(cs) /\ Len(cs) \in Nat
  BY <1>1
<1>4. ToSet(d) = ToSet(cs) \cup {r}
  BY <1>1, <1>2, <1>3 DEF ToSet
<1> QED
  BY <1>1, <1>4 DEF d

LEMMA SentOrder ==
  ASSUME NEW S, NEW cs \in Seq(S), NEW r \in S
  PROVE  /\ \A ops : Single(cs, ops) /\ (r.op \notin ops \/ ~Has(cs, ops)) => Single(Append(cs, r), ops)
         /\ \A ops, f : (IF r.op \in ops THEN r.arg = f ELSE LastAsks(cs, ops, f))
                           => LastAsks(Append(cs, r), ops, f)
         /\ \A good, new : /\ r \in new
                           /\ r.op = "list" \/ (Fresh(cs, good) /\ ToSet(cs) \cap good \subseteq new)
                           => Fresh(Append(cs, r), new)
<1> DEFINE d == Append(cs, r)
<1>1. d \in Seq(S) /\ Len(d) = Len(cs) + 1 /\ d[Len(cs) + 1] = r
  OBVIOUS
<1>2. \A i \in 1..Len(cs) : d[i] = cs[i]
  OBVIOUS
<1> HIDE DEF d
<1>3. DOMAIN d = 1..(Len(cs) + 1) /\ DOMAIN cs = 1..Len(cs) /\ Len(cs) \in Nat
  BY <1>1
<1>4. ASSUME NEW ops, Single(cs, ops), r.op \notin ops \/ ~Has(cs, ops)
      PROVE  Single(d, ops)
  BY <1>1, <1>2, <1>3, <1>4 DEF Single, Has, ToSet
<1>5. ASSUME NEW ops, NEW f, IF r.op \in ops THEN r.arg = f ELSE LastAsks(cs, ops, f)
      PROVE  LastAsks(d, ops, f)
  BY <1>1, <1>2, <1>3, <1>5 DEF LastAsks
<1>6. ASSUME NEW good, NEW new, r \in new,
             r.op = "list" \/ (Fresh(cs, good) /\ ToSet(cs) \cap good \subseteq new)
      PROVE  Fresh(d, new)
  <2>1. \A i \in DOMAIN cs : cs[i] \in ToSet(cs)
    BY DEF ToSet
  <2> QED
    BY <1>1, <1>2, <1>3, <1>6, <2>1 DEF Fresh
<1> QED
  BY <1>4, <1>5, <1>6 DEF d

-----------------------------------------------------------------------------
(* A call ends. *)

LEMMA Removed ==
  ASSUME NEW S, NEW cs \in Seq(S), NEW i \in DOMAIN cs
  PROVE  /\ RemoveAt(cs, i) \in Seq(S) /\ Len(RemoveAt(cs, i)) = Len(cs) - 1
         /\ \A k \in 1..(Len(cs) - 1) : RemoveAt(cs, i)[k] = cs[IF k < i THEN k ELSE k + 1]
<1> DEFINE a == SubSeq(cs, 1, i - 1)
           b == SubSeq(cs, i + 1, Len(cs))
<1>1. a \in Seq(S) /\ Len(a) = i - 1 /\ \A k \in 1..(i - 1) : a[k] = cs[k]
  OBVIOUS
<1>2. b \in Seq(S) /\ Len(b) = Len(cs) - i /\ \A k \in 1..(Len(cs) - i) : b[k] = cs[k + i]
  OBVIOUS
<1>3. RemoveAt(cs, i) = a \o b
  BY DEF RemoveAt
<1>4. Len(cs) \in Nat /\ i \in 1..Len(cs)
  OBVIOUS
<1> HIDE DEF a, b
<1>5. a \in Seq(S) /\ b \in Seq(S)
  BY <1>1, <1>2
<1>6. a \o b \in Seq(S) /\ Len(a \o b) = Len(cs) - 1
  <2>1. a \o b \in Seq(S) /\ Len(a \o b) = Len(a) + Len(b)
    BY <1>5
  <2>2. Len(a) = i - 1 /\ Len(b) = Len(cs) - i
    BY <1>1, <1>2
  <2> QED
    BY <1>4, <2>1, <2>2
<1>7. ASSUME NEW k \in 1..(Len(cs) - 1)
      PROVE  (a \o b)[k] = cs[IF k < i THEN k ELSE k + 1]
  <2>1. CASE k < i
    BY <1>1, <1>2, <1>4, <2>1
  <2>2. CASE ~(k < i)
    <3>1. k - i + 1 \in 1..(Len(cs) - i) /\ (k - i + 1) + i = k + 1
      BY <1>4, <2>2
    <3>2. (a \o b)[k] = b[k - Len(a)]
      BY <1>1, <1>2, <1>4, <2>2
    <3>3. k - Len(a) = k - i + 1
      BY <1>1, <1>4
    <3> QED
      BY <1>2, <2>2, <3>1, <3>2, <3>3
  <2> QED
    BY <2>1, <2>2
<1> QED
  BY <1>3, <1>6, <1>7

LEMMA RemovedSet ==
  ASSUME NEW S, NEW cs \in Seq(S), NEW i \in DOMAIN cs
  PROVE  /\ ToSet(RemoveAt(cs, i)) \subseteq ToSet(cs)
         /\ ToSet(cs) \subseteq ToSet(RemoveAt(cs, i)) \cup {cs[i]}
         /\ \A ops : Single(cs, ops) /\ cs[i].op \in ops => ~Has(RemoveAt(cs, i), ops)
         /\ \A ops, f : LastAsks(cs, ops, f) /\ cs[i].op \in ops /\ ~Has(RemoveAt(cs, i), ops)
                          => cs[i].arg = f
<1> DEFINE d == RemoveAt(cs, i)
<1>1. d \in Seq(S) /\ Len(d) = Len(cs) - 1 /\ Len(cs) \in Nat /\ i \in 1..Len(cs)
  BY Removed
<1>2. \A k \in 1..(Len(cs) - 1) : d[k] = cs[IF k < i THEN k ELSE k + 1]
  BY Removed
<1> HIDE DEF d
<1>3. DOMAIN d = 1..(Len(cs) - 1) /\ DOMAIN cs = 1..Len(cs)
  BY <1>1
<1>4. ASSUME NEW k \in DOMAIN d
      PROVE  \E j \in DOMAIN cs : j # i /\ d[k] = cs[j]
  BY <1>1, <1>2, <1>3
<1>5. ASSUME NEW j \in DOMAIN cs, j # i
      PROVE  \E k \in DOMAIN d : d[k] = cs[j]
  <2>1. CASE j < i
    BY <1>1, <1>2, <1>3, <2>1
  <2>2. CASE j > i
    <3>1. j - 1 \in 1..(Len(cs) - 1) /\ ~(j - 1 < i) /\ (j - 1) + 1 = j
      BY <1>1, <1>3, <2>2
    <3> QED
      BY <1>2, <1>3, <3>1
  <2> QED
    BY <1>1, <1>3, <1>5, <2>1, <2>2
<1>6. ToSet(d) \subseteq ToSet(cs)
  BY <1>4 DEF ToSet
<1>7. ToSet(cs) \subseteq ToSet(d) \cup {cs[i]}
  BY <1>5 DEF ToSet
<1>8. ASSUME NEW ops, Single(cs, ops), cs[i].op \in ops
      PROVE  ~Has(d, ops)
  BY <1>4, <1>8 DEF Has, Single, ToSet
<1>9. ASSUME NEW ops, NEW f, LastAsks(cs, ops, f), cs[i].op \in ops, ~Has(d, ops)
      PROVE  cs[i].arg = f
  <2>1. \A j \in DOMAIN cs : j # i => cs[j].op \notin ops
    BY <1>5, <1>9 DEF Has, ToSet
  <2>2. i \in DOMAIN cs /\ ~(i > i)
    BY <1>1, <1>3
  <2> QED
    BY <1>9, <2>1, <2>2 DEF LastAsks
<1> QED
  BY <1>6, <1>7, <1>8, <1>9 DEF d

LEMMA RemovedOrder ==
  ASSUME NEW S, NEW cs \in Seq(S), NEW i \in DOMAIN cs
  PROVE  /\ \A ops : Single(cs, ops) => Single(RemoveAt(cs, i), ops)
         /\ \A ops, f : LastAsks(cs, ops, f) /\ (cs[i].op \in ops => ~Before(cs, i, ops))
                          => LastAsks(RemoveAt(cs, i), ops, f)
         /\ \A good, new :
              /\ Fresh(cs, good) /\ ToSet(RemoveAt(cs, i)) \cap good \subseteq new
              /\ cs[i].op = "list" => \A j \in 1..(i - 1) : cs[j] \in new
              => Fresh(RemoveAt(cs, i), new)
<1> DEFINE d == RemoveAt(cs, i)
           Old(k) == IF k < i THEN k ELSE k + 1
           New(j) == IF j < i THEN j ELSE j - 1
<1>1. d \in Seq(S) /\ Len(d) = Len(cs) - 1 /\ Len(cs) \in Nat /\ i \in 1..Len(cs)
  BY Removed
<1>2. \A k \in 1..(Len(cs) - 1) : d[k] = cs[Old(k)]
  BY Removed
<1> HIDE DEF d
<1>3. DOMAIN d = 1..(Len(cs) - 1) /\ DOMAIN cs = 1..Len(cs)
  BY <1>1
<1>4. ASSUME NEW k \in DOMAIN d
      PROVE  /\ Old(k) \in DOMAIN cs /\ Old(k) # i /\ d[k] = cs[Old(k)]
             /\ \A l \in DOMAIN d : (k < l <=> Old(k) < Old(l)) /\ (k = l <=> Old(k) = Old(l))
  BY <1>1, <1>2, <1>3
<1>5. ASSUME NEW j \in DOMAIN cs, j # i
      PROVE  New(j) \in DOMAIN d /\ Old(New(j)) = j /\ d[New(j)] = cs[j]
  <2>1. New(j) \in DOMAIN d /\ Old(New(j)) = j
    BY <1>1, <1>3, <1>5
  <2> QED
    BY <1>4, <2>1
<1>6. DOMAIN cs \subseteq Nat /\ DOMAIN d \subseteq Nat
  BY <1>1, <1>3
<1> HIDE DEF Old, New
<1>7. ASSUME NEW ops, Single(cs, ops)
      PROVE  Single(d, ops)
  BY <1>4, <1>7 DEF Single
<1>8. ASSUME NEW ops, NEW f, LastAsks(cs, ops, f), cs[i].op \in ops => ~Before(cs, i, ops)
      PROVE  LastAsks(d, ops, f)
  <2> SUFFICES ASSUME NEW k \in DOMAIN d, d[k].op \in ops,
                      \A l \in DOMAIN d : l > k => d[l].op \notin ops
               PROVE  d[k].arg = f
    BY DEF LastAsks
  <2>1. ASSUME NEW j \in DOMAIN cs, j > Old(k)
        PROVE  cs[j].op \notin ops
    <3>1. CASE j # i
      <4>1. New(j) > k
        BY <1>4, <1>5, <1>6, <2>1, <3>1
      <4> QED
        BY <1>5, <3>1, <4>1
    <3>2. CASE j = i
      <4>1. Old(k) \in 1..(i - 1)
        BY <1>1, <1>3, <1>4, <2>1, <3>2
      <4> QED
        BY <1>4, <1>8, <3>2, <4>1 DEF Before
    <3> QED
      BY <3>1, <3>2
  <2> QED
    BY <1>4, <1>8, <2>1 DEF LastAsks
<1>9. ASSUME NEW good, NEW new, Fresh(cs, good), ToSet(d) \cap good \subseteq new,
             cs[i].op = "list" => \A j \in 1..(i - 1) : cs[j] \in new
      PROVE  Fresh(d, new)
  <2> SUFFICES ASSUME NEW k \in DOMAIN d, d[k] \notin new
               PROVE  \E l \in DOMAIN d : l > k /\ d[l].op = "list"
    BY DEF Fresh
  <2> d[k] \notin good
    BY <1>9 DEF ToSet
  <2>1. PICK j \in DOMAIN cs : j > Old(k) /\ cs[j].op = "list"
    BY <1>4, <1>9 DEF Fresh
  <2>2. CASE j # i
    <3>1. New(j) > k
      BY <1>4, <1>5, <1>6, <2>1, <2>2
    <3> QED
      BY <1>5, <2>1, <2>2, <3>1
  <2>3. CASE j = i
    <3>1. Old(k) \in 1..(i - 1)
      BY <1>1, <1>3, <1>4, <2>1, <2>3
    <3> QED
      BY <1>4, <1>9, <2>1, <2>3, <3>1
  <2> QED
    BY <2>2, <2>3
<1> QED
  BY <1>7, <1>8, <1>9 DEF d

LEMMA WholeRequest ==
  \A op, arg : /\ Whole(Request(op, arg))
               /\ Request(op, arg).op = op /\ Request(op, arg).arg = arg
               /\ Request(op, arg).pc = "sent" /\ ~Request(op, arg).ok
BY DEF Request, Whole

LEMMA Recast ==
  ASSUME NEW S, NEW cs \in Seq(S)
  PROVE  cs \in Seq(ToSet(cs))
BY DEF ToSet

LEMMA Sends ==
  ASSUME NEW cs, Calls(cs), NEW r, Whole(r)
  PROVE  LET d == Append(cs, r) IN
         /\ Calls(d) /\ Len(d) = Len(cs) + 1 /\ Len(cs) \in Nat
         /\ ToSet(d) = ToSet(cs) \cup {r}
         /\ \A ops : Single(cs, ops) /\ (r.op \notin ops \/ ~Has(cs, ops)) => Single(d, ops)
         /\ \A ops, f : (IF r.op \in ops THEN r.arg = f ELSE LastAsks(cs, ops, f)) => LastAsks(d, ops, f)
         /\ \A good, new : /\ r \in new
                           /\ r.op = "list" \/ (Fresh(cs, good) /\ ToSet(cs) \cap good \subseteq new)
                           => Fresh(d, new)
<1> DEFINE S == ToSet(cs) \cup {r}
<1>1. cs \in Seq(S) /\ r \in S /\ Len(cs) \in Nat
  BY DEF Calls, ToSet
<1> HIDE DEF S
<1>2. /\ Append(cs, r) \in Seq(S) /\ Len(Append(cs, r)) = Len(cs) + 1
      /\ ToSet(Append(cs, r)) = ToSet(cs) \cup {r}
  BY <1>1, Sent
<1>3. Calls(Append(cs, r))
  BY <1>2, Recast DEF Calls
<1> QED
  BY <1>1, <1>2, <1>3, SentOrder

LEMMA Ends ==
  ASSUME NEW cs, Calls(cs), NEW i \in DOMAIN cs
  PROVE  LET d == RemoveAt(cs, i) IN
         /\ Calls(d) /\ Len(d) = Len(cs) - 1 /\ Len(cs) \in Nat
         /\ ToSet(d) \subseteq ToSet(cs) /\ ToSet(cs) \subseteq ToSet(d) \cup {cs[i]}
         /\ cs[i] \in ToSet(cs)
         /\ \A ops : Single(cs, ops) => Single(d, ops)
         /\ \A ops : Single(cs, ops) /\ cs[i].op \in ops => ~Has(d, ops)
         /\ \A ops, f : LastAsks(cs, ops, f) /\ cs[i].op \in ops /\ ~Has(d, ops) => cs[i].arg = f
         /\ \A ops, f : LastAsks(cs, ops, f) /\ (cs[i].op \in ops => ~Before(cs, i, ops))
                          => LastAsks(d, ops, f)
         /\ \A good, new :
              /\ Fresh(cs, good) /\ ToSet(d) \cap good \subseteq new
              /\ cs[i].op = "list" => \A j \in 1..(i - 1) : cs[j] \in new
              => Fresh(d, new)
<1>1. cs \in Seq(ToSet(cs)) /\ Len(cs) \in Nat
  BY DEF Calls
<1>2. RemoveAt(cs, i) \in Seq(ToSet(cs)) /\ Len(RemoveAt(cs, i)) = Len(cs) - 1
  BY <1>1, Removed
<1>3. /\ ToSet(RemoveAt(cs, i)) \subseteq ToSet(cs)
      /\ ToSet(cs) \subseteq ToSet(RemoveAt(cs, i)) \cup {cs[i]}
      /\ cs[i] \in ToSet(cs)
  BY <1>1, RemovedSet DEF ToSet
<1>4. Calls(RemoveAt(cs, i))
  BY <1>2, <1>3, Recast DEF Calls
<1> QED
  BY <1>1, <1>2, <1>3, <1>4, RemovedSet, RemovedOrder

\* The cleanup of an effect, which has one call open at most.
LEMMA CancelRemoves ==
  ASSUME NEW cs, Calls(cs), NEW op, Single(cs, {op})
  PROVE  \/ ~Has(cs, {op}) /\ Cancel(cs, op) = cs
         \/ \E i \in DOMAIN cs : cs[i].op = op /\ Cancel(cs, op) = RemoveAt(cs, i)
<1>1. cs \in Seq(ToSet(cs)) /\ Len(cs) \in Nat /\ DOMAIN cs = 1..Len(cs)
  BY DEF Calls
<1>2. CASE ~Has(cs, {op})
  <2>1. ~\E c \in ToSet(cs) : c.op = op
    BY <1>2 DEF Has
  <2>2. ~\E j \in 1..Len(cs) : cs[j].op = op
    BY <1>1, <2>1 DEF ToSet
  <2> QED
    BY <1>1, <1>2, <2>2 DEF Cancel, RemoveFirstMatch
<1>3. CASE Has(cs, {op})
  <2>1. PICK i \in DOMAIN cs : cs[i].op = op
    BY <1>3 DEF Has, ToSet
  <2>2. {j \in 1..Len(cs) : cs[j].op = op} = {i}
    BY <1>1, <2>1 DEF Single
  <2>3. i \in Nat
    BY <1>1
  <2>4. Min({i}) = i
    BY <2>3 DEF Min
  <2>5. SelectInSeq(cs, LAMBDA c : c.op = op) = i
    BY <2>2, <2>4 DEF SelectInSeq
  <2>6. Cancel(cs, op) = RemoveAt(cs, i)
    BY <1>1, <2>1, <2>5 DEF Cancel, RemoveFirstMatch
  <2> QED
    BY <2>1, <2>6
<1> QED
  BY <1>2, <1>3

LEMMA Cancels ==
  ASSUME NEW cs, Calls(cs), NEW op, Single(cs, {op})
  PROVE  LET d == Cancel(cs, op) IN
         /\ Calls(d) /\ Len(d) \in Nat /\ Len(cs) \in Nat
         /\ Len(d) = IF Has(cs, {op}) THEN Len(cs) - 1 ELSE Len(cs)
         /\ ToSet(d) = {c \in ToSet(cs) : c.op # op} /\ ~Has(d, {op})
         /\ \A ops : Single(cs, ops) => Single(d, ops)
         /\ \A ops, f : op \notin ops /\ LastAsks(cs, ops, f) => LastAsks(d, ops, f)
         /\ \A good, new : op # "list" /\ Fresh(cs, good) /\ ToSet(d) \cap good \subseteq new => Fresh(d, new)
<1>1. CASE ~Has(cs, {op}) /\ Cancel(cs, op) = cs
  <2>1. ToSet(cs) = {c \in ToSet(cs) : c.op # op}
    BY <1>1 DEF Has
  <2>2. Len(cs) \in Nat
    BY DEF Calls
  <2>3. ASSUME NEW good, NEW new, Fresh(cs, good), ToSet(cs) \cap good \subseteq new
        PROVE  Fresh(cs, new)
    <3>1. \A i \in DOMAIN cs : cs[i] \in ToSet(cs)
      BY DEF ToSet
    <3> QED
      BY <2>3, <3>1 DEF Fresh
  <2> QED
    BY <1>1, <2>1, <2>2, <2>3
<1>2. ASSUME NEW i \in DOMAIN cs, cs[i].op = op, Cancel(cs, op) = RemoveAt(cs, i)
      PROVE  LET d == Cancel(cs, op) IN
         /\ Calls(d) /\ Len(d) \in Nat /\ Len(cs) \in Nat
         /\ Len(d) = IF Has(cs, {op}) THEN Len(cs) - 1 ELSE Len(cs)
         /\ ToSet(d) = {c \in ToSet(cs) : c.op # op} /\ ~Has(d, {op})
         /\ \A ops : Single(cs, ops) => Single(d, ops)
         /\ \A ops, f : op \notin ops /\ LastAsks(cs, ops, f) => LastAsks(d, ops, f)
         /\ \A good, new : op # "list" /\ Fresh(cs, good) /\ ToSet(d) \cap good \subseteq new => Fresh(d, new)
  <2> DEFINE d == RemoveAt(cs, i)
  <2>1. /\ Calls(d) /\ Len(d) = Len(cs) - 1 /\ Len(cs) \in Nat /\ cs[i] \in ToSet(cs)
        /\ ToSet(d) \subseteq ToSet(cs) /\ ToSet(cs) \subseteq ToSet(d) \cup {cs[i]}
    BY Ends
  <2>2. Len(d) \in Nat
    BY <2>1 DEF Calls
  <2>3. ~Has(d, {op})
    BY <1>2, Ends
  <2>4. Has(cs, {op}) /\ ToSet(d) = {c \in ToSet(cs) : c.op # op}
    BY <1>2, <2>1, <2>3 DEF Has
  <2>5. /\ \A ops : Single(cs, ops) => Single(d, ops)
        /\ \A ops, f : op \notin ops /\ LastAsks(cs, ops, f) => LastAsks(d, ops, f)
        /\ \A good, new : op # "list" /\ Fresh(cs, good) /\ ToSet(d) \cap good \subseteq new => Fresh(d, new)
    BY <1>2, Ends
  <2> QED
    BY <1>2, <2>1, <2>2, <2>3, <2>4, <2>5
<1> QED
  BY <1>1, <1>2, CancelRemoves

\* The service answers, or the answer is lost.
Answering(cs, i, ok, answer) ==
  [cs EXCEPT ![i] = [@ EXCEPT !.pc = "answered", !.ok = ok, !.answer = answer]]

LEMMA Answers ==
  ASSUME NEW cs, Calls(cs), NEW i \in DOMAIN cs, NEW ok \in BOOLEAN, NEW answer
  PROVE  LET d == Answering(cs, i, ok, answer) IN
         /\ Calls(d) /\ Len(d) = Len(cs) /\ Len(cs) \in Nat /\ DOMAIN d = DOMAIN cs
         /\ d[i].op = cs[i].op /\ d[i].arg = cs[i].arg /\ d[i].ok = ok /\ d[i].answer = answer
         /\ d[i] \in ToSet(d) /\ cs[i] \in ToSet(cs)
         /\ ToSet(d) \subseteq ToSet(cs) \cup {d[i]} /\ ToSet(cs) \subseteq ToSet(d) \cup {cs[i]}
         /\ \A ops : (Has(d, ops) <=> Has(cs, ops)) /\ (Single(cs, ops) => Single(d, ops))
         /\ \A ops, f : LastAsks(cs, ops, f) => LastAsks(d, ops, f)
         /\ \A good, new : Fresh(cs, good) /\ d[i] \in new /\ ToSet(cs) \cap good \subseteq new => Fresh(d, new)
<1> DEFINE a == [cs[i] EXCEPT !.pc = "answered", !.ok = ok, !.answer = answer]
           d == Answering(cs, i, ok, answer)
<1>0. d = [cs EXCEPT ![i] = a]
  BY DEF Answering
<1>1. cs \in Seq(ToSet(cs)) /\ cs[i] \in ToSet(cs) /\ Whole(cs[i]) /\ Len(cs) \in Nat
  BY DEF Calls, ToSet
<1>2. Whole(a) /\ a.op = cs[i].op /\ a.arg = cs[i].arg /\ a.ok = ok /\ a.answer = answer
  BY <1>1 DEF Whole
<1> HIDE DEF a
<1>3. /\ Len(d) = Len(cs) /\ DOMAIN d = DOMAIN cs
      /\ d[i] = a /\ \A j \in DOMAIN cs : j # i => d[j] = cs[j]
  BY <1>1, <1>0
<1>4. d \in Seq(ToSet(cs) \cup {a})
  BY <1>1, <1>0
<1> HIDE DEF d
<1>5. ToSet(d) \subseteq ToSet(cs) \cup {a} /\ ToSet(cs) \subseteq ToSet(d) \cup {cs[i]} /\ a \in ToSet(d)
  BY <1>3 DEF ToSet
<1>6. Calls(d)
  BY <1>2, <1>4, <1>5, Recast DEF Calls
<1>7. \A j \in DOMAIN cs : d[j].op = cs[j].op /\ d[j].arg = cs[j].arg
  BY <1>2, <1>3
<1>8. ASSUME NEW ops
      PROVE  (Has(d, ops) <=> Has(cs, ops)) /\ (Single(cs, ops) => Single(d, ops))
  <2>1. Has(d, ops) => Has(cs, ops)
    BY <1>2, <1>5, <1>1 DEF Has
  <2>2. Has(cs, ops) => Has(d, ops)
    BY <1>2, <1>5 DEF Has
  <2>3. Single(cs, ops) => Single(d, ops)
    BY <1>3, <1>7 DEF Single
  <2> QED
    BY <2>1, <2>2, <2>3
<1>9. ASSUME NEW ops, NEW f, LastAsks(cs, ops, f)
      PROVE  LastAsks(d, ops, f)
  BY <1>3, <1>7, <1>9 DEF LastAsks
<1>10. ASSUME NEW good, NEW new, Fresh(cs, good), a \in new, ToSet(cs) \cap good \subseteq new
       PROVE  Fresh(d, new)
  <2>1. \A j \in DOMAIN cs : cs[j] \in ToSet(cs)
    BY DEF ToSet
  <2> QED
    BY <1>3, <1>7, <1>10, <2>1 DEF Fresh
<1> QED
  BY <1>1, <1>2, <1>3, <1>5, <1>6, <1>8, <1>9, <1>10 DEF d

-----------------------------------------------------------------------------
(* The pages that are written alike. *)

Frame == {clicks, faults, changes} \subseteq Nat /\ {parted, marred} \subseteq BOOLEAN

IsRows(rows) == DOMAIN rows = {"by", "of"}

\* What is read answers what was asked.
Sound(c) == c.op \in ReadsOpen /\ c.ok => IsRows(c.answer) /\ c.answer.by = c.arg

\* The effect's call is open while the page loads; and the last listing that is open, or
\* else the effect's call, or else what is shown, is for what is applied.
Listed(cs, view, by, applied, aside) ==
  /\ Calls(cs)
  /\ Single(cs, {"load"}) /\ (view = "loading" <=> Has(cs, {"load"}))
  /\ Len(cs) <= MaxCalls + (IF view = "loading" THEN 1 ELSE 0)
  /\ \A c \in ToSet(cs) : Sound(c) /\ (c.op = "load" => c.arg = Everything)
  /\ ~aside =>
       /\ LastAsks(cs, {"list"}, applied)
       /\ ~Has(cs, {"list"}) /\ Has(cs, {"load"}) => applied = Everything
       /\ ~Has(cs, {"list", "load"}) /\ view = "ready" => by = applied

LEMMA MaxCallsNat == MaxCalls \in Nat /\ MaxCalls >= 2
BY BoundsAssumption

LEMMA ListedSends ==
  ASSUME NEW cs, NEW view, NEW by, NEW applied, NEW aside, Listed(cs, view, by, applied, aside),
         NEW r, Whole(r), ~r.ok, r.op \notin {"load", "list"}, Len(cs) + 1 <= MaxCalls
  PROVE  Listed(Append(cs, r), view, by, applied, aside)
<1> DEFINE d == Append(cs, r)
<1>1. /\ Calls(d) /\ Len(d) = Len(cs) + 1 /\ Len(cs) \in Nat /\ MaxCalls \in Nat
      /\ ToSet(d) = ToSet(cs) \cup {r}
      /\ Single(cs, {"load"}) => Single(d, {"load"})
      /\ LastAsks(cs, {"list"}, applied) => LastAsks(d, {"list"}, applied)
  BY Sends, MaxCallsNat DEF Listed
<1> HIDE DEF d
<1>2. \A ops \in SUBSET {"load", "list"} : Has(d, ops) <=> Has(cs, ops)
  BY <1>1 DEF Has
<1> QED
  BY <1>1, <1>2 DEF Listed, Sound, d

LEMMA ListedEnds ==
  ASSUME NEW cs, NEW view, NEW by, NEW applied, NEW aside, Listed(cs, view, by, applied, aside),
         NEW i \in DOMAIN cs, cs[i].op \notin {"load", "list"}
  PROVE  Listed(RemoveAt(cs, i), view, by, applied, aside)
<1> DEFINE d == RemoveAt(cs, i)
<1>1. /\ Calls(d) /\ Len(d) = Len(cs) - 1 /\ Len(cs) \in Nat /\ MaxCalls \in Nat
      /\ ToSet(d) \subseteq ToSet(cs) /\ ToSet(cs) \subseteq ToSet(d) \cup {cs[i]}
      /\ Single(cs, {"load"}) => Single(d, {"load"})
      /\ LastAsks(cs, {"list"}, applied) => LastAsks(d, {"list"}, applied)
  BY Ends, MaxCallsNat DEF Listed
<1> HIDE DEF d
<1>2. \A ops \in SUBSET {"load", "list"} : Has(d, ops) <=> Has(cs, ops)
  BY <1>1 DEF Has
<1> QED
  BY <1>1, <1>2 DEF Listed, d

LEMMA ListedCancels ==
  ASSUME NEW cs, NEW view, NEW by, NEW applied, NEW aside, Listed(cs, view, by, applied, aside),
         NEW op, op \notin {"load", "list"}, Single(cs, {op})
  PROVE  Listed(Cancel(cs, op), view, by, applied, aside)
<1> Calls(cs)
  BY DEF Listed
<1> QED
  BY CancelRemoves, ListedEnds

LEMMA ListedAnswers ==
  ASSUME NEW cs, NEW view, NEW by, NEW applied, NEW aside, Listed(cs, view, by, applied, aside),
         NEW i \in DOMAIN cs, NEW ok \in BOOLEAN, NEW answer,
         cs[i].op \in ReadsOpen /\ ok => IsRows(answer) /\ answer.by = cs[i].arg
  PROVE  Listed(Answering(cs, i, ok, answer), view, by, applied, aside)
<1> DEFINE d == Answering(cs, i, ok, answer)
<1>0. Calls(cs)
  BY DEF Listed
<1>1. /\ Calls(d) /\ Len(d) = Len(cs)
      /\ d[i].op = cs[i].op /\ d[i].arg = cs[i].arg /\ d[i].ok = ok /\ d[i].answer = answer
      /\ cs[i] \in ToSet(cs) /\ ToSet(d) \subseteq ToSet(cs) \cup {d[i]}
      /\ \A ops : Has(d, ops) <=> Has(cs, ops)
      /\ Single(cs, {"load"}) => Single(d, {"load"})
      /\ LastAsks(cs, {"list"}, applied) => LastAsks(d, {"list"}, applied)
  BY <1>0, Answers
<1> HIDE DEF d
<1> QED
  BY <1>1 DEF Listed, Sound, d

\* A listing beside the effect's call, or the effect's call alone.
LEMMA ListedAsks ==
  ASSUME NEW cs, NEW view, NEW by, NEW applied, NEW aside, Listed(cs, view, by, applied, aside),
         NEW to, NEW apart, NEW f, ~apart => f = to,
         Len(cs) + 1 <= MaxCalls + (IF view = "loading" THEN 1 ELSE 0)
  PROVE  Listed(Append(cs, Request("list", f)), view, by, to, apart)
<1> DEFINE r == Request("list", f)
           d == Append(cs, r)
<1>0. Whole(r) /\ r.op = "list" /\ r.arg = f /\ ~r.ok
  BY WholeRequest
<1> HIDE DEF r
<1>1. /\ Calls(d) /\ Len(d) = Len(cs) + 1 /\ Len(cs) \in Nat /\ MaxCalls \in Nat
      /\ ToSet(d) = ToSet(cs) \cup {r}
      /\ Single(cs, {"load"}) => Single(d, {"load"})
      /\ LastAsks(d, {"list"}, f)
  BY <1>0, Sends, MaxCallsNat DEF Listed
<1> HIDE DEF d
<1>2. (Has(d, {"load"}) <=> Has(cs, {"load"})) /\ Has(d, {"list"}) /\ Has(d, {"list", "load"})
  BY <1>0, <1>1 DEF Has
<1>3. \A c \in ToSet(d) : Sound(c) /\ (c.op = "load" => c.arg = Everything)
  BY <1>0, <1>1 DEF Listed, Sound
<1> QED
  BY <1>1, <1>2, <1>3 DEF Listed, d, r

LEMMA ListedLoads ==
  ASSUME NEW cs, NEW view, NEW by, NEW applied, NEW aside, Listed(cs, view, by, applied, aside),
         view # "loading", NEW shown, NEW apart, ~apart => ~aside,
         ~apart => Has(cs, {"list"}) \/ applied = Everything,
         NEW d, d = Append(Cancel(cs, "load"), Request("load", Everything))
  PROVE  Listed(d, "loading", shown, applied, apart)
<1> DEFINE r == Request("load", Everything)
<1>0. Whole(r) /\ r.op = "load" /\ r.arg = Everything /\ ~r.ok
  BY WholeRequest
<1>1. Calls(cs) /\ Single(cs, {"load"}) /\ ~Has(cs, {"load"})
  BY DEF Listed
<1>2. Cancel(cs, "load") = cs
  <2>1. ASSUME NEW i \in DOMAIN cs, cs[i].op = "load"
        PROVE  FALSE
    BY <1>1, <2>1 DEF Has, ToSet
  <2> QED
    BY <1>1, <2>1, CancelRemoves
<1>3. d = Append(cs, r)
  BY <1>2
<1> HIDE DEF r
<1>4. /\ Calls(d) /\ Len(d) = Len(cs) + 1 /\ Len(cs) \in Nat /\ MaxCalls \in Nat
      /\ ToSet(d) = ToSet(cs) \cup {r}
      /\ Single(d, {"load"})
      /\ LastAsks(cs, {"list"}, applied) => LastAsks(d, {"list"}, applied)
  <2>1. Whole(r) /\ r.op \notin {"list"}
    BY <1>0
  <2>2. /\ Calls(Append(cs, r)) /\ Len(Append(cs, r)) = Len(cs) + 1 /\ Len(cs) \in Nat
        /\ ToSet(Append(cs, r)) = ToSet(cs) \cup {r}
        /\ Single(Append(cs, r), {"load"})
        /\ LastAsks(cs, {"list"}, applied) => LastAsks(Append(cs, r), {"list"}, applied)
    BY <1>1, <2>1, Sends
  <2> QED
    BY <1>3, <2>2, MaxCallsNat
<1>5. (Has(d, {"list"}) <=> Has(cs, {"list"})) /\ Has(d, {"load"}) /\ Has(d, {"list", "load"})
  BY <1>0, <1>4 DEF Has
<1>6. \A c \in ToSet(d) : Sound(c) /\ (c.op = "load" => c.arg = Everything)
  BY <1>0, <1>4 DEF Listed, Sound
<1> QED
  BY <1>4, <1>5, <1>6 DEF Listed

\* applyFilters, resetFilters, retry and reload.
LEMMA ListedRefetch ==
  ASSUME NEW cs, NEW by, NEW applied, NEW aside, Listed(cs, ui.view, by, applied, aside),
         NEW shown, NEW to, NEW apart, NEW f, ~apart => f = to,
         Len(cs) + 1 <= MaxCalls + (IF ui.view = "loading" THEN 1 ELSE 0)
  PROVE  Listed(SetView(Append(cs, Request("list", f)), "loading"), "loading", shown, to, apart)
<1> DEFINE d == Append(cs, Request("list", f))
<1>0. Len(cs) \in Nat /\ MaxCalls \in Nat
  BY MaxCallsNat DEF Listed, Calls
<1>1. \A s : Listed(d, ui.view, s, to, apart)
  <2>1. Listed(d, ui.view, by, to, apart)
    BY <1>0, ListedAsks
  <2>2. Has(d, {"list", "load"})
    <3>1. Request("list", f) \in ToSet(d) /\ Request("list", f).op = "list"
      BY WholeRequest, Sends DEF Listed
    <3> QED
      BY <3>1 DEF Has
  <2> QED
    BY <2>1, <2>2 DEF Listed
<1>2. Has(d, {"list"})
  <2>1. Request("list", f) \in ToSet(d) /\ Request("list", f).op = "list"
    BY WholeRequest, Sends DEF Listed
  <2> QED
    BY <2>1 DEF Has
<1> HIDE DEF d
<1>3. CASE ui.view = "loading"
  BY <1>1, <1>3 DEF SetView, d
<1>4. CASE ui.view # "loading"
  <2>1. SetView(d, "loading") = Append(Cancel(d, "load"), Request("load", Everything))
    BY <1>4 DEF SetView
  <2>2. Listed(SetView(d, "loading"), "loading", shown, to, apart)
    BY <1>1, <1>2, <1>4, <2>1, ListedLoads
  <2> QED
    BY <2>2 DEF d
<1> QED
  BY <1>3, <1>4

\* The effect's cleanup when the table is shown, or an error.
LEMMA ListedShown ==
  ASSUME NEW cs, NEW by, NEW applied, NEW aside, Listed(cs, ui.view, by, applied, aside),
         NEW view, view # "loading", NEW shown, NEW apart, ~apart => ~aside,
         ~apart /\ view = "ready" => Has(cs, {"list"}) \/ shown = applied
  PROVE  Listed(SetView(cs, view), view, shown, applied, apart)
<1>1. Calls(cs) /\ Single(cs, {"load"}) /\ Len(cs) \in Nat /\ MaxCalls \in Nat
  BY MaxCallsNat DEF Listed, Calls
<1>2. SetView(cs, view) = cs \/ SetView(cs, view) = Cancel(cs, "load")
  BY DEF SetView
<1>3. CASE SetView(cs, view) = cs /\ ui.view = view
  <2>1. \A c \in ToSet(cs) : c.op \in {"list"} => Has(cs, {"list", "load"})
    BY DEF Has
  <2>2. Has(cs, {"list"}) => Has(cs, {"list", "load"})
    BY DEF Has
  <2> QED
    BY <1>3, <2>2 DEF Listed
<1>4. CASE SetView(cs, view) = Cancel(cs, "load")
  <2> DEFINE d == Cancel(cs, "load")
  <2>1. /\ Calls(d) /\ Len(d) \in Nat
        /\ Len(d) = IF Has(cs, {"load"}) THEN Len(cs) - 1 ELSE Len(cs)
        /\ ToSet(d) = {c \in ToSet(cs) : c.op # "load"} /\ ~Has(d, {"load"})
        /\ Single(d, {"load"})
        /\ LastAsks(cs, {"list"}, applied) => LastAsks(d, {"list"}, applied)
    BY <1>1, Cancels
  <2> HIDE DEF d
  <2>2. (Has(d, {"list"}) <=> Has(cs, {"list"})) /\ (Has(d, {"list", "load"}) <=> Has(cs, {"list"}))
    BY <2>1 DEF Has
  <2>3. Len(d) <= MaxCalls
    BY <1>1, <2>1 DEF Listed
  <2>4. \A c \in ToSet(d) : Sound(c) /\ (c.op = "load" => c.arg = Everything)
    BY <2>1 DEF Listed
  <2>5. ~apart => /\ LastAsks(d, {"list"}, applied)
                  /\ ~Has(d, {"list", "load"}) /\ view = "ready" => shown = applied
    BY <2>1, <2>2 DEF Listed
  <2>6. Len(d) <= MaxCalls + (IF view = "loading" THEN 1 ELSE 0)
    BY <1>1, <2>1, <2>3
  <2>7. Listed(d, view, shown, applied, apart)
    BY <2>1, <2>4, <2>5, <2>6 DEF Listed
  <2> QED
    BY <1>4, <2>7 DEF d
<1> QED
  BY <1>2, <1>3, <1>4 DEF SetView

LEMMA ListedReceives ==
  ASSUME {"view", "rows"} \subseteq DOMAIN ui, IsRows(ui.rows),
         Listed(calls, ui.view, ui.rows.by, ui.applied, parted), parted \in BOOLEAN,
         NEW i \in DOMAIN calls, ReceiveRows(i)
  PROVE  /\ Listed(calls', ui'.view, ui'.rows.by, ui.applied, parted')
         /\ IsRows(ui'.rows)
<1> DEFINE cs == RemoveAt(calls, i)
           view == IF calls[i].ok THEN "ready" ELSE "error"
           rows == IF calls[i].ok THEN calls[i].answer ELSE ui.rows
<1>1. calls' = SetView(cs, view) /\ ui'.view = view /\ ui'.rows = rows
  BY DEF ReceiveRows
<1>2. parted' \in BOOLEAN /\ (~parted' => ~parted /\ ~Before(calls, i, {"list"}))
  BY DEF ReceiveRows, Late, Before
<1>3. calls[i].op \in {"load", "list"}
  BY DEF ReceiveRows
<1>4. /\ Calls(cs) /\ Len(cs) = Len(calls) - 1 /\ Len(calls) \in Nat /\ MaxCalls \in Nat
      /\ ToSet(cs) \subseteq ToSet(calls) /\ ToSet(calls) \subseteq ToSet(cs) \cup {calls[i]}
      /\ calls[i] \in ToSet(calls)
      /\ Single(cs, {"load"})
      /\ calls[i].op = "load" => ~Has(cs, {"load"})
      /\ calls[i].op = "list" /\ ~Has(cs, {"list"}) /\ LastAsks(calls, {"list"}, ui.applied)
           => calls[i].arg = ui.applied
      /\ ~parted' /\ LastAsks(calls, {"list"}, ui.applied) => LastAsks(cs, {"list"}, ui.applied)
  BY <1>2, Ends, MaxCallsNat DEF Listed
<1>5. calls[i].ok => IsRows(calls[i].answer) /\ calls[i].answer.by = calls[i].arg
  BY <1>3, <1>4 DEF Listed, Sound, ReadsOpen
<1>6. IsRows(rows)
  BY <1>5
<1>7. ~parted' /\ view = "ready" => Has(cs, {"list"}) \/ rows.by = ui.applied
  <2> SUFFICES ASSUME ~parted', calls[i].ok, ~Has(cs, {"list"})
               PROVE  calls[i].arg = ui.applied
    BY <1>5
  <2>1. CASE calls[i].op = "list"
    BY <1>2, <1>4, <2>1 DEF Listed
  <2>2. CASE calls[i].op = "load"
    <3>1. ~Has(calls, {"list"}) /\ Has(calls, {"load"})
      BY <1>4, <2>2 DEF Has
    <3>2. calls[i].arg = Everything
      BY <1>4, <2>2 DEF Listed
    <3> QED
      BY <1>2, <3>1, <3>2 DEF Listed
  <2> QED
    BY <1>3, <2>1, <2>2
<1> HIDE DEF cs, view, rows
\* Between the removal and the render, the effect's call stands for itself.
<1>8. Calls(cs) /\ Single(cs, {"load"})
  BY <1>4
<1>9. view # "loading"
  BY DEF view
<1> DEFINE d == SetView(cs, view)
<1>10. d = Cancel(cs, "load")
  <2>1. CASE ui.view = view
    <3>1. ~Has(calls, {"load"})
      BY <1>9, <2>1 DEF Listed
    <3>2. ~Has(cs, {"load"})
      BY <1>4, <3>1 DEF Has
    <3>3. ~\E j \in DOMAIN cs : cs[j].op = "load"
      BY <3>2 DEF Has, ToSet
    <3> QED
      BY <1>8, <2>1, <3>3, CancelRemoves DEF SetView
  <2> QED
    BY <1>9, <2>1 DEF SetView
<1>11. /\ Calls(d) /\ Len(d) \in Nat
       /\ Len(d) = IF Has(cs, {"load"}) THEN Len(cs) - 1 ELSE Len(cs)
       /\ ToSet(d) = {c \in ToSet(cs) : c.op # "load"} /\ ~Has(d, {"load"})
       /\ Single(d, {"load"})
       /\ LastAsks(cs, {"list"}, ui.applied) => LastAsks(d, {"list"}, ui.applied)
  <2> HIDE DEF d
  <2> QED
    BY <1>8, <1>10, Cancels
<1> HIDE DEF d
<1>12. (Has(d, {"list"}) <=> Has(cs, {"list"})) /\ (Has(d, {"list", "load"}) <=> Has(cs, {"list"}))
  BY <1>11 DEF Has
<1>13. Len(d) <= MaxCalls
  BY <1>4, <1>11 DEF Listed
<1>14. \A c \in ToSet(d) : Sound(c) /\ (c.op = "load" => c.arg = Everything)
  BY <1>4, <1>11 DEF Listed
<1>15. Listed(d, view, rows.by, ui.applied, parted')
  BY <1>2, <1>4, <1>7, <1>9, <1>11, <1>12, <1>13, <1>14 DEF Listed
<1> QED
  BY <1>1, <1>6, <1>15 DEF d

-----------------------------------------------------------------------------
(* What the steps of every page leave alone. *)

LEMMA Frames ==
  ASSUME Frame
  PROVE  /\ Edit => Frame' /\ UNCHANGED <<page, db, parted>> /\ (~marred' => ~marred /\ calls = <<>>)
         /\ Look \/ Close => Frame' /\ UNCHANGED <<page, db, parted, marred>>
         /\ Continue /\ parted' \in BOOLEAN => Frame' /\ UNCHANGED <<page, db, marred>>
         /\ Click /\ {parted', marred'} \subseteq BOOLEAN => Frame' /\ UNCHANGED <<page, db>>
<1>1. clicks \in Nat => clicks + 1 \in Nat
  OBVIOUS
<1>2. Edit => Frame' /\ UNCHANGED <<page, db, parted>> /\ (~marred' => ~marred /\ calls = <<>>)
  BY <1>1 DEF Frame, Edit, Click
<1>3. Look => Frame' /\ UNCHANGED <<page, db, parted, marred>>
  BY <1>1 DEF Frame, Look, Click
<1>4. Close => Frame' /\ UNCHANGED <<page, db, parted, marred>>
  BY DEF Frame, Close
<1>5. Continue /\ parted' \in BOOLEAN => Frame' /\ UNCHANGED <<page, db, marred>>
  BY DEF Frame, Continue
<1>6. Click /\ {parted', marred'} \subseteq BOOLEAN => Frame' /\ UNCHANGED <<page, db>>
  BY <1>1 DEF Frame, Click
<1> QED
  BY <1>2, <1>3, <1>4, <1>5, <1>6

LEMMA Loses ==
  ASSUME Frame, Calls(calls), NEW i \in DOMAIN calls, Lose(i)
  PROVE  /\ Frame' /\ UNCHANGED <<page, ui, db, parted>>
         /\ calls' = Answering(calls, i, FALSE, NULL)
         /\ ~marred' => ~marred /\ calls[i].pc = "sent" /\ calls[i].op # "list"
<1>1. faults \in Nat => faults + 1 \in Nat
  OBVIOUS
<1>2. Frame' /\ UNCHANGED <<page, ui, db, parted>>
  BY <1>1 DEF Frame, Lose
<1>3. calls' = Answering(calls, i, FALSE, NULL)
  BY DEF Lose, Answering
<1>4. ASSUME ~marred'
      PROVE  ~marred /\ calls[i].pc # "answered" /\ calls[i].op # "list"
  BY <1>4 DEF Frame, Lose
<1>5. calls[i].pc \in {"sent", "answered"}
  BY DEF Calls, Whole, ToSet
<1> QED
  BY <1>2, <1>3, <1>4, <1>5

LEMMA IsAnswered ==
  ASSUME Frame, NEW i, NEW ok, NEW answer, NEW after, Answered(i, ok, answer, after)
  PROVE  /\ Frame' /\ UNCHANGED <<page, ui, parted, marred>>
         /\ calls' = Answering(calls, i, ok, answer) /\ db' = after
         /\ calls[i].pc = "sent"
BY DEF Frame, Answered, Answering

LEMMA Changes ==
  ASSUME Frame, NEW after, Change(after)
  PROVE  /\ Frame' /\ UNCHANGED <<page, ui, calls, parted>> /\ marred' /\ db' = after
<1>1. changes \in Nat => changes + 1 \in Nat
  OBVIOUS
<1> QED
  BY <1>1 DEF Frame, Change

LEMMA Refetches ==
  ASSUME Frame, Listed(calls, ui.view, ui.rows.by, ui.applied, parted), NEW f, Refetch(f)
  PROVE  /\ Frame' /\ UNCHANGED <<page, db, parted, marred>>
         /\ calls' = SetView(Append(calls, Request("list", f)), "loading")
         /\ \A shown : Listed(calls', "loading", shown, f, parted')
<1>1. Frame' /\ UNCHANGED <<page, db, parted, marred>>
  BY Frames DEF Refetch, Frame
<1>2. Len(calls) \in Nat /\ Len(calls) + 2 <= MaxCalls
  BY DEF Refetch, Room, Listed, Calls
<1>3. Len(calls) + 1 <= MaxCalls + (IF ui.view = "loading" THEN 1 ELSE 0)
  BY <1>2, MaxCallsNat
<1>4. calls' = SetView(Append(calls, Request("list", f)), "loading")
  BY DEF Refetch
<1> QED
  BY <1>1, <1>3, <1>4, ListedRefetch

LEMMA RowsReceived ==
  ASSUME Frame, IsRows(ui.rows), Listed(calls, ui.view, ui.rows.by, ui.applied, parted),
         {"view", "rows", "applied"} \subseteq DOMAIN ui,
         NEW i \in DOMAIN calls, ReceiveRows(i)
  PROVE  /\ Frame' /\ UNCHANGED <<page, db>> /\ IsRows(ui'.rows)
         /\ Listed(calls', ui'.view, ui'.rows.by, ui'.applied, parted')
         /\ DOMAIN ui' = DOMAIN ui /\ \A field \in DOMAIN ui \ {"view", "rows"} : ui'[field] = ui[field]
<1>1. Frame' /\ UNCHANGED <<page, db>>
  BY DEF Frame, ReceiveRows
<1>2. DOMAIN ui' = DOMAIN ui /\ \A field \in DOMAIN ui \ {"view", "rows"} : ui'[field] = ui[field]
  BY DEF ReceiveRows
<1>3. ui'.applied = ui.applied
  BY <1>2
<1> QED
  BY <1>1, <1>2, <1>3, ListedReceives DEF Frame

\* retry's timer shows the table; retry asks for every row again.
LEMMA TimerShows ==
  ASSUME Frame, Listed(calls, ui.view, ui.rows.by, ui.applied, parted),
         calls' = SetView(calls, "ready"), parted' = Parts(ui.rows)
  PROVE  parted' \in BOOLEAN /\ Listed(calls', "ready", ui.rows.by, ui.applied, parted')
<1>1. parted' \in BOOLEAN /\ (~parted' => ~parted /\ ui.rows.by = ui.applied)
  BY DEF Parts, Frame
<1> QED
  BY <1>1, ListedShown

LEMMA RetryLoads ==
  ASSUME Frame, Listed(calls, ui.view, ui.rows.by, ui.applied, parted), ui.view = "error",
         calls' = SetView(calls, "loading"), parted' = Unfiltered
  PROVE  parted' \in BOOLEAN /\ Listed(calls', "loading", ui.rows.by, ui.applied, parted')
<1>1. parted' \in BOOLEAN /\ (~parted' => ~parted /\ ui.applied = Everything)
  BY DEF Unfiltered, Frame
<1>2. calls' = Append(Cancel(calls, "load"), Request("load", Everything))
  BY DEF SetView
<1> QED
  BY <1>1, <1>2, ListedLoads

-----------------------------------------------------------------------------
(* The sessions. *)

SessionsInv ==
  /\ page = "sessions" /\ Frame
  /\ DOMAIN ui = {"view", "rows", "applied", "timer", "kick"} /\ IsRows(ui.rows)
  /\ Listed(calls, ui.view, ui.rows.by, ui.applied, parted)

LEMMA SessionsClicks ==
  ASSUME SessionsInv, SessionsClick
  PROVE  SessionsInv'
<1>0. Calls(calls) /\ Len(calls) \in Nat
  BY DEF SessionsInv, Listed, Calls
<1>1. CASE ApplySessionFilters
  <2>1. PICK f \in Filters : ui' = [ui EXCEPT !.applied = f, !.view = "loading"] /\ Refetch(f)
    BY <1>1 DEF ApplySessionFilters
  <2> QED
    BY <2>1, Refetches DEF SessionsInv
<1>2. CASE ResetSessionFilters
  BY <1>2, Refetches DEF ResetSessionFilters, SessionsInv
<1>3. CASE RetrySessions
  <2>1. parted' \in BOOLEAN /\ Listed(calls', "loading", ui.rows.by, ui.applied, parted')
    BY <1>3, RetryLoads DEF RetrySessions, SessionsInv
  <2>2. Frame' /\ page' = page
    BY <1>3, <2>1, Frames DEF RetrySessions, SessionsInv, Frame
  <2> QED
    BY <1>3, <2>1, <2>2 DEF RetrySessions, SessionsInv
<1>4. CASE OpenKick \/ CancelKick
  BY <1>4, Frames DEF OpenKick, CancelKick, SessionsInv
<1>5. CASE ConfirmKick
  <2>1. Frame' /\ page' = page /\ parted' = parted
    BY <1>5, Frames DEF ConfirmKick, SessionsInv
  <2>2. Listed(calls', ui.view, ui.rows.by, ui.applied, parted)
    BY <1>5, ListedSends, WholeRequest DEF ConfirmKick, DisconnectSessions, Room, SessionsInv
  <2> QED
    BY <1>5, <2>1, <2>2 DEF ConfirmKick, SessionsInv
<1> QED
  BY <1>1, <1>2, <1>3, <1>4, <1>5 DEF SessionsClick

LEMMA SessionsAnswers ==
  ASSUME SessionsInv, NEW i \in DOMAIN calls, ServeSessions(i) \/ Lose(i)
  PROVE  SessionsInv'
<1>1. \E ok \in BOOLEAN : \E answer :
        /\ Frame' /\ UNCHANGED <<page, ui, parted>> /\ calls' = Answering(calls, i, ok, answer)
        /\ calls[i].op \in ReadsOpen /\ ok => answer = FetchSessions(calls[i].arg)
  <2>1. CASE Lose(i)
    BY <2>1, Loses DEF SessionsInv, Listed
  <2>2. CASE calls[i].op # "kick" /\ Answered(i, TRUE, FetchSessions(calls[i].arg), db)
    BY <2>2, IsAnswered DEF SessionsInv
  <2>3. CASE calls[i].op = "kick" /\ \E gone \in SUBSET calls[i].arg :
               Answered(i, TRUE, NULL, [sessions |-> Restrict(db.sessions, DOMAIN db.sessions \ gone)])
    BY <2>3, IsAnswered DEF SessionsInv, ReadsOpen
  <2>4. CASE calls[i].op = "kick" /\ Refuse(i)
    BY <2>4, IsAnswered DEF SessionsInv, ReadsOpen, Refuse
  <2> QED
    BY <2>1, <2>2, <2>3, <2>4 DEF ServeSessions
<1>2. \A f : IsRows(FetchSessions(f)) /\ FetchSessions(f).by = f
  BY DEF FetchSessions, Listing, IsRows
<1> QED
  BY <1>1, <1>2, ListedAnswers DEF SessionsInv

LEMMA SessionsReceives ==
  ASSUME SessionsInv, NEW i \in DOMAIN calls, SessionsReceive(i)
  PROVE  SessionsInv'
<1>1. CASE ReceiveRows(i)
  BY <1>1, RowsReceived DEF SessionsInv
<1>2. CASE ReceiveTick(i)
  <2>1. Sound(calls[i]) /\ calls[i].ok \in BOOLEAN
    BY DEF SessionsInv, Listed, Calls, Whole, ToSet
  <2>2. Listed(calls', ui.view, ui.rows.by, ui.applied, parted)
    BY <1>2, ListedEnds DEF ReceiveTick, SessionsInv
  <2>3. CASE calls[i].ok
    <3>1. parted' \in BOOLEAN /\ (~parted' => ~parted /\ ui'.rows.by = ui.applied)
      BY <1>2, <2>3 DEF ReceiveTick, Parts, SessionsInv, Frame
    <3>2. Listed(calls', ui.view, ui'.rows.by, ui.applied, parted')
      BY <2>2, <3>1 DEF Listed
    <3>3. IsRows(ui'.rows) /\ DOMAIN ui' = DOMAIN ui /\ ui'.view = ui.view /\ ui'.applied = ui.applied
      BY <1>2, <2>1, <2>3 DEF ReceiveTick, SessionsInv, Sound, ReadsOpen
    <3> QED
      BY <1>2, <3>1, <3>2, <3>3, Frames DEF ReceiveTick, SessionsInv
  <2>4. CASE ~calls[i].ok
    BY <1>2, <2>2, <2>4, Frames DEF ReceiveTick, SessionsInv, Frame
  <2> QED
    BY <2>3, <2>4
<1>3. CASE ReceiveKick(i)
  <2>1. Listed(calls', ui.view, ui.rows.by, ui.applied, parted)
    BY <1>3, ListedEnds DEF ReceiveKick, SessionsInv
  <2>2. IsRows(ui'.rows) /\ ui'.rows.by = ui.rows.by
    BY <1>3 DEF ReceiveKick, SessionsInv, IsRows
  <2>3. DOMAIN ui' = DOMAIN ui /\ ui'.view = ui.view /\ ui'.applied = ui.applied
    BY <1>3 DEF ReceiveKick, SessionsInv
  <2> QED
    BY <1>3, <2>1, <2>2, <2>3, Frames DEF ReceiveKick, SessionsInv, Frame
<1> QED
  BY <1>1, <1>2, <1>3 DEF SessionsReceive

LEMMA SessionsSteps ==
  ASSUME SessionsInv, [Next]_vars
  PROVE  SessionsInv'
<1>1. CASE SessionsTick
  <2>1. Listed(calls', ui.view, ui.rows.by, ui.applied, parted)
    BY <1>1, ListedSends, WholeRequest DEF SessionsTick, Room, SessionsInv
  <2> QED
    BY <1>1, <2>1, Frames DEF SessionsTick, SessionsInv, Frame
<1>2. CASE RetryFires
  <2>1. parted' \in BOOLEAN /\ Listed(calls', "ready", ui.rows.by, ui.applied, parted')
    BY <1>2, TimerShows DEF RetryFires, SessionsInv
  <2> QED
    BY <1>2, <2>1, Frames DEF RetryFires, SessionsInv
<1>3. CASE SessionsElsewhere
  BY <1>3, Changes DEF SessionsElsewhere, SessionsInv
<1>4. CASE UNCHANGED vars
  BY <1>4 DEF vars, SessionsInv, Frame
<1>5. page = "sessions"
  BY DEF SessionsInv
<1> QED
  BY <1>1, <1>2, <1>3, <1>4, <1>5, SessionsClicks, SessionsAnswers, SessionsReceives
     DEF Next, User, Serve, Receive, Timer, Elsewhere

-----------------------------------------------------------------------------
(* The authentication logs. *)

AuthLogsInv ==
  /\ page = "authlogs" /\ Frame
  /\ DOMAIN ui = {"view", "rows", "applied", "timer"} /\ IsRows(ui.rows)
  /\ Listed(calls, ui.view, ui.rows.by, ui.applied, parted)

LEMMA LogsServed ==
  ASSUME Frame, Calls(calls), NEW i \in DOMAIN calls, ServeLogs(i) \/ Lose(i)
  PROVE  \E ok \in BOOLEAN : \E answer :
           /\ Frame' /\ UNCHANGED <<page, ui, parted>> /\ calls' = Answering(calls, i, ok, answer)
           /\ ok => IsRows(answer) /\ answer.by = calls[i].arg
<1>1. CASE Lose(i)
  BY <1>1, Loses
<1>2. CASE ServeLogs(i)
  <2>1. \A f : IsRows(Listing(f, db.logs)) /\ Listing(f, db.logs).by = f
    BY DEF Listing, IsRows
  <2> QED
    BY <1>2, <2>1, IsAnswered DEF ServeLogs
<1> QED
  BY <1>1, <1>2

LEMMA AuthLogsSteps ==
  ASSUME AuthLogsInv, [Next]_vars
  PROVE  AuthLogsInv'
<1>0. Calls(calls)
  BY DEF AuthLogsInv, Listed
<1>1. CASE ApplyLogFilters
  <2>1. PICK f \in Filters : ui' = [ui EXCEPT !.applied = f, !.view = "loading"] /\ Refetch(f)
    BY <1>1 DEF ApplyLogFilters
  <2> QED
    BY <2>1, Refetches DEF AuthLogsInv
<1>2. CASE ResetLogFilters
  BY <1>2, Refetches DEF ResetLogFilters, AuthLogsInv
<1>3. CASE RetryLogs
  <2>1. parted' \in BOOLEAN /\ Listed(calls', "loading", ui.rows.by, ui.applied, parted')
    BY <1>3, RetryLoads DEF RetryLogs, AuthLogsInv
  <2>2. Frame' /\ page' = page
    BY <1>3, <2>1, Frames DEF RetryLogs, AuthLogsInv, Frame
  <2> QED
    BY <1>3, <2>1, <2>2 DEF RetryLogs, AuthLogsInv
<1>4. ASSUME NEW i \in DOMAIN calls, ServeLogs(i) \/ Lose(i)
      PROVE  AuthLogsInv'
  <2>1. PICK ok, answer :
          /\ ok \in BOOLEAN
          /\ Frame' /\ UNCHANGED <<page, ui, parted>> /\ calls' = Answering(calls, i, ok, answer)
          /\ ok => IsRows(answer) /\ answer.by = calls[i].arg
    BY <1>0, <1>4, LogsServed DEF AuthLogsInv
  <2> QED
    BY <2>1, ListedAnswers DEF AuthLogsInv
<1>5. ASSUME NEW i \in DOMAIN calls, ReceiveRows(i)
      PROVE  AuthLogsInv'
  BY <1>5, RowsReceived DEF AuthLogsInv
<1>6. CASE LogRetryFires
  <2>1. parted' \in BOOLEAN /\ Listed(calls', "ready", ui.rows.by, ui.applied, parted')
    BY <1>6, TimerShows DEF LogRetryFires, AuthLogsInv
  <2> QED
    BY <1>6, <2>1, Frames DEF LogRetryFires, AuthLogsInv
<1>7. CASE UNCHANGED vars
  BY <1>7 DEF vars, AuthLogsInv, Frame
<1>8. page = "authlogs"
  BY DEF AuthLogsInv
<1> QED
  BY <1>1, <1>2, <1>3, <1>4, <1>5, <1>6, <1>7, <1>8
     DEF Next, User, Serve, Receive, Timer, Elsewhere, AuthLogsClick

-----------------------------------------------------------------------------
(* The pages that show their rows while others are read. *)

\* The last of these calls that is open, or else what is shown, is for what is applied.
Recent(cs, ops, view, by, applied, aside) ==
  /\ Calls(cs) /\ Len(cs) <= MaxCalls /\ \A c \in ToSet(cs) : Sound(c)
  /\ ~aside =>
       /\ LastAsks(cs, ops, applied)
       /\ ~Has(cs, ops) /\ view = "ready" => by = applied

\* A call of these asks for what is applied from now on.
LEMMA RecentAsks ==
  ASSUME NEW cs, Calls(cs), \A c \in ToSet(cs) : Sound(c), Len(cs) + 1 <= MaxCalls,
         NEW r, Whole(r), ~r.ok, NEW ops, r.op \in ops,
         NEW view, NEW by, NEW applied, NEW aside, ~aside => r.arg = applied
  PROVE  Recent(Append(cs, r), ops, view, by, applied, aside)
<1> DEFINE d == Append(cs, r)
<1>1. /\ Calls(d) /\ Len(d) = Len(cs) + 1 /\ ToSet(d) = ToSet(cs) \cup {r}
      /\ ~aside => LastAsks(d, ops, applied)
  BY Sends
<1> HIDE DEF d
<1>2. Has(d, ops)
  BY <1>1 DEF Has
<1>3. \A c \in ToSet(d) : Sound(c)
  BY <1>1 DEF Sound
<1> QED
  BY <1>1, <1>2, <1>3 DEF Recent, d

LEMMA RecentSends ==
  ASSUME NEW cs, NEW ops, NEW view, NEW by, NEW applied, NEW aside,
         Recent(cs, ops, view, by, applied, aside), Len(cs) + 1 <= MaxCalls,
         NEW r, Whole(r), ~r.ok, r.op \notin ops
  PROVE  Recent(Append(cs, r), ops, view, by, applied, aside)
<1> DEFINE d == Append(cs, r)
<1>1. /\ Calls(d) /\ Len(d) = Len(cs) + 1 /\ ToSet(d) = ToSet(cs) \cup {r}
      /\ LastAsks(cs, ops, applied) => LastAsks(d, ops, applied)
  BY Sends DEF Recent
<1> HIDE DEF d
<1>2. Has(d, ops) <=> Has(cs, ops)
  BY <1>1 DEF Has
<1>3. \A c \in ToSet(d) : Sound(c)
  BY <1>1 DEF Sound, Recent
<1> QED
  BY <1>1, <1>2, <1>3 DEF Recent, d

\* A call ends: another, or one of these that no older one is still open beside.
LEMMA RecentEnds ==
  ASSUME NEW cs, NEW ops, NEW view, NEW by, NEW applied, NEW aside,
         Recent(cs, ops, view, by, applied, aside), NEW i \in DOMAIN cs,
         NEW now, NEW shown, NEW apart, ~apart => ~aside,
         IF cs[i].op \in ops
         THEN ~apart => ~Before(cs, i, ops) /\ (now = "ready" => shown \in {cs[i].arg, applied})
         ELSE ~apart /\ now = "ready" => (shown = by /\ view = "ready") \/ shown = applied
  PROVE  Recent(RemoveAt(cs, i), ops, now, shown, applied, apart)
<1> DEFINE d == RemoveAt(cs, i)
<1>1. /\ Calls(d) /\ Len(d) = Len(cs) - 1 /\ Len(cs) \in Nat
      /\ ToSet(d) \subseteq ToSet(cs) /\ ToSet(cs) \subseteq ToSet(d) \cup {cs[i]}
      /\ cs[i] \in ToSet(cs)
      /\ LastAsks(cs, ops, applied) /\ cs[i].op \in ops /\ ~Has(d, ops) => cs[i].arg = applied
      /\ LastAsks(cs, ops, applied) /\ (cs[i].op \in ops => ~Before(cs, i, ops))
           => LastAsks(d, ops, applied)
  BY Ends DEF Recent
<1> HIDE DEF d
<1>2. cs[i].op \notin ops => (Has(d, ops) <=> Has(cs, ops))
  BY <1>1 DEF Has
<1>3. Len(d) <= MaxCalls
  BY <1>1, MaxCallsNat DEF Recent
<1>4. \A c \in ToSet(d) : Sound(c)
  BY <1>1 DEF Recent
<1>5. CASE cs[i].op \in ops
  BY <1>1, <1>3, <1>4, <1>5 DEF Recent, d
<1>6. CASE cs[i].op \notin ops
  BY <1>1, <1>2, <1>3, <1>4, <1>6 DEF Recent, d
<1> QED
  BY <1>5, <1>6

LEMMA RecentAnswers ==
  ASSUME NEW cs, NEW ops, NEW view, NEW by, NEW applied, NEW aside,
         Recent(cs, ops, view, by, applied, aside),
         NEW i \in DOMAIN cs, NEW ok \in BOOLEAN, NEW answer,
         cs[i].op \in ReadsOpen /\ ok => IsRows(answer) /\ answer.by = cs[i].arg
  PROVE  Recent(Answering(cs, i, ok, answer), ops, view, by, applied, aside)
<1> DEFINE d == Answering(cs, i, ok, answer)
<1>0. Calls(cs)
  BY DEF Recent
<1>1. /\ Calls(d) /\ Len(d) = Len(cs)
      /\ d[i].op = cs[i].op /\ d[i].arg = cs[i].arg /\ d[i].ok = ok /\ d[i].answer = answer
      /\ ToSet(d) \subseteq ToSet(cs) \cup {d[i]}
      /\ Has(d, ops) <=> Has(cs, ops)
      /\ LastAsks(cs, ops, applied) => LastAsks(d, ops, applied)
  BY <1>0, Answers
<1> HIDE DEF d
<1>2. \A c \in ToSet(d) : Sound(c)
  BY <1>1 DEF Recent, Sound
<1> QED
  BY <1>1, <1>2 DEF Recent, d

-----------------------------------------------------------------------------
(* The audit log. *)

AuditInv ==
  /\ page = "audit" /\ Frame
  /\ DOMAIN ui = {"view", "rows", "applied"} /\ IsRows(ui.rows)
  /\ Recent(calls, {"list"}, ui.view, ui.rows.by, ui.applied, parted)
  /\ \A c \in ToSet(calls) : c.op = "list"

LEMMA AuditSteps ==
  ASSUME AuditInv, [Next]_vars
  PROVE  AuditInv'
<1>0. Calls(calls)
  BY DEF AuditInv, Recent
<1>1. ASSUME NEW f, Room(1), Look, calls' = Append(calls, LoadAudit(f)),
             ui'.applied = f, DOMAIN ui' = DOMAIN ui, ui'.rows = ui.rows
      PROVE  AuditInv'
  <2> DEFINE r == LoadAudit(f)
  <2>1. Whole(r) /\ r.op = "list" /\ r.arg = f /\ ~r.ok
    BY WholeRequest DEF LoadAudit
  <2>2. ToSet(calls') = ToSet(calls) \cup {r}
    BY <1>0, <1>1, <2>1, Sends
  <2> HIDE DEF r
  <2>3. r.op \in {"list"} /\ \A c \in ToSet(calls) : Sound(c)
    BY <2>1 DEF AuditInv, Recent
  <2>4. \A v, by : Recent(calls', {"list"}, v, by, f, parted)
    BY <1>0, <1>1, <2>1, <2>3, RecentAsks DEF r, Room
  <2>5. Frame' /\ UNCHANGED <<page, parted>>
    BY <1>1, Frames DEF AuditInv
  <2>7. Recent(calls', {"list"}, ui'.view, ui'.rows.by, ui'.applied, parted')
    BY <1>1, <2>4, <2>5
  <2>8. \A c \in ToSet(calls') : c.op = "list"
    BY <2>1, <2>2 DEF AuditInv
  <2> QED
    BY <1>1, <2>5, <2>7, <2>8 DEF AuditInv
<1>2. CASE ChooseAction
  <2>1. PICK f \in Filters : ui' = [ui EXCEPT !.applied = f] /\ calls' = Append(calls, LoadAudit(f))
    BY <1>2 DEF ChooseAction
  <2>2. ui'.applied = f /\ DOMAIN ui' = DOMAIN ui /\ ui'.rows = ui.rows
    BY <2>1 DEF AuditInv
  <2> QED
    BY <1>1, <1>2, <2>1, <2>2 DEF ChooseAction
<1>3. CASE RetryAudit
  <2>1. ui'.applied = ui.applied /\ DOMAIN ui' = DOMAIN ui /\ ui'.rows = ui.rows
    BY <1>3 DEF RetryAudit, AuditInv
  <2> QED
    BY <1>1, <1>3, <2>1 DEF RetryAudit
<1>4. ASSUME NEW i \in DOMAIN calls, ServeLogs(i) \/ Lose(i)
      PROVE  AuditInv'
  <2>1. PICK ok, answer :
          /\ ok \in BOOLEAN
          /\ Frame' /\ UNCHANGED <<page, ui, parted>> /\ calls' = Answering(calls, i, ok, answer)
          /\ ok => IsRows(answer) /\ answer.by = calls[i].arg
    BY <1>0, <1>4, LogsServed DEF AuditInv
  <2>2. Recent(calls', {"list"}, ui.view, ui.rows.by, ui.applied, parted)
    BY <2>1, RecentAnswers DEF AuditInv
  <2>3. calls'[i].op = calls[i].op /\ calls[i] \in ToSet(calls)
        /\ ToSet(calls') \subseteq ToSet(calls) \cup {calls'[i]}
    BY <1>0, <2>1, Answers
  <2> QED
    BY <2>1, <2>2, <2>3 DEF AuditInv
<1>5. ASSUME NEW i \in DOMAIN calls, ReceiveAudit(i)
      PROVE  AuditInv'
  <2>1. ToSet(calls') \subseteq ToSet(calls) /\ calls[i] \in ToSet(calls)
    BY <1>0, <1>5, Ends DEF ReceiveAudit
  <2>2. calls[i].op = "list" /\ Sound(calls[i]) /\ calls[i].ok \in BOOLEAN
    BY <1>0, <2>1 DEF AuditInv, Recent, Calls, Whole
  <2>3. parted' \in BOOLEAN /\ (~parted' => ~parted /\ ~Before(calls, i, {"list"}))
    BY <1>5 DEF ReceiveAudit, Late, Before, AuditInv, Frame
  <2>4. DOMAIN ui' = DOMAIN ui /\ ui'.applied = ui.applied /\ IsRows(ui'.rows)
        /\ (ui'.view = "ready" => ui'.rows.by = calls[i].arg)
    <3>1. CASE calls[i].ok
      <4>1. ui' = [ui EXCEPT !.rows = calls[i].answer, !.view = "ready"]
        BY <1>5, <3>1 DEF ReceiveAudit
      <4>2. IsRows(calls[i].answer) /\ calls[i].answer.by = calls[i].arg
        BY <2>2, <3>1 DEF Sound, ReadsOpen
      <4> QED
        BY <4>1, <4>2 DEF AuditInv
    <3>2. CASE ~calls[i].ok
      BY <1>5, <3>2 DEF ReceiveAudit, AuditInv
    <3> QED
      BY <3>1, <3>2
  <2>5. Recent(calls', {"list"}, ui'.view, ui'.rows.by, ui.applied, parted')
    BY <1>5, <2>2, <2>3, <2>4, RecentEnds DEF ReceiveAudit, AuditInv
  <2>6. Frame' /\ page' = page
    BY <1>5, <2>3, Frames DEF ReceiveAudit, AuditInv
  <2> QED
    BY <2>1, <2>4, <2>5, <2>6 DEF AuditInv
<1>6. CASE UNCHANGED vars
  BY <1>6 DEF vars, AuditInv, Frame
<1>7. page = "audit"
  BY DEF AuditInv
<1> QED
  BY <1>2, <1>3, <1>4, <1>5, <1>6, <1>7
     DEF Next, User, Serve, Receive, Timer, Elsewhere, AuditClick

-----------------------------------------------------------------------------
(* The dashboard and the reports. *)

Periods ==
  /\ Frame /\ {"view", "rows", "applied"} \subseteq DOMAIN ui /\ IsRows(ui.rows)
  /\ Recent(calls, {"load"}, ui.view, ui.rows.by, ui.applied, parted)
  /\ Single(calls, {"load"})
  /\ ui.view = "ready"

LEMMA PeriodChosen ==
  ASSUME Periods, ChoosePeriod
  PROVE  /\ Periods' /\ UNCHANGED <<page, db, parted, marred>>
         /\ \E p : /\ ToSet(calls') = {c \in ToSet(calls) : c.op # "load"} \cup {Request("load", p)}
                   /\ ui' = [ui EXCEPT !.applied = p]
<1>1. PICK p : ui' = [ui EXCEPT !.applied = p] /\ calls' = LoadPeriod(calls, p)
  BY DEF ChoosePeriod
<1> DEFINE r == Request("load", p)
           left == Cancel(calls, "load")
<1>2. Whole(r) /\ r.op = "load" /\ r.arg = p /\ ~r.ok
  BY WholeRequest
<1>3. Calls(calls) /\ Single(calls, {"load"}) /\ \A c \in ToSet(calls) : Sound(c)
  BY DEF Periods, Recent
<1>4. /\ Calls(left) /\ Len(left) \in Nat /\ Len(calls) \in Nat /\ Len(left) <= Len(calls)
      /\ ToSet(left) = {c \in ToSet(calls) : c.op # "load"} /\ ~Has(left, {"load"})
      /\ Single(left, {"load"})
  <2>1. /\ Calls(left) /\ Len(left) \in Nat /\ Len(calls) \in Nat
        /\ Len(left) = IF Has(calls, {"load"}) THEN Len(calls) - 1 ELSE Len(calls)
        /\ ToSet(left) = {c \in ToSet(calls) : c.op # "load"} /\ ~Has(left, {"load"})
        /\ Single(left, {"load"})
    BY <1>3, Cancels
  <2> HIDE DEF left
  <2> QED
    BY <2>1
<1>5. Len(calls) + 1 <= MaxCalls
  BY DEF ChoosePeriod, Room
<1>6. Len(left) + 1 <= MaxCalls
  BY <1>4, <1>5, MaxCallsNat
<1> HIDE DEF r, left
<1>7. calls' = Append(left, r)
  BY <1>1 DEF LoadPeriod, r, left
<1>8. ToSet(calls') = ToSet(left) \cup {r} /\ Single(calls', {"load"})
  <2>1. /\ ToSet(Append(left, r)) = ToSet(left) \cup {r}
        /\ Single(Append(left, r), {"load"})
    BY <1>2, <1>4, Sends
  <2> QED
    BY <1>7, <2>1
<1>9. ui'.applied = p /\ DOMAIN ui' = DOMAIN ui /\ ui'.rows = ui.rows /\ ui'.view = ui.view
  BY <1>1 DEF Periods
<1>10. Frame' /\ UNCHANGED <<page, db, parted, marred>>
  BY Frames DEF ChoosePeriod, Periods
<1>11. Recent(calls', {"load"}, ui'.view, ui'.rows.by, ui'.applied, parted')
  <2>1. r.op \in {"load"} /\ (~parted' => r.arg = ui'.applied)
    BY <1>2, <1>9
  <2>2. \A c \in ToSet(left) : Sound(c)
    BY <1>3, <1>4
  <2> QED
    BY <1>2, <1>4, <1>6, <1>7, <2>1, <2>2, RecentAsks
<1>12. Periods'
  BY <1>8, <1>9, <1>10, <1>11 DEF Periods
<1> QED
  BY <1>1, <1>4, <1>8, <1>10, <1>12 DEF r

\* A call for something else is sent.
LEMMA PeriodsSend ==
  ASSUME Periods, Room(1), NEW r, Whole(r), ~r.ok, r.op # "load", calls' = Append(calls, r),
         Frame', DOMAIN ui' = DOMAIN ui, UNCHANGED <<ui.view, ui.rows, ui.applied, parted>>
  PROVE  Periods' /\ ToSet(calls') = ToSet(calls) \cup {r}
<1>1. Calls(calls) /\ Len(calls) + 1 <= MaxCalls
  BY DEF Periods, Recent, Room
<1>2. ToSet(calls') = ToSet(calls) \cup {r} /\ Single(calls', {"load"})
  <2>1. r.op \notin {"load"} /\ Single(calls, {"load"})
    BY DEF Periods
  <2>2. ToSet(Append(calls, r)) = ToSet(calls) \cup {r} /\ Single(Append(calls, r), {"load"})
    BY <1>1, <2>1, Sends
  <2> QED
    BY <2>2
<1>3. Recent(calls', {"load"}, ui'.view, ui'.rows.by, ui'.applied, parted')
  <2>1. Recent(Append(calls, r), {"load"}, ui.view, ui.rows.by, ui.applied, parted)
    BY <1>1, RecentSends DEF Periods
  <2> QED
    BY <2>1
<1> QED
  BY <1>2, <1>3 DEF Periods

LEMMA PeriodsAnswer ==
  ASSUME Periods, NEW i \in DOMAIN calls, NEW ok \in BOOLEAN, NEW answer,
         calls[i].op \in ReadsOpen /\ ok => IsRows(answer) /\ answer.by = calls[i].arg,
         calls' = Answering(calls, i, ok, answer), Frame', UNCHANGED <<ui, parted>>
  PROVE  Periods'
<1>1. Calls(calls)
  BY DEF Periods, Recent
<1>2. Single(Answering(calls, i, ok, answer), {"load"})
  BY <1>1, Answers DEF Periods
<1>3. Recent(Answering(calls, i, ok, answer), {"load"}, ui.view, ui.rows.by, ui.applied, parted)
  BY RecentAnswers DEF Periods
<1> QED
  BY <1>2, <1>3 DEF Periods

\* An answer: the rows it has are shown, or those that are shown stay.
LEMMA PeriodsEnd ==
  ASSUME Periods, NEW i \in DOMAIN calls, calls' = RemoveAt(calls, i),
         Frame', DOMAIN ui' = DOMAIN ui, IsRows(ui'.rows), UNCHANGED <<ui.view, ui.applied>>,
         ~parted' => ~parted /\ \/ ui'.rows.by = ui.applied
                                \/ ui'.rows.by = ui.rows.by /\ calls[i].op # "load"
                                \/ ui'.rows.by = calls[i].arg /\ calls[i].op = "load"
  PROVE  Periods'
<1>1. Calls(calls) /\ Single(calls, {"load"})
  BY DEF Periods, Recent
<1>2. Single(calls', {"load"})
  BY <1>1, Ends
<1>3. calls[i].op = "load" => ~Before(calls, i, {"load"})
  BY <1>1 DEF Single, Before, Calls
<1>4. Recent(calls', {"load"}, ui'.view, ui'.rows.by, ui.applied, parted')
  BY <1>3, RecentEnds DEF Periods
<1> QED
  BY <1>2, <1>4 DEF Periods

DashboardInv ==
  /\ page = "dashboard" /\ Periods
  /\ DOMAIN ui = {"view", "rows", "applied", "alerts", "readIds"}
  /\ db.read \subseteq ui.readIds /\ ui.alerts \subseteq db.read
  /\ \A c \in ToSet(calls) :
       /\ c.op \in {"load", "tick"} /\ c.ok => c.answer.of \subseteq db.read
       /\ c.op = "read" => c.arg \in ui.readIds /\ (c.ok => c.arg \in db.read)
  /\ ~marred =>
       \A x \in ui.readIds : x \in db.read \/ \E c \in ToSet(calls) : c.op = "read" /\ c.arg = x

ReportsInv ==
  /\ page = "reports" /\ Periods
  /\ DOMAIN ui = {"view", "rows", "applied", "exporting"}

LEMMA DashboardAnswers ==
  ASSUME DashboardInv, NEW i \in DOMAIN calls, ServeOverview(i) \/ Lose(i)
  PROVE  DashboardInv'
<1>0. Calls(calls) /\ Frame /\ Periods /\ calls[i] \in ToSet(calls)
  BY DEF DashboardInv, Periods, Recent, Calls, ToSet
<1>1. ASSUME NEW ok \in BOOLEAN, NEW answer, calls' = Answering(calls, i, ok, answer),
             Frame', UNCHANGED <<page, ui, parted>>, ~marred' => ~marred,
             calls[i].op \in ReadsOpen /\ ok =>
               IsRows(answer) /\ answer.by = calls[i].arg /\ answer.of \subseteq db.read,
             calls[i].op = "read" /\ ok => calls[i].arg \in db'.read,
             db.read \subseteq db'.read, db'.read \subseteq ui.readIds
      PROVE  DashboardInv'
  <2>1. /\ calls'[i].op = calls[i].op /\ calls'[i].arg = calls[i].arg
        /\ calls'[i].ok = ok /\ calls'[i].answer = answer
        /\ calls'[i] \in ToSet(calls') /\ ToSet(calls') \subseteq ToSet(calls) \cup {calls'[i]}
        /\ ToSet(calls) \subseteq ToSet(calls') \cup {calls[i]}
    BY <1>0, <1>1, Answers
  <2>2. Periods'
    BY <1>0, <1>1, PeriodsAnswer
  <2>3. ASSUME NEW c \in ToSet(calls')
        PROVE  /\ c.op \in {"load", "tick"} /\ c.ok => c.answer.of \subseteq db'.read
               /\ c.op = "read" => c.arg \in ui.readIds /\ (c.ok => c.arg \in db'.read)
    <3>1. CASE c \in ToSet(calls)
      BY <1>1, <3>1 DEF DashboardInv
    <3>2. CASE c = calls'[i]
      <4>1. c.op = calls[i].op /\ c.arg = calls[i].arg /\ c.ok = ok /\ c.answer = answer
        BY <2>1, <3>2
      <4> QED
        BY <1>0, <1>1, <4>1 DEF DashboardInv, ReadsOpen
    <3> QED
      BY <2>1, <3>1, <3>2
  <2>4. ASSUME ~marred', NEW x \in ui.readIds
        PROVE  x \in db'.read \/ \E c \in ToSet(calls') : c.op = "read" /\ c.arg = x
    <3>1. CASE x \in db.read
      BY <1>1, <3>1
    <3>2. ASSUME NEW c \in ToSet(calls), c.op = "read", c.arg = x
          PROVE  \E e \in ToSet(calls') : e.op = "read" /\ e.arg = x
      BY <2>1, <3>2
    <3> QED
      BY <1>1, <2>4, <3>1, <3>2 DEF DashboardInv
  <2> QED
    BY <1>1, <2>2, <2>3, <2>4 DEF DashboardInv
<1>2. db.read \subseteq ui.readIds
  BY DEF DashboardInv
<1>3. CASE Lose(i)
  BY <1>0, <1>1, <1>2, <1>3, Loses
<1>4. CASE calls[i].op \in {"load", "tick"} /\ Answered(i, TRUE, [by |-> calls[i].arg, of |-> db.read], db)
  <2> DEFINE a == [by |-> calls[i].arg, of |-> db.read]
  <2>1. IsRows(a) /\ a.by = calls[i].arg /\ a.of = db.read
    BY DEF IsRows
  <2>2. Answered(i, TRUE, a, db)
    BY <1>4
  <2> HIDE DEF a
  <2> QED
    <3>1. /\ Frame' /\ UNCHANGED <<page, ui, parted, marred>> /\ db' = db
          /\ calls' = Answering(calls, i, TRUE, a)
      BY <1>0, <2>2, IsAnswered
    <3>2. calls[i].op # "read"
      BY <1>4
    <3> QED
      BY <1>1, <1>2, <2>1, <3>1, <3>2
<1>5. CASE calls[i].op = "read" /\ Answered(i, TRUE, NULL, [read |-> db.read \cup {calls[i].arg}])
  <2> DEFINE after == [read |-> db.read \cup {calls[i].arg}]
  <2>1. Answered(i, TRUE, NULL, after)
    BY <1>5
  <2>2. after.read = db.read \cup {calls[i].arg} /\ calls[i].arg \in ui.readIds
    BY <1>0, <1>5 DEF DashboardInv
  <2> HIDE DEF after
  <2> QED
    <3>1. /\ Frame' /\ UNCHANGED <<page, ui, parted, marred>> /\ db' = after
          /\ calls' = Answering(calls, i, TRUE, NULL)
      BY <1>0, <2>1, IsAnswered
    <3>2. calls[i].op \notin ReadsOpen
      BY <1>5 DEF ReadsOpen
    <3> QED
      BY <1>1, <1>2, <2>2, <3>1, <3>2
<1>6. CASE calls[i].op = "export" /\ (Answered(i, TRUE, NULL, db) \/ Refuse(i))
  <2>1. \E ok \in BOOLEAN : /\ Frame' /\ UNCHANGED <<page, ui, parted, marred>> /\ db' = db
                            /\ calls' = Answering(calls, i, ok, NULL)
    BY <1>0, <1>6, IsAnswered DEF Refuse
  <2>2. calls[i].op \notin ReadsOpen /\ calls[i].op # "read"
    BY <1>6 DEF ReadsOpen
  <2> QED
    BY <1>1, <1>2, <2>1, <2>2
<1> QED
  BY <1>3, <1>4, <1>5, <1>6 DEF ServeOverview

LEMMA DashboardReceives ==
  ASSUME DashboardInv, NEW i \in DOMAIN calls, DashboardReceive(i)
  PROVE  DashboardInv'
<1>0. /\ Calls(calls) /\ Frame /\ Periods
      /\ calls[i] \in ToSet(calls) /\ Sound(calls[i]) /\ calls[i].ok \in BOOLEAN
  BY DEF DashboardInv, Periods, Recent, Calls, Whole, ToSet
<1>1. calls' = RemoveAt(calls, i)
  BY DEF DashboardReceive, ReceiveDashboard, ReceiveRead
<1>2. ToSet(calls') \subseteq ToSet(calls) /\ ToSet(calls) \subseteq ToSet(calls') \cup {calls[i]}
  BY <1>0, <1>1, Ends
<1>3. \A x : x \in db.read \/ (\E c \in ToSet(calls) : c.op = "read" /\ c.arg = x)
              => \/ x \in db.read
                 \/ calls[i].op = "read" /\ ~calls[i].ok
                 \/ \E c \in ToSet(calls') : c.op = "read" /\ c.arg = x
  <2>1. calls[i].op = "read" /\ calls[i].ok => calls[i].arg \in db.read
    BY <1>0 DEF DashboardInv
  <2>2. ASSUME NEW c \in ToSet(calls), c.op = "read"
        PROVE  \/ c \in ToSet(calls') \/ c.arg \in db.read
               \/ calls[i].op = "read" /\ ~calls[i].ok
    BY <1>2, <2>1, <2>2
  <2> QED
    BY <2>2
<1>4. CASE ReceiveDashboard(i) /\ calls[i].ok
  <2> DEFINE a == calls[i].answer
  <2>1. ui' = [ui EXCEPT !.rows = [by |-> a.by, of |-> <<>>], !.alerts = a.of] /\ parted' = Parts(a)
    BY <1>4 DEF ReceiveDashboard
  <2>2. IsRows(ui'.rows) /\ ui'.rows.by = a.by /\ ui'.alerts = a.of /\ DOMAIN ui' = DOMAIN ui
        /\ UNCHANGED <<ui.view, ui.applied, ui.readIds>>
    BY <2>1 DEF DashboardInv, IsRows
  <2>3. a.of \subseteq db.read
    BY <1>0, <1>4 DEF ReceiveDashboard, DashboardInv
  <2>4. parted' \in BOOLEAN /\ (~parted' => ~parted /\ a.by = ui.applied)
    BY <1>0, <2>1 DEF Parts, Frame
  <2>5. Frame' /\ UNCHANGED <<page, db, marred>>
    BY <1>0, <1>4, <2>4, Frames DEF ReceiveDashboard
  <2>6. Periods'
    BY <1>0, <1>1, <2>2, <2>4, <2>5, PeriodsEnd
  <2>7. calls[i].op # "read"
    BY <1>4 DEF ReceiveDashboard
  <2> HIDE DEF a
  <2> QED
    BY <1>2, <1>3, <2>2, <2>3, <2>5, <2>6, <2>7 DEF DashboardInv
<1>5. CASE ReceiveDashboard(i) /\ ~calls[i].ok
  <2>1. ui' = ui /\ parted' = Parts(ui.rows)
    BY <1>5 DEF ReceiveDashboard
  <2>2. parted' \in BOOLEAN /\ (~parted' => ~parted /\ ui.rows.by = ui.applied)
    BY <1>0, <2>1 DEF Parts, Frame
  <2>3. Frame' /\ UNCHANGED <<page, db, marred>>
    BY <1>0, <1>5, <2>2, Frames DEF ReceiveDashboard
  <2>4. IsRows(ui'.rows)
    BY <1>0, <2>1 DEF Periods
  <2>5. Periods'
    BY <1>0, <1>1, <2>1, <2>2, <2>3, <2>4, PeriodsEnd
  <2>6. calls[i].op # "read"
    BY <1>5 DEF ReceiveDashboard
  <2> QED
    BY <1>2, <1>3, <2>1, <2>3, <2>5, <2>6 DEF DashboardInv
<1>6. CASE ReceiveRead(i)
  <2>1. Frame' /\ UNCHANGED <<page, db, ui, parted>> /\ (~marred' => ~marred /\ calls[i].ok)
    BY <1>0, <1>6 DEF ReceiveRead, Frame
  <2>2. calls[i].op # "load" /\ IsRows(ui'.rows)
    BY <1>0, <1>6, <2>1 DEF ReceiveRead, Periods
  <2>3. Periods'
    BY <1>0, <1>1, <2>1, <2>2, PeriodsEnd
  <2> QED
    BY <1>2, <1>3, <2>1, <2>3 DEF DashboardInv
<1> QED
  BY <1>4, <1>5, <1>6 DEF DashboardReceive

LEMMA DashboardSteps ==
  ASSUME DashboardInv, [Next]_vars
  PROVE  DashboardInv'
<1>0. Calls(calls) /\ Frame /\ Periods
  BY DEF DashboardInv, Periods, Recent
<1>1. CASE ChoosePeriod
  <2>1. PICK p : /\ ToSet(calls') = {c \in ToSet(calls) : c.op # "load"} \cup {Request("load", p)}
                 /\ ui' = [ui EXCEPT !.applied = p]
    BY <1>0, <1>1, PeriodChosen
  <2>2. Periods' /\ UNCHANGED <<page, db, marred>>
    BY <1>0, <1>1, PeriodChosen
  <2>3. Request("load", p).op = "load" /\ ~Request("load", p).ok
    BY WholeRequest
  <2>4. DOMAIN ui' = DOMAIN ui /\ UNCHANGED <<ui.alerts, ui.readIds>>
    BY <2>1 DEF DashboardInv
  <2> QED
    BY <2>1, <2>2, <2>3, <2>4 DEF DashboardInv
<1>2. CASE MarkRead
  <2>1. PICK x \in Items : /\ ui' = [ui EXCEPT !.readIds = @ \cup {x}]
                           /\ calls' = Append(calls, Request("read", x))
    BY <1>2 DEF MarkRead
  <2> DEFINE r == Request("read", x)
  <2>2. Whole(r) /\ r.op = "read" /\ r.arg = x /\ ~r.ok
    BY WholeRequest
  <2> HIDE DEF r
  <2>3. Frame' /\ UNCHANGED <<page, db, parted, marred>>
    BY <1>0, <1>2, Frames DEF MarkRead, Frame
  <2>4. DOMAIN ui' = DOMAIN ui /\ ui'.readIds = ui.readIds \cup {x}
        /\ UNCHANGED <<ui.view, ui.rows, ui.applied, ui.alerts>>
    BY <2>1 DEF DashboardInv
  <2>5. Periods' /\ ToSet(calls') = ToSet(calls) \cup {r}
    BY <1>0, <1>2, <2>1, <2>2, <2>3, <2>4, PeriodsSend DEF MarkRead, r
  <2> QED
    BY <2>2, <2>3, <2>4, <2>5 DEF DashboardInv
<1>3. CASE DashboardTick
  <2> DEFINE r == Request("tick", ui.applied)
  <2>1. Whole(r) /\ r.op = "tick" /\ ~r.ok
    BY WholeRequest
  <2> HIDE DEF r
  <2>2. Frame' /\ UNCHANGED <<page, db, marred>> /\ UNCHANGED <<ui, parted>>
    BY <1>0, <1>3, Frames DEF DashboardTick, Frame
  <2>3. Periods' /\ ToSet(calls') = ToSet(calls) \cup {r}
    BY <1>0, <1>3, <2>1, <2>2, PeriodsSend DEF DashboardTick, r
  <2> QED
    BY <2>1, <2>2, <2>3 DEF DashboardInv
<1>4. CASE UNCHANGED vars
  BY <1>4 DEF vars, DashboardInv, Periods, Frame
<1>5. page = "dashboard"
  BY DEF DashboardInv
<1> QED
  BY <1>1, <1>2, <1>3, <1>4, <1>5, DashboardAnswers, DashboardReceives
     DEF Next, User, Serve, Receive, Timer, Elsewhere

LEMMA ReportsSteps ==
  ASSUME ReportsInv, [Next]_vars
  PROVE  ReportsInv'
<1>0. Calls(calls) /\ Frame /\ Periods /\ Len(calls) \in Nat
  BY DEF ReportsInv, Periods, Recent, Calls
<1>1. CASE ChoosePeriod
  <2>1. PICK p : ui' = [ui EXCEPT !.applied = p]
    BY <1>0, <1>1, PeriodChosen
  <2> QED
    BY <1>0, <1>1, <2>1, PeriodChosen DEF ReportsInv
<1>2. CASE ExportReport
  <2> DEFINE r == Request("export", ui.applied)
  <2>1. Whole(r) /\ r.op = "export" /\ ~r.ok
    BY WholeRequest
  <2> HIDE DEF r
  <2>2. Frame' /\ UNCHANGED <<page, parted>>
    BY <1>0, <1>2, Frames DEF ExportReport
  <2>3. DOMAIN ui' = DOMAIN ui /\ UNCHANGED <<ui.view, ui.rows, ui.applied>>
    BY <1>2 DEF ExportReport, ReportsInv
  <2>4. Periods'
    BY <1>0, <1>2, <2>1, <2>2, <2>3, PeriodsSend DEF ExportReport, r
  <2> QED
    BY <2>2, <2>3, <2>4 DEF ReportsInv
<1>3. ASSUME NEW i \in DOMAIN calls, ServeOverview(i) \/ Lose(i)
      PROVE  ReportsInv'
  <2> DEFINE a == [by |-> calls[i].arg, of |-> db.read]
  <2>1. IsRows(a) /\ a.by = calls[i].arg
    BY DEF IsRows
  <2>2. \/ Lose(i)
        \/ Answered(i, TRUE, a, db)
        \/ calls[i].op \in {"read", "export"} /\ \E ok \in BOOLEAN : \E after : Answered(i, ok, NULL, after)
    BY <1>3 DEF ServeOverview, Refuse
  <2> HIDE DEF a
  <2>3. \E ok \in BOOLEAN : \E answer :
          /\ Frame' /\ UNCHANGED <<page, ui, parted>> /\ calls' = Answering(calls, i, ok, answer)
          /\ calls[i].op \in ReadsOpen /\ ok => IsRows(answer) /\ answer.by = calls[i].arg
    <3>1. CASE Lose(i)
      BY <1>0, <3>1, Loses
    <3>2. CASE Answered(i, TRUE, a, db)
      BY <1>0, <2>1, <3>2, IsAnswered
    <3>3. CASE calls[i].op \in {"read", "export"}
               /\ \E ok \in BOOLEAN : \E after : Answered(i, ok, NULL, after)
      <4>1. calls[i].op \notin ReadsOpen
        BY <3>3 DEF ReadsOpen
      <4> QED
        BY <1>0, <3>3, <4>1, IsAnswered
    <3> QED
      BY <2>2, <3>1, <3>2, <3>3
  <2> QED
    BY <1>0, <2>3, PeriodsAnswer DEF ReportsInv
<1>4. ASSUME NEW i \in DOMAIN calls, ReceivePeriod(i)
      PROVE  ReportsInv'
  <2>1. calls[i].op = "load" /\ calls' = RemoveAt(calls, i)
    BY <1>4 DEF ReceivePeriod
  <2>2. Sound(calls[i]) /\ calls[i].ok \in BOOLEAN
    BY DEF ReportsInv, Periods, Recent, Calls, Whole, ToSet
  <2>3. CASE calls[i].ok
    <3>1. IsRows(ui'.rows) /\ ui'.rows.by = calls[i].arg /\ DOMAIN ui' = DOMAIN ui
          /\ UNCHANGED <<ui.view, ui.applied, parted>>
      BY <1>4, <2>1, <2>2, <2>3 DEF ReceivePeriod, Sound, ReadsOpen, ReportsInv
    <3>2. Frame' /\ page' = page
      BY <1>0, <1>4, <3>1, Frames DEF ReceivePeriod, Frame
    <3>3. Periods'
      BY <1>0, <2>1, <3>1, <3>2, PeriodsEnd
    <3> QED
      BY <3>1, <3>2, <3>3 DEF ReportsInv
  <2>4. CASE ~calls[i].ok
    <3>1. ui' = ui /\ parted' = Parts(ui.rows)
      BY <1>4, <2>4 DEF ReceivePeriod
    <3>2. parted' \in BOOLEAN /\ (~parted' => ~parted /\ ui.rows.by = ui.applied)
      BY <1>0, <3>1 DEF Parts, Frame
    <3>3. Frame' /\ page' = page /\ IsRows(ui'.rows)
      BY <1>0, <1>4, <3>1, <3>2, Frames DEF ReceivePeriod, Periods
    <3>4. Periods'
      BY <1>0, <2>1, <3>1, <3>2, <3>3, PeriodsEnd
    <3> QED
      BY <3>1, <3>3, <3>4 DEF ReportsInv
  <2> QED
    BY <2>2, <2>3, <2>4
<1>5. ASSUME NEW i \in DOMAIN calls, ReceiveExport(i)
      PROVE  ReportsInv'
  <2>1. calls[i].op # "load" /\ calls' = RemoveAt(calls, i)
    BY <1>5 DEF ReceiveExport
  <2>2. DOMAIN ui' = DOMAIN ui /\ UNCHANGED <<ui.view, ui.applied, ui.rows>> /\ parted' = parted
    BY <1>5 DEF ReceiveExport, ReportsInv
  <2>3. Frame' /\ page' = page /\ IsRows(ui'.rows)
    BY <1>0, <1>5, <2>2, Frames DEF ReceiveExport, Periods, Frame
  <2>4. Periods'
    BY <1>0, <2>1, <2>2, <2>3, PeriodsEnd
  <2> QED
    BY <2>2, <2>3, <2>4 DEF ReportsInv
<1>6. CASE UNCHANGED vars
  BY <1>6 DEF vars, ReportsInv, Periods, Frame
<1>7. page = "reports"
  BY DEF ReportsInv
<1> QED
  BY <1>1, <1>2, <1>3, <1>4, <1>5, <1>6, <1>7
     DEF Next, User, Serve, Receive, Timer, Elsewhere, ReportsReceive

-----------------------------------------------------------------------------
(* The rows that are edited. *)

GoodRows(of, but, table) ==
  DOMAIN of \subseteq DOMAIN table /\ \A x \in DOMAIN of \ but : of[x] = table[x]

Reads(c) == c.op \in {"load", "list"}

GoodCalls(cs, table) ==
  {c \in ToSet(cs) : Reads(c) /\ c.ok => GoodRows(c.answer.of, {}, table)}

\* A listing is asked for, or will be when an edit has been answered, after whatever shows
\* other rows than the table's.
Kept(cs, edits, view, of, but, table) ==
  \/ Acted(cs, edits)
  \/ /\ Fresh(cs, GoodCalls(cs, table))
     /\ view = "ready" => Has(cs, {"list"}) \/ GoodRows(of, but, table)

LEMMA KeptSends ==
  ASSUME NEW cs, Calls(cs), NEW r, Whole(r), ~r.ok,
         NEW edits, NEW view, NEW of, NEW but, NEW table, Kept(cs, edits, view, of, but, table),
         NEW now, now = "ready" => view = "ready"
  PROVE  Kept(Append(cs, r), edits, now, of, but, table)
<1> DEFINE d == Append(cs, r)
<1>1. /\ ToSet(d) = ToSet(cs) \cup {r}
      /\ \A good, new : /\ r \in new
                        /\ r.op = "list" \/ (Fresh(cs, good) /\ ToSet(cs) \cap good \subseteq new)
                        => Fresh(d, new)
  BY Sends
<1> HIDE DEF d
<1>2. Acted(cs, edits) => Acted(d, edits)
  BY <1>1 DEF Acted
<1>3. Has(cs, {"list"}) => Has(d, {"list"})
  BY <1>1 DEF Has
<1>4. r \in GoodCalls(d, table) /\ GoodCalls(cs, table) \subseteq GoodCalls(d, table)
  BY <1>1 DEF GoodCalls
<1>5. Fresh(cs, GoodCalls(cs, table)) => Fresh(d, GoodCalls(d, table))
  BY <1>1, <1>4
<1> QED
  BY <1>2, <1>3, <1>5 DEF Kept, d

LEMMA KeptAsks ==
  ASSUME NEW cs, Calls(cs), NEW r, Whole(r), ~r.ok, r.op = "list",
         NEW edits, NEW view, NEW of, NEW but, NEW table
  PROVE  Kept(Append(cs, r), edits, view, of, but, table)
<1> DEFINE d == Append(cs, r)
<1>1. /\ ToSet(d) = ToSet(cs) \cup {r}
      /\ \A new : r \in new => Fresh(d, new)
  BY Sends
<1> HIDE DEF d
<1>2. r \in GoodCalls(d, table) /\ Has(d, {"list"})
  BY <1>1 DEF GoodCalls, Has
<1> QED
  BY <1>1, <1>2 DEF Kept, d

LEMMA KeptEnds ==
  ASSUME NEW cs, Calls(cs), NEW i \in DOMAIN cs, ~Reads(cs[i]),
         NEW edits, NEW view, NEW of, NEW but, NEW table, Kept(cs, edits, view, of, but, table),
         ~(cs[i].op \in edits /\ cs[i].ok)
  PROVE  Kept(RemoveAt(cs, i), edits, view, of, but, table)
<1> DEFINE d == RemoveAt(cs, i)
<1>1. /\ ToSet(d) \subseteq ToSet(cs) /\ ToSet(cs) \subseteq ToSet(d) \cup {cs[i]}
      /\ \A good, new : Fresh(cs, good) /\ ToSet(d) \cap good \subseteq new => Fresh(d, new)
  BY Ends DEF Reads
<1> HIDE DEF d
<1>2. Acted(cs, edits) => Acted(d, edits)
  BY <1>1 DEF Acted
<1>3. Has(cs, {"list"}) => Has(d, {"list"})
  BY <1>1 DEF Has, Reads
<1>4. ToSet(d) \cap GoodCalls(cs, table) \subseteq GoodCalls(d, table)
  BY DEF GoodCalls
<1>5. Fresh(cs, GoodCalls(cs, table)) => Fresh(d, GoodCalls(d, table))
  BY <1>1, <1>4
<1> QED
  BY <1>2, <1>3, <1>5 DEF Kept, d

LEMMA KeptCancels ==
  ASSUME NEW cs, Calls(cs), NEW op, Single(cs, {op}), op # "list",
         NEW edits, op \notin edits,
         NEW view, NEW of, NEW but, NEW table, Kept(cs, edits, view, of, but, table)
  PROVE  Kept(Cancel(cs, op), edits, view, of, but, table)
<1> DEFINE d == Cancel(cs, op)
<1>1. /\ ToSet(d) = {c \in ToSet(cs) : c.op # op}
      /\ \A good, new : Fresh(cs, good) /\ ToSet(d) \cap good \subseteq new => Fresh(d, new)
  BY Cancels
<1> HIDE DEF d
<1>2. Acted(cs, edits) => Acted(d, edits)
  BY <1>1 DEF Acted
<1>3. Has(cs, {"list"}) => Has(d, {"list"})
  BY <1>1 DEF Has
<1>4. ToSet(d) \cap GoodCalls(cs, table) \subseteq GoodCalls(d, table)
  BY DEF GoodCalls
<1>5. Fresh(cs, GoodCalls(cs, table)) => Fresh(d, GoodCalls(d, table))
  BY <1>1, <1>4
<1> QED
  BY <1>2, <1>3, <1>5 DEF Kept, d

LEMMA KeptAnswers ==
  ASSUME NEW cs, Calls(cs), NEW i \in DOMAIN cs, ~cs[i].ok, NEW ok \in BOOLEAN, NEW answer,
         NEW edits, NEW view, NEW of, NEW but, NEW table, Kept(cs, edits, view, of, but, table),
         Reads(cs[i]) /\ ok => GoodRows(answer.of, {}, table)
  PROVE  Kept(Answering(cs, i, ok, answer), edits, view, of, but, table)
<1> DEFINE d == Answering(cs, i, ok, answer)
<1>1. /\ d[i].op = cs[i].op /\ d[i].ok = ok /\ d[i].answer = answer /\ d[i] \in ToSet(d)
      /\ ToSet(d) \subseteq ToSet(cs) \cup {d[i]} /\ ToSet(cs) \subseteq ToSet(d) \cup {cs[i]}
      /\ Has(cs, {"list"}) => Has(d, {"list"})
      /\ \A good, new : Fresh(cs, good) /\ d[i] \in new /\ ToSet(cs) \cap good \subseteq new => Fresh(d, new)
  BY Answers
<1> HIDE DEF d
<1>2. Acted(cs, edits) => Acted(d, edits)
  BY <1>1 DEF Acted
<1>3. d[i] \in GoodCalls(d, table)
  BY <1>1 DEF GoodCalls, Reads
<1>4. Fresh(cs, GoodCalls(cs, table)) => Fresh(d, GoodCalls(d, table) \cup GoodCalls(cs, table))
  BY <1>1, <1>3
<1>5. Fresh(d, GoodCalls(d, table) \cup GoodCalls(cs, table)) => Fresh(d, GoodCalls(d, table))
  BY DEF Fresh, GoodCalls, ToSet
<1> QED
  BY <1>1, <1>2, <1>4, <1>5 DEF Kept, d

LEMMA KeptActs ==
  ASSUME NEW cs, Calls(cs), NEW i \in DOMAIN cs, NEW answer, NEW edits, cs[i].op \in edits,
         NEW view, NEW of, NEW but, NEW table
  PROVE  Kept(Answering(cs, i, TRUE, answer), edits, view, of, but, table)
<1>1. \A ok \in BOOLEAN :
        LET d == Answering(cs, i, ok, answer) IN d[i].op = cs[i].op /\ d[i].ok = ok /\ d[i] \in ToSet(d)
  BY Answers
<1>2. Acted(Answering(cs, i, TRUE, answer), edits)
  BY <1>1 DEF Acted
<1> QED
  BY <1>2 DEF Kept

\* An answer with rows is received before which no older listing is open.
LEMMA FreshReceived ==
  ASSUME NEW cs, Calls(cs), NEW i \in DOMAIN cs, Reads(cs[i]), ~Before(cs, i, {"list"}),
         NEW table, Fresh(cs, GoodCalls(cs, table)), NEW d, d = RemoveAt(cs, i)
  PROVE  /\ Fresh(d, GoodCalls(d, table) \cup {c \in ToSet(d) : c.op = "load"})
         /\ ~Before(cs, i, {"load"}) => Fresh(d, GoodCalls(d, table))
         /\ cs[i].ok /\ ~Has(d, {"list"}) => GoodRows(cs[i].answer.of, {}, table)
<1>1. /\ ToSet(d) \subseteq ToSet(cs) /\ ToSet(cs) \subseteq ToSet(d) \cup {cs[i]} /\ cs[i] \in ToSet(cs)
      /\ \A good, new :
              /\ Fresh(cs, good) /\ ToSet(d) \cap good \subseteq new
              /\ cs[i].op = "list" => \A j \in 1..(i - 1) : cs[j] \in new
              => Fresh(d, new)
  BY Ends
<1>2. cs \in Seq(ToSet(cs)) /\ DOMAIN cs = 1..Len(cs) /\ Len(cs) \in Nat
  BY DEF Calls
<1>3. \A j \in DOMAIN cs : j > i => cs[j] \in ToSet(d)
  <2>1. Len(d) = Len(cs) - 1 /\ \A k \in 1..(Len(cs) - 1) : d[k] = cs[IF k < i THEN k ELSE k + 1]
    BY <1>2, Removed
  <2>2. Calls(d)
    BY Ends
  <2>3. DOMAIN d = 1..(Len(cs) - 1)
    BY <2>1, <2>2 DEF Calls
  <2> SUFFICES ASSUME NEW j \in DOMAIN cs, j > i
               PROVE  cs[j] \in ToSet(d)
    OBVIOUS
  <2>4. j - 1 \in 1..(Len(cs) - 1) /\ ~(j - 1 < i) /\ (j - 1) + 1 = j
    BY <1>2
  <2> QED
    BY <2>1, <2>3, <2>4 DEF ToSet
<1> DEFINE loads == {c \in ToSet(cs) : c.op = "load"}
           new == GoodCalls(cs, table) \cup loads
<1>4. \A j \in 1..(i - 1) : cs[j] \in new
  BY <1>2 DEF Before, GoodCalls, Reads, ToSet
<1>5. ~Before(cs, i, {"load"}) => \A j \in 1..(i - 1) : cs[j] \in GoodCalls(cs, table)
  BY <1>4 DEF Before
<1> HIDE DEF new
<1>6. Fresh(d, new)
  <2>1. ToSet(d) \cap GoodCalls(cs, table) \subseteq new
    BY DEF new
  <2> QED
    BY <1>1, <1>4, <2>1
<1>7. Fresh(d, GoodCalls(d, table) \cup {c \in ToSet(d) : c.op = "load"})
  BY <1>6 DEF Fresh, GoodCalls, ToSet, new
<1>8. ASSUME ~Before(cs, i, {"load"})
      PROVE  Fresh(d, GoodCalls(d, table))
  <2>1. ToSet(d) \cap GoodCalls(cs, table) \subseteq GoodCalls(cs, table)
    OBVIOUS
  <2>2. Fresh(d, GoodCalls(cs, table))
    BY <1>1, <1>5, <1>8, <2>1
  <2> QED
    BY <2>2 DEF Fresh, GoodCalls, ToSet
<1>9. ASSUME cs[i].ok, ~Has(d, {"list"})
      PROVE  GoodRows(cs[i].answer.of, {}, table)
  <2>1. ~\E j \in DOMAIN cs : j > i /\ cs[j].op = "list"
    BY <1>3, <1>9 DEF Has
  <2>2. cs[i] \in GoodCalls(cs, table)
    BY <2>1 DEF Fresh
  <2> QED
    BY <1>9, <2>2 DEF GoodCalls
<1> QED
  BY <1>7, <1>8, <1>9

\* Without a view to wait in.
LEMMA KeptReceives ==
  ASSUME NEW cs, Calls(cs), NEW i \in DOMAIN cs, Reads(cs[i]), ~Before(cs, i, {"load", "list"}),
         NEW edits, ~\E c \in ToSet(cs) : Reads(c) /\ c.op \in edits,
         NEW of, NEW but, NEW table, Kept(cs, edits, "ready", of, but, table),
         NEW shown, IF cs[i].ok THEN shown = cs[i].answer.of ELSE cs[i].op # "list" /\ shown = of
  PROVE  Kept(RemoveAt(cs, i), edits, "ready", shown, but, table)
<1> DEFINE d == RemoveAt(cs, i)
<1>1. ToSet(d) \subseteq ToSet(cs) /\ ToSet(cs) \subseteq ToSet(d) \cup {cs[i]} /\ cs[i] \in ToSet(cs)
  BY Ends
<1>2. CASE Acted(cs, edits)
  <2>1. Acted(d, edits)
    BY <1>1, <1>2 DEF Acted
  <2> QED
    BY <2>1 DEF Kept
<1>3. CASE ~Acted(cs, edits)
  <2>1. Fresh(cs, GoodCalls(cs, table)) /\ (Has(cs, {"list"}) \/ GoodRows(of, but, table))
    BY <1>3 DEF Kept
  <2>2. ~Before(cs, i, {"list"}) /\ ~Before(cs, i, {"load"})
    BY DEF Before
  <2>3. /\ Fresh(d, GoodCalls(d, table))
        /\ cs[i].ok /\ ~Has(d, {"list"}) => GoodRows(cs[i].answer.of, {}, table)
    BY <2>1, <2>2, FreshReceived
  <2> HIDE DEF d
  <2>4. ASSUME ~Has(d, {"list"})
        PROVE  GoodRows(shown, but, table)
    <3>1. CASE cs[i].ok
      BY <2>3, <2>4, <3>1 DEF GoodRows
    <3>2. CASE ~cs[i].ok
      <4>1. ~Has(cs, {"list"})
        BY <1>1, <2>4, <3>2 DEF Has
      <4> QED
        BY <2>1, <3>2, <4>1
    <3> QED
      BY <3>1, <3>2
  <2> QED
    BY <2>3, <2>4 DEF Kept, d
<1> QED
  BY <1>2, <1>3

\* On the pages that are written alike.
LEMMA KeptShown ==
  ASSUME {"view", "rows"} \subseteq DOMAIN ui, IsRows(ui.rows),
         Listed(calls, ui.view, ui.rows.by, ui.applied, parted), Frame,
         NEW i \in DOMAIN calls, ReceiveRows(i), ~marred',
         NEW edits, edits \cap {"load", "list"} = {},
         NEW table, Kept(calls, edits, ui.view, ui.rows.of, {}, table)
  PROVE  Kept(calls', edits, ui'.view, ui'.rows.of, {}, table)
<1> DEFINE d == RemoveAt(calls, i)
           e == Cancel(d, "load")
           view == IF calls[i].ok THEN "ready" ELSE "error"
<1>0. Calls(calls) /\ calls[i].op \in {"load", "list"} /\ Single(calls, {"load"})
  BY DEF Listed, ReceiveRows
<1>1. /\ Calls(d) /\ Single(d, {"load"})
      /\ ToSet(d) \subseteq ToSet(calls) /\ ToSet(calls) \subseteq ToSet(d) \cup {calls[i]}
  BY <1>0, Ends
<1>2. /\ ToSet(e) = {c \in ToSet(d) : c.op # "load"}
      /\ \A good, new : Fresh(d, good) /\ ToSet(e) \cap good \subseteq new => Fresh(e, new)
  BY <1>1, Cancels
<1>3. ui'.view = view /\ (calls[i].ok => ui'.rows = calls[i].answer)
      /\ calls' = SetView(d, view)
  BY DEF ReceiveRows
<1>4. view # "loading" /\ (view = "ready" => calls[i].ok)
  OBVIOUS
<1> HIDE DEF view, d
<1>5. calls' = e
  <2>1. CASE ui.view = view
    <3>1. ~Has(calls, {"load"})
      BY <1>4, <2>1 DEF Listed
    <3>2. ~\E j \in DOMAIN d : d[j].op = "load"
      BY <1>1, <3>1 DEF Has, ToSet
    <3> QED
      BY <1>1, <1>3, <2>1, <3>2, CancelRemoves DEF SetView
  <2>2. CASE ui.view # view
    BY <1>3, <1>4, <2>2 DEF SetView
  <2> QED
    BY <2>1, <2>2
<1> HIDE DEF e
<1>6. CASE Acted(calls, edits)
  <2>1. Acted(e, edits)
    BY <1>0, <1>1, <1>2, <1>6 DEF Acted
  <2> QED
    BY <1>5, <2>1 DEF Kept
<1>7. CASE ~Acted(calls, edits)
  <2>1. Fresh(calls, GoodCalls(calls, table))
    BY <1>7 DEF Kept
  <2>2. ~Before(calls, i, {"list"}) /\ Reads(calls[i])
    BY <1>0 DEF ReceiveRows, Late, Before, Frame, Reads
  <2>3. /\ Fresh(d, GoodCalls(d, table) \cup {c \in ToSet(d) : c.op = "load"})
        /\ calls[i].ok /\ ~Has(d, {"list"}) => GoodRows(calls[i].answer.of, {}, table)
    BY <1>0, <2>1, <2>2, FreshReceived DEF d
  <2>4. ToSet(e) \cap (GoodCalls(d, table) \cup {c \in ToSet(d) : c.op = "load"}) \subseteq GoodCalls(e, table)
    BY <1>2 DEF GoodCalls
  <2>5. Fresh(e, GoodCalls(e, table))
    BY <1>2, <2>3, <2>4
  <2>6. Has(d, {"list"}) => Has(e, {"list"})
    BY <1>2 DEF Has
  <2>7. ui'.view = "ready" => Has(e, {"list"}) \/ GoodRows(ui'.rows.of, {}, table)
    BY <1>3, <1>4, <2>3, <2>6
  <2> QED
    BY <1>5, <2>5, <2>7 DEF Kept
<1> QED
  BY <1>6, <1>7

\* A listing is asked for, and the effect's call as well.
LEMMA KeptRefetch ==
  ASSUME NEW cs, Calls(cs), Single(cs, {"load"}), NEW f, NEW edits, "load" \notin edits,
         NEW view, NEW of, NEW but, NEW table
  PROVE  Kept(SetView(Append(cs, Request("list", f)), "loading"), edits, view, of, but, table)
<1> DEFINE r == Request("list", f)
           l == Request("load", Everything)
           d == Append(cs, r)
<1>1. Whole(r) /\ r.op = "list" /\ ~r.ok /\ Whole(l) /\ ~l.ok
  BY WholeRequest
<1> HIDE DEF r, l
<1>2. Kept(d, edits, view, of, but, table) /\ Calls(d) /\ Single(d, {"load"})
  <2>1. r.op \notin {"load"}
    BY <1>1
  <2> QED
    BY <1>1, <2>1, KeptAsks, Sends
<1> HIDE DEF d
<1>3. Kept(Cancel(d, "load"), edits, view, of, but, table) /\ Calls(Cancel(d, "load"))
  BY <1>2, KeptCancels, Cancels
<1>4. Kept(Append(Cancel(d, "load"), l), edits, view, of, but, table)
  BY <1>1, <1>3, KeptSends
<1>5. SetView(d, "loading") \in {d, Append(Cancel(d, "load"), l)}
  BY DEF SetView, l
<1>6. Kept(SetView(d, "loading"), edits, view, of, but, table)
  BY <1>2, <1>4, <1>5
<1> QED
  BY <1>6 DEF d, r

\* What is read aside, the same calls are open.
Beside(cs, d) ==
  /\ \A c \in ToSet(d) : c \in ToSet(cs) \/ (Reads(c) /\ ~c.ok)
  /\ \A c \in ToSet(cs) : c \in ToSet(d) \/ Reads(c)
  /\ \A ops : ops \cap {"load", "list"} = {} /\ Single(cs, ops) => Single(d, ops)

LEMMA BesideSends ==
  ASSUME NEW cs, Calls(cs), NEW r, Whole(r), Reads(r), ~r.ok
  PROVE  Beside(cs, Append(cs, r))
<1> DEFINE d == Append(cs, r)
<1>1. ToSet(d) = ToSet(cs) \cup {r}
  BY Sends
<1>2. \A ops : Single(cs, ops) /\ r.op \notin ops => Single(d, ops)
  BY Sends
<1> HIDE DEF d
<1> QED
  BY <1>1, <1>2 DEF Beside, Reads, d

LEMMA BesideSetView ==
  ASSUME NEW cs, Calls(cs), Single(cs, {"load"}), NEW to
  PROVE  Beside(cs, SetView(cs, to)) /\ Calls(SetView(cs, to))
<1> DEFINE e == Cancel(cs, "load")
           l == Request("load", Everything)
<1>1. Whole(l) /\ Reads(l) /\ ~l.ok
  BY WholeRequest DEF Reads
<1>2. Calls(e) /\ ToSet(e) = {c \in ToSet(cs) : c.op # "load"} /\ \A ops : Single(cs, ops) => Single(e, ops)
  BY Cancels
<1>3. SetView(cs, to) \in {cs, e, Append(e, l)}
  BY DEF SetView
<1> HIDE DEF e, l
<1>4. Beside(cs, cs) /\ Beside(cs, e)
  BY <1>2 DEF Beside, Reads
<1>5. Beside(e, Append(e, l)) /\ Calls(Append(e, l))
  BY <1>1, <1>2, BesideSends, Sends
<1>6. Beside(cs, Append(e, l))
  BY <1>4, <1>5 DEF Beside
<1> QED
  BY <1>2, <1>3, <1>4, <1>5, <1>6

LEMMA BesideRefetch ==
  ASSUME NEW cs, Calls(cs), Single(cs, {"load"}), NEW f
  PROVE  Beside(cs, SetView(Append(cs, Request("list", f)), "loading"))
<1> DEFINE r == Request("list", f)
           d == Append(cs, r)
<1>1. Whole(r) /\ Reads(r) /\ r.op = "list" /\ ~r.ok
  BY WholeRequest DEF Reads
<1>2. Beside(cs, d) /\ Calls(d) /\ Single(d, {"load"})
  <2> HIDE DEF r
  <2>1. r.op \notin {"load"}
    BY <1>1
  <2> QED
    BY <1>1, <2>1, BesideSends, Sends
<1> HIDE DEF d
<1>3. Beside(d, SetView(d, "loading"))
  BY <1>2, BesideSetView
<1>4. Beside(cs, SetView(d, "loading"))
  BY <1>2, <1>3 DEF Beside
<1> QED
  BY <1>4 DEF d, r

LEMMA BesideShown ==
  ASSUME Calls(calls), Single(calls, {"load"}), NEW i \in DOMAIN calls, ReceiveRows(i)
  PROVE  Beside(calls, calls')
<1> DEFINE d == RemoveAt(calls, i)
<1>1. Reads(calls[i])
  BY DEF ReceiveRows, Reads
<1>2. /\ Calls(d) /\ Single(d, {"load"}) /\ \A ops : Single(calls, ops) => Single(d, ops)
      /\ ToSet(d) \subseteq ToSet(calls) /\ ToSet(calls) \subseteq ToSet(d) \cup {calls[i]}
  BY Ends
<1> HIDE DEF d
<1>3. Beside(calls, d)
  BY <1>1, <1>2 DEF Beside
<1>4. \E view : calls' = SetView(d, view)
  BY DEF ReceiveRows, d
<1>5. Beside(d, calls')
  BY <1>2, <1>4, BesideSetView
<1> QED
  BY <1>3, <1>5 DEF Beside

LEMMA KeptLists ==
  ASSUME NEW f, NEW table
  PROVE  IsRows(Listing(f, table)) /\ Listing(f, table).by = f
         /\ GoodRows(Listing(f, table).of, {}, table)
BY DEF Listing, IsRows, GoodRows, Restrict

-----------------------------------------------------------------------------
(* The access users. *)

UserEdits == {"status", "disable", "policy"}

UsersInv ==
  /\ page = "users" /\ Frame
  /\ DOMAIN ui = {"view", "rows", "applied", "policies", "drawer", "detail", "modal", "syncing"}
  /\ IsRows(ui.rows)
  /\ Listed(calls, ui.view, ui.rows.by, ui.applied, parted)
  /\ Single(calls, {"detail"})
  /\ \A c \in ToSet(calls) : c.op = "detail" => c.arg = ui.drawer /\ ui.drawer # NULL
  /\ ui.drawer # NULL => ui.detail \in {NULL, ui.drawer}
  /\ ~marred => /\ ~Has(calls, {"sync"})
                /\ Kept(calls, UserEdits, ui.view, ui.rows.of, {}, db.users)

LEMMA DrawerMoves ==
  ASSUME NEW cs, Calls(cs), Single(cs, {"detail"}), NEW account
  PROVE  LET d == DrawerEffect(cs, account) IN
         /\ Calls(d) /\ Len(cs) \in Nat /\ Len(d) \in Nat
         /\ Len(d) <= Len(cs) + (IF account = NULL THEN 0 ELSE 1)
         /\ Single(d, {"detail"})
         /\ \A c \in ToSet(d) : c.op = "detail" => c.arg = account /\ account # NULL
         /\ \A c \in ToSet(d) : c.op # "detail" => c \in ToSet(cs)
         /\ \A view, by, applied, aside :
              /\ Listed(cs, view, by, applied, aside)
              /\ account # NULL => Len(cs) + 1 <= MaxCalls
              => Listed(d, view, by, applied, aside)
         /\ \A view, of, but, table :
              Kept(cs, UserEdits, view, of, but, table) => Kept(d, UserEdits, view, of, but, table)
<1> DEFINE e == Cancel(cs, "detail")
           r == Request("detail", account)
           d == Append(e, r)
<1>1. /\ Calls(e) /\ Len(e) \in Nat /\ Len(cs) \in Nat /\ Single(e, {"detail"})
      /\ Len(e) = IF Has(cs, {"detail"}) THEN Len(cs) - 1 ELSE Len(cs)
      /\ ToSet(e) = {c \in ToSet(cs) : c.op # "detail"} /\ ~Has(e, {"detail"})
  BY Cancels
<1>2. \A view, by, applied, aside :
         Listed(cs, view, by, applied, aside) => Listed(e, view, by, applied, aside)
  BY ListedCancels
<1>3. \A view, of, but, table :
         Kept(cs, UserEdits, view, of, but, table) => Kept(e, UserEdits, view, of, but, table)
  <2>1. "detail" \notin UserEdits
    BY DEF UserEdits
  <2> QED
    BY <2>1, KeptCancels
<1>4. Whole(r) /\ r.op = "detail" /\ r.arg = account /\ ~r.ok
  BY WholeRequest
<1>5. DrawerEffect(cs, account) = IF account = NULL THEN e ELSE d
  BY DEF DrawerEffect, FetchUserDetail
<1> HIDE DEF e, r
<1>6. Len(e) <= Len(cs)
  BY <1>1
<1>7. CASE account = NULL
  BY <1>1, <1>2, <1>3, <1>5, <1>6, <1>7
<1>8. CASE account # NULL
  <2>1. Calls(d) /\ Len(d) = Len(e) + 1 /\ ToSet(d) = ToSet(e) \cup {r}
    BY <1>1, <1>4, Sends
  <2>2. Single(d, {"detail"})
    BY <1>1, <1>4, Sends
  <2>3. \A c \in ToSet(d) : /\ c.op = "detail" => c.arg = account
                            /\ c.op # "detail" => c \in ToSet(cs)
    BY <1>1, <1>4, <2>1
  <2>4. ASSUME NEW view, NEW by, NEW applied, NEW aside, Listed(cs, view, by, applied, aside),
               Len(cs) + 1 <= MaxCalls
        PROVE  Listed(d, view, by, applied, aside)
    <3>1. Listed(e, view, by, applied, aside)
      BY <1>2, <2>4
    <3>2. Len(e) + 1 <= MaxCalls
      BY <1>1, <1>6, <2>4, MaxCallsNat
    <3> QED
      BY <1>4, <3>1, <3>2, ListedSends
  <2>5. ASSUME NEW view, NEW of, NEW but, NEW table, Kept(cs, UserEdits, view, of, but, table)
        PROVE  Kept(d, UserEdits, view, of, but, table)
    BY <1>1, <1>3, <1>4, <2>5, KeptSends
  <2>6. Len(d) \in Nat /\ Len(d) <= Len(cs) + 1
    BY <1>1, <1>6, <2>1
  <2> QED
    BY <1>1, <1>5, <1>8, <2>1, <2>2, <2>3, <2>4, <2>5, <2>6
<1> QED
  BY <1>7, <1>8

\* The table is loaded again, and nothing else is touched.
LEMMA UsersReload ==
  ASSUME UsersInv, NEW f, calls' = SetView(Append(calls, Request("list", f)), "loading"),
         Listed(calls', "loading", ui.rows.by, ui'.applied, parted'),
         Frame', UNCHANGED <<page, db>>, ~marred' => ~marred,
         DOMAIN ui' = DOMAIN ui, ui'.view = "loading",
         UNCHANGED <<ui.rows, ui.drawer, ui.detail>>
  PROVE  UsersInv'
<1>1. Calls(calls) /\ Single(calls, {"load"}) /\ Single(calls, {"detail"})
  BY DEF UsersInv, Listed
<1>2. Beside(calls, calls')
  BY <1>1, BesideRefetch
<1>3. Single(calls', {"detail"})
      /\ \A c \in ToSet(calls') : c.op \in {"detail", "sync"} => c \in ToSet(calls)
  BY <1>1, <1>2 DEF Beside, Reads
<1>4. Kept(calls', UserEdits, "loading", ui.rows.of, {}, db.users)
  <2>1. "load" \notin UserEdits
    BY DEF UserEdits
  <2> QED
    BY <1>1, <2>1, KeptRefetch
<1>5. Has(calls', {"sync"}) => Has(calls, {"sync"})
  BY <1>3 DEF Has
<1> QED
  BY <1>3, <1>4, <1>5 DEF UsersInv

\* A call is sent that reads no rows.
LEMMA UsersSend ==
  ASSUME UsersInv, NEW r, Whole(r), ~r.ok, ~Reads(r), r.op \notin {"detail"},
         Len(calls) + 1 <= MaxCalls,
         calls' = Append(calls, r), Frame', UNCHANGED <<page, db, parted>>,
         ~marred' => ~marred /\ r.op # "sync",
         DOMAIN ui' = DOMAIN ui, UNCHANGED <<ui.view, ui.rows, ui.applied, ui.drawer, ui.detail>>
  PROVE  UsersInv'
<1>1. Calls(calls) /\ Single(calls, {"detail"})
  BY DEF UsersInv, Listed
<1>2. ToSet(calls') = ToSet(calls) \cup {r} /\ Single(calls', {"detail"})
  BY <1>1, Sends
<1>3. Listed(calls', ui.view, ui.rows.by, ui.applied, parted)
  BY ListedSends DEF UsersInv, Reads
<1>4. ~marred' => Kept(calls', UserEdits, ui.view, ui.rows.of, {}, db.users)
  BY <1>1, KeptSends DEF UsersInv
<1>5. ~marred' => ~Has(calls', {"sync"})
  BY <1>2 DEF UsersInv, Has
<1> QED
  BY <1>2, <1>3, <1>4, <1>5 DEF UsersInv

LEMMA UsersClicks ==
  ASSUME UsersInv, UsersClick
  PROVE  UsersInv'
<1>0. /\ Calls(calls) /\ Len(calls) \in Nat /\ Frame /\ Single(calls, {"detail"})
      /\ Listed(calls, ui.view, ui.rows.by, ui.applied, parted)
  BY DEF UsersInv, Listed, Calls
<1>1. ASSUME NEW f, ui' = [ui EXCEPT !.applied = f, !.view = "loading"], Refetch(f)
      PROVE  UsersInv'
  <2>1. DOMAIN ui' = DOMAIN ui /\ ui'.view = "loading" /\ ui'.applied = f
        /\ UNCHANGED <<ui.rows, ui.drawer, ui.detail>>
    BY <1>1 DEF UsersInv
  <2>2. /\ Frame' /\ UNCHANGED <<page, db, marred>>
        /\ calls' = SetView(Append(calls, Request("list", f)), "loading")
        /\ Listed(calls', "loading", ui.rows.by, f, parted')
    BY <1>0, <1>1, Refetches
  <2> QED
    BY <2>1, <2>2, UsersReload
<1>2. CASE RetryUsers
  <2>1. DOMAIN ui' = DOMAIN ui /\ ui'.view = "loading"
        /\ UNCHANGED <<ui.rows, ui.applied, ui.drawer, ui.detail>>
    BY <1>2 DEF UsersInv, RetryUsers
  <2>2. parted' \in BOOLEAN /\ (~parted' => ui.applied = Everything)
    BY <1>0, <1>2 DEF RetryUsers, Unfiltered, Frame
  <2>5. calls' = SetView(Append(calls, Request("list", Everything)), "loading")
        /\ Len(calls) + 2 <= MaxCalls
    BY <1>2 DEF RetryUsers, Room
  <2>6. Len(calls) + 1 <= MaxCalls + (IF ui.view = "loading" THEN 1 ELSE 0)
    BY <1>0, <2>5, MaxCallsNat
  <2>3. Frame' /\ UNCHANGED <<page, db, marred>>
    BY <1>0, <1>2, <2>2, Frames DEF RetryUsers, Frame
  <2>4. Listed(calls', "loading", ui.rows.by, ui.applied, parted')
    BY <1>0, <2>2, <2>5, <2>6, ListedRefetch
  <2> QED
    BY <2>1, <2>3, <2>4, <2>5, UsersReload
<1>3. ASSUME NEW account, ui.drawer # account, calls' = DrawerEffect(calls, account),
             Look \/ Close, account # NULL => Len(calls) + 1 <= MaxCalls,
             DOMAIN ui' = DOMAIN ui, ui'.drawer = account, account # NULL => ui'.detail = NULL,
             UNCHANGED <<ui.view, ui.rows, ui.applied>>
      PROVE  UsersInv'
  <2>1. Frame' /\ UNCHANGED <<page, db, parted, marred>>
    BY <1>0, <1>3, Frames
  <2>2. /\ Single(calls', {"detail"})
        /\ \A c \in ToSet(calls') : c.op = "detail" => c.arg = account /\ account # NULL
        /\ \A c \in ToSet(calls') : c.op # "detail" => c \in ToSet(calls)
    BY <1>0, <1>3, DrawerMoves
  <2>3. Listed(calls', ui.view, ui.rows.by, ui.applied, parted)
    BY <1>0, <1>3, DrawerMoves
  <2>4. ~marred => Kept(calls', UserEdits, ui.view, ui.rows.of, {}, db.users)
    BY <1>0, <1>3, DrawerMoves DEF UsersInv
  <2>5. Has(calls', {"sync"}) => Has(calls, {"sync"})
    BY <2>2 DEF Has
  <2> QED
    BY <1>3, <2>1, <2>2, <2>3, <2>4, <2>5 DEF UsersInv
<1>4. CASE OpenUser
  <2>1. PICK x \in Shown : /\ ui' = [ui EXCEPT !.drawer = x, !.detail = NULL]
                           /\ calls' = DrawerEffect(calls, x)
    BY <1>4 DEF OpenUser
  <2>2. CASE x = NULL
    <3>1. Frame' /\ UNCHANGED <<page, db, parted, marred>>
      BY <1>0, <1>4, Frames DEF OpenUser
    <3>2. DOMAIN ui' = DOMAIN ui /\ ui'.drawer = NULL /\ UNCHANGED <<ui.view, ui.rows, ui.applied>>
      BY <2>1, <2>2 DEF UsersInv
    <3>3. /\ Single(calls', {"detail"})
          /\ \A c \in ToSet(calls') : c.op # "detail" /\ c \in ToSet(calls)
          /\ Listed(calls', ui.view, ui.rows.by, ui.applied, parted)
      BY <1>0, <2>1, <2>2, DrawerMoves
    <3>4. ~marred => Kept(calls', UserEdits, ui.view, ui.rows.of, {}, db.users)
      BY <1>0, <2>1, DrawerMoves DEF UsersInv
    <3>5. Has(calls', {"sync"}) => Has(calls, {"sync"})
      BY <3>3 DEF Has
    <3> QED
      BY <3>1, <3>2, <3>3, <3>4, <3>5 DEF UsersInv
  <2>3. CASE x # NULL
    <3>1. ui.drawer # x /\ Look /\ Len(calls) + 1 <= MaxCalls
      BY <1>4, <2>3 DEF OpenUser, Room
    <3>2. DOMAIN ui' = DOMAIN ui /\ ui'.drawer = x /\ ui'.detail = NULL
          /\ UNCHANGED <<ui.view, ui.rows, ui.applied>>
      BY <2>1 DEF UsersInv
    <3> QED
      BY <1>3, <2>1, <3>1, <3>2
  <2> QED
    BY <2>2, <2>3
<1>5. CASE CloseUser
  <2>1. DOMAIN ui' = DOMAIN ui /\ ui'.drawer = NULL /\ UNCHANGED <<ui.view, ui.rows, ui.applied>>
        /\ ui.drawer # NULL /\ calls' = DrawerEffect(calls, NULL) /\ Close
    BY <1>5 DEF CloseUser, UsersInv
  <2> QED
    BY <1>3, <2>1
<1>6. CASE OpenDialog \/ CancelDialog
  <2>1. Frame' /\ UNCHANGED <<page, db, parted, marred, calls>>
    BY <1>0, <1>6, Frames DEF OpenDialog, CancelDialog
  <2>2. DOMAIN ui' = DOMAIN ui /\ UNCHANGED <<ui.view, ui.rows, ui.applied, ui.drawer, ui.detail>>
    BY <1>6 DEF OpenDialog, CancelDialog, UsersInv
  <2> QED
    BY <2>1, <2>2 DEF UsersInv
<1>7. CASE ConfirmDialog
  <2>1. DOMAIN ui' = DOMAIN ui /\ UNCHANGED <<ui.view, ui.rows, ui.applied, ui.drawer, ui.detail>>
    BY <1>7 DEF ConfirmDialog, UsersInv
  <2>2. marred' \in BOOLEAN /\ (~marred' => ~marred) /\ Click /\ Len(calls) + 1 <= MaxCalls
    BY <1>0, <1>7 DEF ConfirmDialog, Frame, Room
  <2>3. \/ \E r : Whole(r) /\ ~r.ok /\ r.op \in UserEdits /\ calls' = Append(calls, r) /\ parted' = parted
        \/ UNCHANGED <<calls, parted>>
        \/ calls' = Append(calls, Request("list", Everything)) /\ parted' = Unfiltered
    <3>1. \A accounts, on :
             LET r == UpdateUserStatus(accounts, on) IN
             /\ Whole(r) /\ ~r.ok /\ r.op \in UserEdits
             /\ Whole([r EXCEPT !.op = "disable"]) /\ ~[r EXCEPT !.op = "disable"].ok
             /\ [r EXCEPT !.op = "disable"].op \in UserEdits
      BY DEF UpdateUserStatus, UserEdits, Whole, Request
    <3>2. \A accounts, policy :
             LET r == AssignUserPolicy(accounts, policy) IN Whole(r) /\ ~r.ok /\ r.op \in UserEdits
      BY DEF AssignUserPolicy, UserEdits, Whole, Request
    <3> QED
      BY <1>7, <3>1, <3>2 DEF ConfirmDialog, ReloadUsers
  <2>4. parted' \in BOOLEAN
    BY <1>0, <2>3 DEF Unfiltered, Frame
  <2>5. Frame' /\ UNCHANGED <<page, db>>
    BY <1>0, <2>2, <2>4, Frames
  <2>6. ASSUME NEW r, Whole(r), ~r.ok, r.op \in UserEdits, calls' = Append(calls, r), parted' = parted
        PROVE  UsersInv'
    <3>1. ~Reads(r) /\ r.op \notin {"detail"} /\ r.op # "sync"
      BY <2>6 DEF Reads, UserEdits
    <3> QED
      BY <2>1, <2>2, <2>5, <2>6, <3>1, UsersSend
  <2>7. CASE UNCHANGED <<calls, parted>>
    BY <2>1, <2>2, <2>5, <2>7 DEF UsersInv
  <2>8. CASE calls' = Append(calls, Request("list", Everything)) /\ parted' = Unfiltered
    <3> DEFINE r == Request("list", Everything)
    <3>1. Whole(r) /\ r.op = "list" /\ ~r.ok /\ Reads(r)
      BY WholeRequest DEF Reads
    <3> HIDE DEF r
    <3>2. calls' = Append(calls, r)
      BY <2>8 DEF r
    <3>3. Beside(calls, calls') /\ Kept(calls', UserEdits, ui.view, ui.rows.of, {}, db.users)
      BY <1>0, <3>1, <3>2, BesideSends, KeptAsks
    <3>4. ~parted' => ui.applied = Everything
      BY <1>0, <2>8 DEF Unfiltered, Frame
    <3>5. Listed(calls', ui.view, ui.rows.by, ui.applied, parted')
      <4>1. Len(calls) + 1 <= MaxCalls + (IF ui.view = "loading" THEN 1 ELSE 0)
        BY <1>0, <2>2, MaxCallsNat
      <4> QED
        BY <1>0, <2>8, <3>4, <4>1, ListedAsks
    <3>6. Single(calls', {"detail"})
          /\ \A c \in ToSet(calls') : c.op \in {"detail", "sync"} => c \in ToSet(calls)
      BY <1>0, <3>3 DEF Beside, Reads
    <3>7. Has(calls', {"sync"}) => Has(calls, {"sync"})
      BY <3>6 DEF Has
    <3> QED
      BY <2>1, <2>2, <2>5, <3>3, <3>5, <3>6, <3>7 DEF UsersInv
  <2> QED
    BY <2>3, <2>6, <2>7, <2>8
<1>8. CASE StartSync
  <2> DEFINE r == Request("sync", NULL)
  <2>1. Whole(r) /\ r.op = "sync" /\ ~r.ok /\ ~Reads(r)
    BY WholeRequest DEF Reads
  <2>2. calls' = Append(calls, r) /\ marred' = TRUE /\ Click /\ parted' = parted
        /\ Len(calls) + 1 <= MaxCalls
    BY <1>8 DEF StartSync, Room
  <2>3. DOMAIN ui' = DOMAIN ui /\ UNCHANGED <<ui.view, ui.rows, ui.applied, ui.drawer, ui.detail>>
    BY <1>8 DEF StartSync, UsersInv
  <2>4. Frame' /\ UNCHANGED <<page, db>>
    BY <1>0, <2>2, Frames DEF Frame
  <2> HIDE DEF r
  <2> QED
    BY <2>1, <2>2, <2>3, <2>4, UsersSend
<1> QED
  BY <1>1, <1>2, <1>4, <1>5, <1>6, <1>7, <1>8 DEF UsersClick, ApplyUserFilters, ResetUserFilters

\* A call that is not answered has not been answered well.
LEMMA SentCalls ==
  ASSUME NEW cs, Calls(cs), NEW i \in DOMAIN cs
  PROVE  /\ cs[i] \in ToSet(cs) /\ cs[i].ok \in BOOLEAN
         /\ cs[i].pc = "sent" => ~cs[i].ok
BY DEF Calls, Whole, ToSet

LEMMA UsersAnswers ==
  ASSUME UsersInv, NEW i \in DOMAIN calls, ServeUsers(i) \/ Lose(i)
  PROVE  UsersInv'
<1>0. /\ Calls(calls) /\ Frame /\ Single(calls, {"detail"}) /\ calls[i] \in ToSet(calls)
      /\ Listed(calls, ui.view, ui.rows.by, ui.applied, parted)
      /\ calls[i].pc = "sent" => ~calls[i].ok
  BY SentCalls DEF UsersInv, Listed
<1>1. ASSUME NEW ok \in BOOLEAN, NEW answer, calls' = Answering(calls, i, ok, answer),
             Frame', UNCHANGED <<page, ui, parted>>,
             calls[i].op \in ReadsOpen /\ ok => IsRows(answer) /\ answer.by = calls[i].arg,
             ~marred' => ~marred /\ Kept(calls', UserEdits, ui.view, ui.rows.of, {}, db'.users)
      PROVE  UsersInv'
  <2>1. /\ calls'[i].op = calls[i].op /\ calls'[i].arg = calls[i].arg
        /\ ToSet(calls') \subseteq ToSet(calls) \cup {calls'[i]}
        /\ Has(calls', {"sync"}) <=> Has(calls, {"sync"})
        /\ Single(calls', {"detail"})
    BY <1>0, <1>1, Answers
  <2>2. Listed(calls', ui.view, ui.rows.by, ui.applied, parted)
    BY <1>0, <1>1, ListedAnswers
  <2> QED
    BY <1>0, <1>1, <2>1, <2>2 DEF UsersInv
<1>2. CASE Lose(i)
  <2>1. /\ Frame' /\ UNCHANGED <<page, ui, db, parted>> /\ calls' = Answering(calls, i, FALSE, NULL)
        /\ ~marred' => ~marred /\ calls[i].pc = "sent"
    BY <1>0, <1>2, Loses
  <2>2. ~marred' => Kept(calls', UserEdits, ui.view, ui.rows.of, {}, db.users)
    BY <1>0, <2>1, KeptAnswers DEF UsersInv
  <2> QED
    BY <1>1, <2>1, <2>2
<1>3. ASSUME NEW ok \in BOOLEAN, NEW answer, Answered(i, ok, answer, db),
             calls[i].op \in ReadsOpen /\ ok => IsRows(answer) /\ answer.by = calls[i].arg,
             Reads(calls[i]) /\ ok => GoodRows(answer.of, {}, db.users)
      PROVE  UsersInv'
  <2>1. /\ Frame' /\ UNCHANGED <<page, ui, parted, marred, db>> /\ calls[i].pc = "sent"
        /\ calls' = Answering(calls, i, ok, answer)
    BY <1>0, <1>3, IsAnswered
  <2>2. ~marred => Kept(calls', UserEdits, ui.view, ui.rows.of, {}, db.users)
    BY <1>0, <1>3, <2>1, KeptAnswers DEF UsersInv
  <2> QED
    BY <1>1, <1>3, <2>1, <2>2
<1>4. ASSUME NEW after, Answered(i, TRUE, NULL, after), calls[i].op \in UserEdits \cup {"sync"}
      PROVE  UsersInv'
  <2>1. /\ Frame' /\ UNCHANGED <<page, ui, parted, marred>>
        /\ calls' = Answering(calls, i, TRUE, NULL)
    BY <1>0, <1>4, IsAnswered
  <2>2. ASSUME ~marred
        PROVE  Kept(calls', UserEdits, ui.view, ui.rows.of, {}, db'.users)
    <3>1. calls[i].op \in UserEdits
      BY <1>0, <1>4, <2>2 DEF UsersInv, Has
    <3> QED
      BY <1>0, <2>1, <3>1, KeptActs
  <2>3. calls[i].op \notin ReadsOpen
    BY <1>4 DEF UserEdits, ReadsOpen
  <2> QED
    BY <1>1, <2>1, <2>2, <2>3
<1>5. CASE calls[i].op \in {"load", "list"} /\ Answered(i, TRUE, FetchUsers(calls[i].arg), db)
  BY <1>3, <1>5, KeptLists DEF FetchUsers
<1>6. CASE calls[i].op \in {"detail", "policies"} /\ Answered(i, TRUE, NULL, db)
  <2>1. calls[i].op \notin ReadsOpen /\ ~Reads(calls[i])
    BY <1>6 DEF ReadsOpen, Reads
  <2> QED
    BY <1>3, <1>6, <2>1
<1>7. CASE Refuse(i)
  BY <1>3, <1>7 DEF Refuse
<1> QED
  BY <1>2, <1>4, <1>5, <1>6, <1>7 DEF ServeUsers, UserEdits

LEMMA UsersReceives ==
  ASSUME UsersInv, NEW i \in DOMAIN calls, UsersReceive(i)
  PROVE  UsersInv'
<1>0. /\ Calls(calls) /\ Frame /\ Single(calls, {"detail"}) /\ Single(calls, {"load"})
      /\ calls[i] \in ToSet(calls) /\ calls[i].ok \in BOOLEAN /\ IsRows(ui.rows)
      /\ Listed(calls, ui.view, ui.rows.by, ui.applied, parted)
  BY SentCalls DEF UsersInv, Listed
<1>1. CASE ReceiveRows(i)
  <2>1. /\ Frame' /\ UNCHANGED <<page, db>> /\ IsRows(ui'.rows)
        /\ Listed(calls', ui'.view, ui'.rows.by, ui'.applied, parted')
        /\ DOMAIN ui' = DOMAIN ui /\ \A field \in DOMAIN ui \ {"view", "rows"} : ui'[field] = ui[field]
    BY <1>0, <1>1, RowsReceived DEF UsersInv
  <2>2. UNCHANGED <<ui.drawer, ui.detail>>
    BY <2>1 DEF UsersInv
  <2>3. Beside(calls, calls')
    BY <1>0, <1>1, BesideShown
  <2>4. Single(calls', {"detail"})
        /\ \A c \in ToSet(calls') : c.op \in {"detail", "sync"} => c \in ToSet(calls)
    BY <1>0, <2>3 DEF Beside, Reads
  <2>5. Has(calls', {"sync"}) => Has(calls, {"sync"})
    BY <2>4 DEF Has
  <2>6. ASSUME ~marred'
        PROVE  ~marred /\ Kept(calls', UserEdits, ui'.view, ui'.rows.of, {}, db.users)
    <3>1. ~marred /\ {"view", "rows"} \subseteq DOMAIN ui
      BY <1>0, <1>1, <2>6 DEF ReceiveRows, Frame, UsersInv
    <3>2. UserEdits \cap {"load", "list"} = {}
      BY DEF UserEdits
    <3> QED
      BY <1>0, <1>1, <2>6, <3>1, <3>2, KeptShown DEF UsersInv
  <2> QED
    BY <2>1, <2>2, <2>4, <2>5, <2>6 DEF UsersInv
<1>2. ASSUME calls' = RemoveAt(calls, i), Continue, UNCHANGED parted, ~Reads(calls[i]),
             ~(calls[i].op \in UserEdits /\ calls[i].ok),
             DOMAIN ui' = DOMAIN ui, UNCHANGED <<ui.view, ui.rows, ui.applied, ui.drawer>>,
             ui'.detail = ui.detail \/ (calls[i].op = "detail" /\ ui'.detail = calls[i].arg)
      PROVE  UsersInv'
  <2>1. Frame' /\ UNCHANGED <<page, db, marred>>
    BY <1>0, <1>2, Frames DEF Frame
  <2>2. Listed(calls', ui.view, ui.rows.by, ui.applied, parted)
    BY <1>0, <1>2, ListedEnds DEF Reads
  <2>3. ToSet(calls') \subseteq ToSet(calls) /\ Single(calls', {"detail"})
    BY <1>0, <1>2, Ends
  <2>4. ~marred => Kept(calls', UserEdits, ui.view, ui.rows.of, {}, db.users)
    BY <1>0, <1>2, KeptEnds DEF UsersInv
  <2>5. ui'.drawer # NULL => ui'.detail \in {NULL, ui'.drawer}
    BY <1>0, <1>2 DEF UsersInv
  <2>6. Has(calls', {"sync"}) => Has(calls, {"sync"})
    BY <2>3 DEF Has
  <2> QED
    BY <1>2, <2>1, <2>2, <2>3, <2>4, <2>5, <2>6 DEF UsersInv
<1>3. CASE ReceiveDetail(i) \/ ReceivePolicies(i) \/ ReceiveSync(i)
  <2>1. ~Reads(calls[i]) /\ calls[i].op \notin UserEdits
    BY <1>3 DEF ReceiveDetail, ReceivePolicies, ReceiveSync, Reads, UserEdits
  <2>2. calls' = RemoveAt(calls, i) /\ Continue /\ UNCHANGED parted
    BY <1>3 DEF ReceiveDetail, ReceivePolicies, ReceiveSync
  <2>3. /\ DOMAIN ui' = DOMAIN ui /\ UNCHANGED <<ui.view, ui.rows, ui.applied, ui.drawer>>
        /\ ui'.detail = ui.detail \/ (calls[i].op = "detail" /\ ui'.detail = calls[i].arg)
    BY <1>3 DEF ReceiveDetail, ReceivePolicies, ReceiveSync, UsersInv
  <2> QED
    BY <1>2, <2>1, <2>2, <2>3
<1>4. CASE ReceiveUserEdit(i) /\ ~calls[i].ok
  <2>1. ~Reads(calls[i])
    BY <1>4 DEF ReceiveUserEdit, Reads
  <2>2. calls' = RemoveAt(calls, i) /\ UNCHANGED <<ui, parted>> /\ Continue
    BY <1>4 DEF ReceiveUserEdit
  <2> QED
    BY <1>2, <1>4, <2>1, <2>2
<1>5. CASE ReceiveUserEdit(i) /\ calls[i].ok
  <2> DEFINE cs == RemoveAt(calls, i)
             gone == calls[i].op = "disable"
             ds == IF gone THEN DrawerEffect(cs, NULL) ELSE cs
             r == Request("list", Everything)
  <2>1. /\ calls' = Append(ds, r) /\ parted' = Unfiltered /\ Continue
        /\ DOMAIN ui' = DOMAIN ui /\ UNCHANGED <<ui.view, ui.rows, ui.applied, ui.detail>>
        /\ ui'.drawer = IF gone THEN NULL ELSE ui.drawer
    BY <1>5 DEF ReceiveUserEdit, ReloadUsers, UsersInv
  <2>2. ~Reads(calls[i]) /\ calls[i].op \in UserEdits
    BY <1>5 DEF ReceiveUserEdit, Reads, UserEdits
  <2>3. /\ Calls(cs) /\ Len(cs) = Len(calls) - 1 /\ Len(calls) \in Nat /\ ToSet(cs) \subseteq ToSet(calls)
        /\ Single(cs, {"detail"})
    BY <1>0, Ends
  <2>4. Listed(cs, ui.view, ui.rows.by, ui.applied, parted)
    BY <1>0, <2>2, ListedEnds DEF Reads
  <2>5. parted' \in BOOLEAN /\ (~parted' => ui.applied = Everything)
    BY <1>0, <2>1 DEF Unfiltered, Frame
  <2>6. Frame' /\ UNCHANGED <<page, db, marred>>
    BY <1>0, <2>1, <2>5, Frames
  <2> HIDE DEF cs, r
  <2>7. /\ Calls(ds) /\ Len(ds) \in Nat /\ Len(ds) <= Len(cs) /\ Single(ds, {"detail"})
        /\ \A c \in ToSet(ds) : c.op = "detail" => ~gone /\ c \in ToSet(calls)
        /\ \A c \in ToSet(ds) : c.op # "detail" => c \in ToSet(calls)
        /\ Listed(ds, ui.view, ui.rows.by, ui.applied, parted)
    <3>1. CASE gone
      <4>1. /\ Calls(DrawerEffect(cs, NULL)) /\ Len(DrawerEffect(cs, NULL)) \in Nat
            /\ Len(DrawerEffect(cs, NULL)) <= Len(cs) + 0 /\ Single(DrawerEffect(cs, NULL), {"detail"})
            /\ \A c \in ToSet(DrawerEffect(cs, NULL)) : c.op # "detail" /\ c \in ToSet(cs)
            /\ Listed(DrawerEffect(cs, NULL), ui.view, ui.rows.by, ui.applied, parted)
        BY <2>3, <2>4, DrawerMoves
      <4> QED
        BY <2>3, <3>1, <4>1
    <3>2. CASE ~gone
      BY <2>3, <2>4, <3>2
    <3> QED
      BY <3>1, <3>2
  <2> HIDE DEF ds
  <2>8. Whole(r) /\ r.op = "list" /\ ~r.ok /\ Reads(r)
    BY WholeRequest DEF Reads, r
  <2>9. Beside(ds, calls') /\ Kept(calls', UserEdits, ui.view, ui.rows.of, {}, db.users)
    BY <2>1, <2>7, <2>8, BesideSends, KeptAsks
  <2>10. Listed(calls', ui.view, ui.rows.by, ui.applied, parted')
    <3>1. Len(ds) + 1 <= MaxCalls + (IF ui.view = "loading" THEN 1 ELSE 0)
      <4>1. Len(calls) <= MaxCalls + (IF ui.view = "loading" THEN 1 ELSE 0)
        BY <1>0 DEF Listed
      <4> QED
        BY <2>3, <2>7, <4>1, MaxCallsNat
    <3> QED
      BY <2>1, <2>5, <2>7, <3>1, ListedAsks DEF r
  <2>11. Single(calls', {"detail"})
         /\ \A c \in ToSet(calls') : c.op \in {"detail", "sync"} => c \in ToSet(ds)
    BY <2>7, <2>9 DEF Beside, Reads
  <2>12. \A c \in ToSet(calls') : c.op = "detail" => ~gone /\ c \in ToSet(calls)
    BY <2>7, <2>11
  <2>13. Has(calls', {"sync"}) => Has(calls, {"sync"})
    BY <2>7, <2>11 DEF Has
  <2> QED
    BY <2>1, <2>6, <2>9, <2>10, <2>11, <2>12, <2>13 DEF UsersInv
<1> QED
  BY <1>0, <1>1, <1>3, <1>4, <1>5 DEF UsersReceive

LEMMA UsersSteps ==
  ASSUME UsersInv, [Next]_vars
  PROVE  UsersInv'
<1>1. CASE UNCHANGED vars
  BY <1>1 DEF vars, UsersInv, Frame
<1>2. page = "users"
  BY DEF UsersInv
<1> QED
  BY <1>1, <1>2, UsersClicks, UsersAnswers, UsersReceives
     DEF Next, User, Serve, Receive, Timer, Elsewhere

-----------------------------------------------------------------------------
(* The network devices. *)

NasEdits == {"create", "update", "delete"}

NasRows == [x \in DOMAIN db.nas |-> "nas"]

NasCall(c) ==
  /\ c.op = "ports" => c.arg = ui.drawer /\ ui.drawer # NULL
  /\ Reads(c) /\ c.ok => DOMAIN c.answer.of \subseteq Items
  /\ c.op = "secret" => c.arg \in Items /\ (c.ok => c.answer \in Nat)
  /\ c.op = "create" => c.arg.id \in Items

\* The secrets fetched are the service's, or the edit of one has yet to be told.
NasSecrets(cs, secrets, nas) ==
  /\ Single(cs, NasEdits \cup {"secret"})
  /\ \A x \in DOMAIN nas : secrets[x] # NULL =>
       secrets[x] = nas[x] \/ \E c \in ToSet(cs) : c.op \in NasEdits /\ c.ok /\ c.arg.id = x
  /\ \A c \in ToSet(cs) : c.op = "secret" /\ c.ok => c.arg \in DOMAIN nas /\ c.answer = nas[c.arg]

NasInv ==
  /\ page = "nas" /\ Frame
  /\ DOMAIN ui = {"view", "rows", "applied", "drawer", "ports", "secrets", "visible", "modal"}
  /\ IsRows(ui.rows) /\ DOMAIN ui.rows.of \subseteq Items
  /\ DOMAIN ui.secrets = Items /\ \A x \in ui.visible : ui.secrets[x] # NULL
  /\ DOMAIN db.nas \subseteq Items /\ \A x \in DOMAIN db.nas : db.nas[x] \in Nat
  /\ Listed(calls, ui.view, ui.rows.by, ui.applied, parted)
  /\ Single(calls, {"ports"})
  /\ ui.drawer # NULL /\ ~Has(calls, {"ports"}) => ui.ports \in {NULL, ui.drawer}
  /\ \A c \in ToSet(calls) : NasCall(c)
  /\ ~marred => /\ Kept(calls, NasEdits, ui.view, ui.rows.of, {}, NasRows)
                /\ NasSecrets(calls, ui.secrets, db.nas)

NasFields == {"view", "rows", "applied", "drawer", "ports", "secrets", "visible", "modal"}

\* What is read changes, and nothing else does.
LEMMA NasBeside ==
  ASSUME NasInv, Beside(calls, calls'), Frame', UNCHANGED <<page, db>>, ~marred' => ~marred,
         Listed(calls', ui'.view, ui'.rows.by, ui'.applied, parted'),
         DOMAIN ui' = DOMAIN ui, IsRows(ui'.rows), DOMAIN ui'.rows.of \subseteq Items,
         UNCHANGED <<ui.drawer, ui.ports, ui.secrets, ui.visible>>,
         ~marred' => Kept(calls', NasEdits, ui'.view, ui'.rows.of, {}, NasRows)
  PROVE  NasInv'
<1>1. Single(calls', {"ports"})
      /\ (Single(calls, NasEdits \cup {"secret"}) => Single(calls', NasEdits \cup {"secret"}))
  BY DEF Beside, NasInv, NasEdits
<1>2. \A c \in ToSet(calls') : c \in ToSet(calls) \/ (Reads(c) /\ ~c.ok)
  BY DEF Beside
<1>3. \A c \in ToSet(calls) : c \in ToSet(calls') \/ Reads(c)
  BY DEF Beside
<1>4. Has(calls, {"ports"}) => Has(calls', {"ports"})
  BY <1>3 DEF Has, Reads
<1>5. \A c \in ToSet(calls') : NasCall(c)'
  BY <1>2 DEF NasInv, NasCall, Reads
<1>6. ASSUME NasSecrets(calls, ui.secrets, db.nas)
      PROVE  NasSecrets(calls', ui'.secrets, db'.nas)
  <2>1. \A c \in ToSet(calls) : c.op \in NasEdits => c \in ToSet(calls')
    BY <1>3 DEF Reads, NasEdits
  <2>2. \A c \in ToSet(calls') : c.op = "secret" => c \in ToSet(calls)
    BY <1>2 DEF Reads
  <2> QED
    BY <1>1, <1>6, <2>1, <2>2 DEF NasSecrets
<1>7. UNCHANGED NasRows
  BY DEF NasRows
<1> QED
  BY <1>1, <1>4, <1>5, <1>6, <1>7 DEF NasInv

\* A call is sent that reads no rows.
LEMMA NasSend ==
  ASSUME NasInv, NEW r, Whole(r), ~r.ok, ~Reads(r), Len(calls) + 1 <= MaxCalls,
         calls' = Append(calls, r), Frame', UNCHANGED <<page, db, parted>>,
         ~marred' => ~marred /\ (r.op \in NasEdits \cup {"secret"} => calls = <<>>),
         DOMAIN ui' = DOMAIN ui,
         UNCHANGED <<ui.view, ui.rows, ui.applied, ui.ports, ui.secrets, ui.visible>>,
         IF r.op = "ports" THEN ui.drawer = NULL ELSE ui'.drawer = ui.drawer,
         r.op = "ports" => r.arg = ui'.drawer /\ ui'.drawer # NULL,
         r.op = "secret" => r.arg \in Items,
         r.op = "create" => r.arg.id \in Items
  PROVE  NasInv'
<1>1. Calls(calls) /\ Single(calls, {"ports"})
  BY DEF NasInv, Listed
<1>2. r.op = "ports" => ~Has(calls, {"ports"})
  BY DEF NasInv, NasCall, Has
<1>3. /\ ToSet(calls') = ToSet(calls) \cup {r} /\ Single(calls', {"ports"})
      /\ \A ops : Single(calls, ops) /\ (r.op \notin ops \/ ~Has(calls, ops)) => Single(calls', ops)
  BY <1>1, <1>2, Sends
<1>4. Listed(calls', ui.view, ui.rows.by, ui.applied, parted)
  BY ListedSends DEF NasInv, Reads
<1>5. ~marred' => Kept(calls', NasEdits, ui.view, ui.rows.of, {}, NasRows)
  BY <1>1, KeptSends DEF NasInv
<1>6. \A c \in ToSet(calls') : NasCall(c)'
  BY <1>2, <1>3 DEF NasInv, NasCall, Has
<1>7. ui'.drawer # NULL /\ ~Has(calls', {"ports"}) => ui'.ports \in {NULL, ui'.drawer}
  BY <1>3 DEF NasInv, Has
<1>8. ~marred' => NasSecrets(calls', ui.secrets, db.nas)
  <2> SUFFICES ASSUME ~marred'
               PROVE  NasSecrets(calls', ui.secrets, db.nas)
    OBVIOUS
  <2>1. NasSecrets(calls, ui.secrets, db.nas)
    BY DEF NasInv
  <2>2. r.op \notin NasEdits \cup {"secret"} \/ ~Has(calls, NasEdits \cup {"secret"})
    BY DEF Has, ToSet
  <2>3. Single(calls', NasEdits \cup {"secret"})
    BY <1>3, <2>1, <2>2 DEF NasSecrets
  <2> QED
    BY <1>3, <2>1, <2>3 DEF NasSecrets
<1>9. UNCHANGED NasRows
  BY DEF NasRows
<1> QED
  BY <1>3, <1>4, <1>5, <1>6, <1>7, <1>8, <1>9 DEF NasInv

\* Nothing is sent, and what is shown in front of the table changes.
LEMMA NasLooks ==
  ASSUME NasInv, UNCHANGED <<page, db, calls>>, Frame', ~marred' => ~marred, ~parted' => ~parted,
         DOMAIN ui' = DOMAIN ui, UNCHANGED <<ui.view, ui.rows, ui.drawer, ui.ports, ui.secrets>>,
         ~parted' => ui'.applied = ui.applied,
         \A x \in ui'.visible : ui.secrets[x] # NULL
  PROVE  NasInv'
<1>1. Listed(calls, ui.view, ui.rows.by, ui'.applied, parted')
  BY DEF Listed, NasInv
<1>2. UNCHANGED NasRows
  BY DEF NasRows
<1>3. \A c \in ToSet(calls) : NasCall(c)'
  BY DEF NasInv, NasCall
<1> QED
  BY <1>1, <1>2, <1>3 DEF NasInv

LEMMA NasClicks ==
  ASSUME NasInv, NasClick
  PROVE  NasInv'
<1>0. /\ Calls(calls) /\ Len(calls) \in Nat /\ Frame
      /\ Single(calls, {"ports"}) /\ Single(calls, {"load"})
      /\ Listed(calls, ui.view, ui.rows.by, ui.applied, parted)
      /\ DOMAIN ui = NasFields
  BY DEF NasInv, Listed, Calls, NasFields
<1>1. ASSUME NEW f, NEW to, calls' = SetView(Append(calls, Request("list", f)), "loading"),
             Listed(calls', "loading", ui.rows.by, to, parted'), Frame', UNCHANGED <<page, db, marred>>,
             DOMAIN ui' = DOMAIN ui, ui'.view = "loading", ui'.applied = to,
             UNCHANGED <<ui.rows, ui.drawer, ui.ports, ui.secrets, ui.visible>>
      PROVE  NasInv'
  <2>1. Beside(calls, calls')
    BY <1>0, <1>1, BesideRefetch
  <2>2. Kept(calls', NasEdits, "loading", ui.rows.of, {}, NasRows)
    <3>1. "load" \notin NasEdits
      BY DEF NasEdits
    <3> QED
      BY <1>0, <1>1, <3>1, KeptRefetch
  <2>3. IsRows(ui'.rows) /\ DOMAIN ui'.rows.of \subseteq Items
    BY <1>1 DEF NasInv
  <2> QED
    BY <1>1, <2>1, <2>2, <2>3, NasBeside
<1>2. ASSUME NEW f, ui' = [ui EXCEPT !.applied = f, !.view = "loading"], Refetch(f)
      PROVE  NasInv'
  <2>1. DOMAIN ui' = DOMAIN ui /\ ui'.view = "loading" /\ ui'.applied = f
        /\ UNCHANGED <<ui.rows, ui.drawer, ui.ports, ui.secrets, ui.visible>>
    BY <1>0, <1>2 DEF NasFields
  <2>2. /\ Frame' /\ UNCHANGED <<page, db, marred>>
        /\ calls' = SetView(Append(calls, Request("list", f)), "loading")
        /\ Listed(calls', "loading", ui.rows.by, f, parted')
    BY <1>0, <1>2, Refetches
  <2> QED
    BY <1>1, <2>1, <2>2
<1>3. CASE ClearNasFilters
  <2>1. parted' = TRUE /\ UNCHANGED <<calls, marred>> /\ Click
    BY <1>3 DEF ClearNasFilters
  <2>2. Frame' /\ UNCHANGED <<page, db>>
    BY <1>0, <2>1, Frames DEF Frame
  <2>3. DOMAIN ui' = DOMAIN ui
        /\ UNCHANGED <<ui.view, ui.rows, ui.drawer, ui.ports, ui.secrets, ui.visible>>
    BY <1>0, <1>3 DEF ClearNasFilters, NasFields
  <2> QED
    BY <2>1, <2>2, <2>3, NasLooks DEF NasInv
<1>4. CASE NasRetry
  <2>1. DOMAIN ui' = DOMAIN ui /\ ui'.view = "loading"
        /\ UNCHANGED <<ui.rows, ui.applied, ui.drawer, ui.ports, ui.secrets, ui.visible>>
    BY <1>0, <1>4 DEF NasRetry, NasFields
  <2>2. parted' \in BOOLEAN /\ (~parted' => ui.applied = Everything)
    BY <1>0, <1>4 DEF NasRetry, ReloadNas, Unfiltered, Frame
  <2>3. calls' = SetView(Append(calls, Request("list", Everything)), "loading")
        /\ Len(calls) + 2 <= MaxCalls
    BY <1>4 DEF NasRetry, ReloadNas, Room
  <2>4. Len(calls) + 1 <= MaxCalls + (IF ui.view = "loading" THEN 1 ELSE 0)
    BY <1>0, <2>3, MaxCallsNat
  <2>5. Frame' /\ UNCHANGED <<page, db, marred>>
    BY <1>0, <1>4, <2>2, Frames DEF NasRetry, Frame
  <2>6. Listed(calls', "loading", ui.rows.by, ui.applied, parted')
    BY <1>0, <2>2, <2>3, <2>4, ListedRefetch
  <2> QED
    BY <1>1, <2>1, <2>3, <2>5, <2>6
<1>5. CASE OpenNas
  <2>1. PICK x \in Shown : /\ ui' = [ui EXCEPT !.drawer = x]
                           /\ calls' = Append(calls, Request("ports", x))
    BY <1>5 DEF OpenNas
  <2> DEFINE r == Request("ports", x)
  <2>2. Whole(r) /\ r.op = "ports" /\ r.arg = x /\ ~r.ok /\ ~Reads(r)
    BY WholeRequest DEF Reads
  <2>3. x \in Items /\ x # NULL
    BY NullAssumption, TablesAssumption DEF Shown, NasInv, Items
  <2>4. Frame' /\ UNCHANGED <<page, db, parted, marred>>
    BY <1>0, <1>5, Frames DEF OpenNas
  <2>5. DOMAIN ui' = DOMAIN ui /\ ui'.drawer = x
        /\ UNCHANGED <<ui.view, ui.rows, ui.applied, ui.ports, ui.secrets, ui.visible>>
    BY <1>0, <2>1 DEF NasFields
  <2>6. ui.drawer = NULL /\ Len(calls) + 1 <= MaxCalls
    BY <1>5 DEF OpenNas, NasIdle, Room
  <2> HIDE DEF r
  <2>7. calls' = Append(calls, r) /\ r.op \notin NasEdits \cup {"secret"}
    BY <2>1, <2>2 DEF r, NasEdits
  <2> QED
    BY <2>2, <2>3, <2>4, <2>5, <2>6, <2>7, NasSend
<1>6. CASE CloseNas
  <2>1. Frame' /\ UNCHANGED <<page, db, parted, marred>> /\ calls' = Cancel(calls, "ports")
    BY <1>0, <1>6, Frames DEF CloseNas
  <2>2. DOMAIN ui' = DOMAIN ui /\ ui'.drawer = NULL
        /\ UNCHANGED <<ui.view, ui.rows, ui.applied, ui.ports, ui.secrets, ui.visible>>
    BY <1>0, <1>6 DEF CloseNas, NasFields
  <2>3. /\ ToSet(calls') = {c \in ToSet(calls) : c.op # "ports"}
        /\ \A ops : Single(calls, ops) => Single(calls', ops)
    BY <1>0, <2>1, Cancels
  <2>4. Listed(calls', ui.view, ui.rows.by, ui.applied, parted)
    BY <1>0, <2>1, ListedCancels
  <2>5. ~marred => Kept(calls', NasEdits, ui.view, ui.rows.of, {}, NasRows)
    <3>1. "ports" \notin NasEdits
      BY DEF NasEdits
    <3> QED
      BY <1>0, <2>1, <3>1, KeptCancels DEF NasInv
  <2>6. \A c \in ToSet(calls') : NasCall(c)'
    BY <2>2, <2>3 DEF NasInv, NasCall
  <2>7. NasSecrets(calls, ui.secrets, db.nas) => NasSecrets(calls', ui.secrets, db.nas)
    BY <2>3 DEF NasSecrets, NasEdits
  <2>8. UNCHANGED NasRows
    BY <2>1 DEF NasRows
  <2> QED
    BY <1>0, <2>1, <2>2, <2>3, <2>4, <2>5, <2>6, <2>7, <2>8 DEF NasInv
<1>7. CASE ToggleSecret
  <2>1. PICK x \in Shown :
          \/ /\ x \in ui.visible
             /\ ui' = [ui EXCEPT !.visible = @ \ {x}] /\ UNCHANGED calls
          \/ /\ x \notin ui.visible /\ ui.secrets[x] # NULL
             /\ ui' = [ui EXCEPT !.visible = @ \cup {x}] /\ UNCHANGED calls
          \/ /\ x \notin ui.visible /\ ui.secrets[x] = NULL
             /\ calls' = Append(calls, Request("secret", x)) /\ UNCHANGED ui
    BY <1>7 DEF ToggleSecret
  <2>2. Frame' /\ UNCHANGED <<page, db, parted>> /\ (~marred' => ~marred /\ calls = <<>>)
    BY <1>0, <1>7, Frames DEF ToggleSecret
  <2>3. CASE calls' = Append(calls, Request("secret", x)) /\ UNCHANGED ui
    <3> DEFINE r == Request("secret", x)
    <3>1. Whole(r) /\ r.op = "secret" /\ r.arg = x /\ ~r.ok /\ ~Reads(r)
      BY WholeRequest DEF Reads
    <3>2. x \in Items /\ Len(calls) + 1 <= MaxCalls
      BY <1>7 DEF Shown, NasInv, ToggleSecret, Room
    <3> HIDE DEF r
    <3>3. calls' = Append(calls, r)
      BY <2>3 DEF r
    <3> QED
      BY <2>2, <2>3, <3>1, <3>2, <3>3, NasSend
  <2>4. CASE UNCHANGED calls
    <3>1. DOMAIN ui' = DOMAIN ui
          /\ UNCHANGED <<ui.view, ui.rows, ui.applied, ui.drawer, ui.ports, ui.secrets>>
      BY <1>0, <2>1 DEF NasFields
    <3>2. \A y \in ui'.visible : ui.secrets[y] # NULL
      BY <1>0, <2>1 DEF NasFields, NasInv
    <3> QED
      BY <2>2, <2>4, <3>1, <3>2, NasLooks
  <2> QED
    BY <2>1, <2>3, <2>4
<1>8. CASE OpenNasDialog \/ CloseNasDialog
  <2>1. Frame' /\ UNCHANGED <<page, db, parted, marred, calls>>
    BY <1>0, <1>8, Frames DEF OpenNasDialog, CloseNasDialog
  <2>2. DOMAIN ui' = DOMAIN ui
        /\ UNCHANGED <<ui.view, ui.rows, ui.applied, ui.drawer, ui.ports, ui.secrets, ui.visible>>
    BY <1>0, <1>8 DEF OpenNasDialog, CloseNasDialog, NasFields
  <2> QED
    BY <2>1, <2>2, NasLooks DEF NasInv
<1>9. CASE SubmitNas
  <2>1. \E op \in NasEdits : \E x : \E typed :
           /\ calls' = Append(calls, Request(op, [id |-> x, typed |-> typed]))
           /\ op = "create" => x \in Items
    BY <1>9 DEF SubmitNas, NasEdits
  <2>2. PICK op \in NasEdits : \E x : \E typed :
           /\ calls' = Append(calls, Request(op, [id |-> x, typed |-> typed]))
           /\ op = "create" => x \in Items
    BY <2>1
  <2>3. PICK x, typed : /\ calls' = Append(calls, Request(op, [id |-> x, typed |-> typed]))
                        /\ op = "create" => x \in Items
    BY <2>2
  <2> DEFINE a == [id |-> x, typed |-> typed]
             r == Request(op, a)
  <2>4. a.id = x
    OBVIOUS
  <2> HIDE DEF a
  <2>5. Whole(r) /\ r.op = op /\ r.arg = a /\ ~r.ok
    BY WholeRequest
  <2> HIDE DEF r
  <2>6. calls' = Append(calls, r)
    BY <2>3 DEF a, r
  <2>7. ~Reads(r) /\ r.op \notin {"ports", "secret"} /\ (r.op = "create" => r.arg.id \in Items)
    BY <2>3, <2>4, <2>5 DEF Reads, NasEdits
  <2>8. Frame' /\ UNCHANGED <<page, db, parted>> /\ (~marred' => ~marred /\ calls = <<>>)
    BY <1>0, <1>9, Frames DEF SubmitNas
  <2>9. DOMAIN ui' = DOMAIN ui
        /\ UNCHANGED <<ui.view, ui.rows, ui.applied, ui.drawer, ui.ports, ui.secrets, ui.visible>>
    BY <1>0, <1>9 DEF SubmitNas, NasFields
  <2>10. Len(calls) + 1 <= MaxCalls
    BY <1>9 DEF SubmitNas, Room
  <2> QED
    BY <2>5, <2>6, <2>7, <2>8, <2>9, <2>10, NasSend
<1> QED
  BY <1>2, <1>3, <1>4, <1>5, <1>6, <1>7, <1>8, <1>9 DEF NasClick, ApplyNasFilters, ResetNasFilters

LEMMA NasAnswers ==
  ASSUME NasInv, NEW i \in DOMAIN calls, ServeNas(i) \/ Lose(i)
  PROVE  NasInv'
<1>0. /\ Calls(calls) /\ Frame /\ Single(calls, {"ports"}) /\ calls[i] \in ToSet(calls)
      /\ Listed(calls, ui.view, ui.rows.by, ui.applied, parted)
      /\ calls[i].pc = "sent" => ~calls[i].ok
  BY SentCalls DEF NasInv, Listed
<1>1. ASSUME NEW ok \in BOOLEAN, NEW answer, calls' = Answering(calls, i, ok, answer),
             Frame', UNCHANGED <<page, ui, parted>>,
             calls[i].op \in ReadsOpen /\ ok => IsRows(answer) /\ answer.by = calls[i].arg,
             Reads(calls[i]) /\ ok => DOMAIN answer.of \subseteq Items,
             calls[i].op = "secret" /\ ok => answer \in Nat,
             DOMAIN db'.nas \subseteq Items, \A x \in DOMAIN db'.nas : db'.nas[x] \in Nat,
             ~marred' => /\ ~marred /\ Kept(calls', NasEdits, ui.view, ui.rows.of, {}, NasRows')
                         /\ NasSecrets(calls', ui.secrets, db'.nas)
      PROVE  NasInv'
  <2>1. /\ calls'[i].op = calls[i].op /\ calls'[i].arg = calls[i].arg
        /\ calls'[i].ok = ok /\ calls'[i].answer = answer
        /\ ToSet(calls') \subseteq ToSet(calls) \cup {calls'[i]}
        /\ Has(calls', {"ports"}) <=> Has(calls, {"ports"})
        /\ Single(calls', {"ports"})
    BY <1>0, <1>1, Answers
  <2>2. Listed(calls', ui.view, ui.rows.by, ui.applied, parted)
    BY <1>0, <1>1, ListedAnswers
  <2>3. \A c : c = calls'[i] => NasCall(c)'
    BY <1>0, <1>1, <2>1 DEF NasInv, NasCall, Reads
  <2>4. \A c \in ToSet(calls) : NasCall(c)'
    BY <1>1 DEF NasInv, NasCall
  <2>5. \A c \in ToSet(calls') : NasCall(c)'
    BY <2>1, <2>3, <2>4
  <2> QED
    BY <1>0, <1>1, <2>1, <2>2, <2>5 DEF NasInv
<1>2. ASSUME NEW ok \in BOOLEAN, NEW answer, calls' = Answering(calls, i, ok, answer),
             Frame', UNCHANGED <<page, ui, parted, db>>,
             ~marred' => ~marred /\ ~calls[i].ok,
             calls[i].op \in ReadsOpen /\ ok => IsRows(answer) /\ answer.by = calls[i].arg,
             Reads(calls[i]) /\ ok => GoodRows(answer.of, {}, NasRows),
             calls[i].op = "secret" /\ ok =>
               calls[i].arg \in DOMAIN db.nas /\ answer = db.nas[calls[i].arg]
      PROVE  NasInv'
  <2>1. Reads(calls[i]) /\ ok => DOMAIN answer.of \subseteq Items
    BY <1>2 DEF GoodRows, NasRows, NasInv
  <2>2. calls[i].op = "secret" /\ ok => answer \in Nat
    BY <1>2 DEF NasInv
  <2>3. ASSUME ~marred'
        PROVE  /\ ~marred /\ Kept(calls', NasEdits, ui.view, ui.rows.of, {}, NasRows)
               /\ NasSecrets(calls', ui.secrets, db.nas)
    <3>1. ~marred /\ ~calls[i].ok
      BY <1>2, <2>3
    <3>2. Kept(calls', NasEdits, ui.view, ui.rows.of, {}, NasRows)
      BY <1>0, <1>2, <3>1, KeptAnswers DEF NasInv
    <3>3. NasSecrets(calls, ui.secrets, db.nas)
      BY <3>1 DEF NasInv
    <3>4. /\ calls'[i].op = calls[i].op /\ calls'[i].arg = calls[i].arg
          /\ calls'[i].ok = ok /\ calls'[i].answer = answer
          /\ ToSet(calls') \subseteq ToSet(calls) \cup {calls'[i]}
          /\ ToSet(calls) \subseteq ToSet(calls') \cup {calls[i]}
          /\ \A ops : Single(calls, ops) => Single(calls', ops)
      BY <1>0, <1>2, Answers
    <3>5. NasSecrets(calls', ui.secrets, db.nas)
      <4>1. Single(calls', NasEdits \cup {"secret"})
        BY <3>3, <3>4 DEF NasSecrets
      <4>2. \A c \in ToSet(calls) : c.ok => c \in ToSet(calls')
        BY <3>1, <3>4
      <4>3. \A x \in DOMAIN db.nas : ui.secrets[x] # NULL =>
               \/ ui.secrets[x] = db.nas[x]
               \/ \E c \in ToSet(calls') : c.op \in NasEdits /\ c.ok /\ c.arg.id = x
        BY <3>3, <4>2 DEF NasSecrets
      <4>4. \A c \in ToSet(calls') : c.op = "secret" /\ c.ok =>
               c.arg \in DOMAIN db.nas /\ c.answer = db.nas[c.arg]
        BY <1>2, <3>3, <3>4 DEF NasSecrets
      <4> QED
        BY <4>1, <4>3, <4>4 DEF NasSecrets
    <3> QED
      BY <3>1, <3>2, <3>5
  <2>4. UNCHANGED NasRows /\ DOMAIN db.nas \subseteq Items /\ \A x \in DOMAIN db.nas : db.nas[x] \in Nat
    BY <1>2 DEF NasRows, NasInv
  <2> QED
    BY <1>1, <1>2, <2>1, <2>2, <2>3, <2>4
<1>3. CASE Lose(i)
  <2>1. /\ Frame' /\ UNCHANGED <<page, ui, db, parted>> /\ calls' = Answering(calls, i, FALSE, NULL)
        /\ ~marred' => ~marred /\ calls[i].pc = "sent"
    BY <1>0, <1>3, Loses
  <2> QED
    BY <1>0, <1>2, <2>1
<1>4. ASSUME NEW ok \in BOOLEAN, NEW answer, Answered(i, ok, answer, db),
             calls[i].op \in ReadsOpen /\ ok => IsRows(answer) /\ answer.by = calls[i].arg,
             Reads(calls[i]) /\ ok => GoodRows(answer.of, {}, NasRows),
             calls[i].op = "secret" /\ ok =>
               calls[i].arg \in DOMAIN db.nas /\ answer = db.nas[calls[i].arg]
      PROVE  NasInv'
  <2>1. /\ Frame' /\ UNCHANGED <<page, ui, parted, marred, db>> /\ calls[i].pc = "sent"
        /\ calls' = Answering(calls, i, ok, answer)
    BY <1>0, <1>4, IsAnswered
  <2>2. ~calls[i].ok
    BY <1>0, <2>1
  <2> QED
    BY <1>2, <1>4, <2>1, <2>2
<1>5. ASSUME NEW nas, NEW after, after.nas = nas, Answered(i, TRUE, NULL, after),
             calls[i].op \in NasEdits, calls[i].arg.id \in Items,
             DOMAIN nas \subseteq DOMAIN db.nas \cup {calls[i].arg.id},
             \A x \in DOMAIN nas : nas[x] \in Nat /\ (x # calls[i].arg.id => nas[x] = db.nas[x])
      PROVE  NasInv'
  <2>1. /\ Frame' /\ UNCHANGED <<page, ui, parted, marred>> /\ db' = after
        /\ calls' = Answering(calls, i, TRUE, NULL)
    BY <1>0, <1>5, IsAnswered
  <2>2. ~Reads(calls[i]) /\ calls[i].op \notin ReadsOpen /\ calls[i].op # "secret"
    BY <1>5 DEF Reads, ReadsOpen, NasEdits
  <2>3. DOMAIN db'.nas \subseteq Items /\ \A x \in DOMAIN db'.nas : db'.nas[x] \in Nat
    BY <1>5, <2>1 DEF NasInv
  <2>4. ASSUME ~marred
        PROVE  NasSecrets(calls', ui.secrets, db'.nas)
    <3>1. NasSecrets(calls, ui.secrets, db.nas)
      BY <2>4 DEF NasInv
    <3>2. \A ok \in BOOLEAN :
            LET d == Answering(calls, i, ok, NULL) IN
            /\ d[i].op = calls[i].op /\ d[i].arg = calls[i].arg /\ d[i].ok = ok
            /\ d[i] \in ToSet(d)
            /\ ToSet(d) \subseteq ToSet(calls) \cup {d[i]}
            /\ ToSet(calls) \subseteq ToSet(d) \cup {calls[i]}
            /\ \A ops : Single(calls, ops) => Single(d, ops)
      BY <1>0, Answers
    <3>3. /\ calls'[i].op = calls[i].op /\ calls'[i].arg = calls[i].arg /\ calls'[i].ok
          /\ calls'[i] \in ToSet(calls')
          /\ ToSet(calls') \subseteq ToSet(calls) \cup {calls'[i]}
          /\ ToSet(calls) \subseteq ToSet(calls') \cup {calls[i]}
          /\ \A ops : Single(calls, ops) => Single(calls', ops)
      BY <2>1, <3>2
    <3>4. Single(calls', NasEdits \cup {"secret"})
      BY <3>1, <3>3 DEF NasSecrets
    <3>5. \A c \in ToSet(calls') : c.op # "secret"
      <4>1. \A c \in ToSet(calls) : c.op \in NasEdits \cup {"secret"} => c = calls[i]
        BY <1>5, <3>1 DEF NasSecrets, Single, ToSet
      <4> QED
        BY <2>2, <3>3, <4>1
    <3>6. ASSUME NEW x \in DOMAIN nas, ui.secrets[x] # NULL, ui.secrets[x] # nas[x]
          PROVE  \E c \in ToSet(calls') : c.op \in NasEdits /\ c.ok /\ c.arg.id = x
      <4>1. CASE x = calls[i].arg.id
        BY <1>5, <3>3, <4>1
      <4>2. CASE x # calls[i].arg.id
        <5>1. x \in DOMAIN db.nas /\ ui.secrets[x] # db.nas[x]
          BY <1>5, <3>6, <4>2
        <5>2. PICK c \in ToSet(calls) : c.op \in NasEdits /\ c.ok /\ c.arg.id = x
          BY <3>1, <3>6, <5>1 DEF NasSecrets
        <5>3. c # calls[i]
          BY <4>2, <5>2
        <5> QED
          BY <3>3, <5>2, <5>3
      <4> QED
        BY <4>1, <4>2
    <3> QED
      BY <1>5, <2>1, <3>4, <3>5, <3>6 DEF NasSecrets
  <2>5. ~marred => Kept(calls', NasEdits, ui.view, ui.rows.of, {}, NasRows')
    BY <1>0, <1>5, <2>1, KeptActs
  <2> QED
    BY <1>1, <2>1, <2>2, <2>3, <2>4, <2>5
<1>6. CASE calls[i].op \in {"load", "list"} /\ Answered(i, TRUE, Listing(calls[i].arg, NasRows), db)
  <2>1. calls[i].op # "secret"
    BY <1>6
  <2> QED
    BY <1>4, <1>6, <2>1, KeptLists
<1>7. CASE Refuse(i)
  BY <1>4, <1>7 DEF Refuse
<1>8. CASE calls[i].op = "ports" /\ Answered(i, calls[i].arg \in DOMAIN db.nas, NULL, db)
  <2>1. calls[i].op \notin ReadsOpen /\ ~Reads(calls[i]) /\ calls[i].op # "secret"
    BY <1>8 DEF ReadsOpen, Reads
  <2>2. (calls[i].arg \in DOMAIN db.nas) \in BOOLEAN
    OBVIOUS
  <2> QED
    BY <1>4, <1>8, <2>1, <2>2
<1>9. CASE calls[i].op = "secret" /\ calls[i].arg \in DOMAIN db.nas
           /\ Answered(i, TRUE, db.nas[calls[i].arg], db)
  <2>1. calls[i].op \notin ReadsOpen /\ ~Reads(calls[i])
    BY <1>9 DEF ReadsOpen, Reads
  <2> QED
    BY <1>4, <1>9, <2>1
<1> DEFINE id == calls[i].arg.id
           put == [nas |-> [y \in DOMAIN db.nas \cup {id} |-> IF y = id THEN clicks ELSE db.nas[y]]]
           gone == [nas |-> Restrict(db.nas, DOMAIN db.nas \ {id})]
<1>10. ASSUME Answered(i, TRUE, NULL, put), calls[i].op \in NasEdits, id \in Items
       PROVE  NasInv'
  <2>1. /\ DOMAIN put.nas = DOMAIN db.nas \cup {id}
        /\ \A x \in DOMAIN put.nas : put.nas[x] = IF x = id THEN clicks ELSE db.nas[x]
    OBVIOUS
  <2>2. \A x \in DOMAIN put.nas : put.nas[x] \in Nat
    BY <1>0, <2>1 DEF NasInv, Frame
  <2> HIDE DEF put
  <2> QED
    BY <1>5, <1>10, <2>1, <2>2
<1>11. ASSUME Answered(i, TRUE, NULL, gone), calls[i].op \in NasEdits, id \in Items
       PROVE  NasInv'
  <2>1. /\ DOMAIN gone.nas = DOMAIN db.nas \ {id}
        /\ \A x \in DOMAIN gone.nas : gone.nas[x] = db.nas[x]
    BY DEF Restrict
  <2>2. \A x \in DOMAIN gone.nas : gone.nas[x] \in Nat
    BY <2>1 DEF NasInv
  <2> HIDE DEF gone
  <2> QED
    BY <1>5, <1>11, <2>1, <2>2
<1>12. ASSUME Answered(i, TRUE, NULL, db), calls[i].op \in NasEdits, id \in Items
       PROVE  NasInv'
  BY <1>5, <1>12 DEF NasInv
<1>13. calls[i].op = "create" => id \in Items
  BY <1>0 DEF NasInv, NasCall
<1>14. id \in DOMAIN db.nas => id \in Items
  BY DEF NasInv
<1>15. ServeNas(i) =>
         \/ calls[i].op \in {"load", "list"} /\ Answered(i, TRUE, Listing(calls[i].arg, NasRows), db)
         \/ Refuse(i)
         \/ calls[i].op = "ports" /\ Answered(i, calls[i].arg \in DOMAIN db.nas, NULL, db)
         \/ /\ calls[i].op = "secret" /\ calls[i].arg \in DOMAIN db.nas
            /\ Answered(i, TRUE, db.nas[calls[i].arg], db)
         \/ /\ calls[i].op = "create" \/ id \in DOMAIN db.nas
            /\ calls[i].op \in NasEdits
            /\ Answered(i, TRUE, NULL, put) \/ Answered(i, TRUE, NULL, gone) \/ Answered(i, TRUE, NULL, db)
  BY DEF ServeNas, NasRows, NasEdits
<1> HIDE DEF id, put, gone
<1> QED
  BY <1>3, <1>6, <1>7, <1>8, <1>9, <1>10, <1>11, <1>12, <1>13, <1>14, <1>15

LEMMA NasReceives ==
  ASSUME NasInv, NEW i \in DOMAIN calls, NasReceive(i)
  PROVE  NasInv'
<1>0. /\ Calls(calls) /\ Frame /\ Single(calls, {"ports"}) /\ Single(calls, {"load"})
      /\ calls[i] \in ToSet(calls) /\ calls[i].ok \in BOOLEAN /\ IsRows(ui.rows)
      /\ Listed(calls, ui.view, ui.rows.by, ui.applied, parted)
      /\ DOMAIN ui = NasFields
  BY SentCalls DEF NasInv, Listed, NasFields
<1>1. CASE ReceiveRows(i)
  <2>1. /\ Frame' /\ UNCHANGED <<page, db>> /\ IsRows(ui'.rows)
        /\ Listed(calls', ui'.view, ui'.rows.by, ui'.applied, parted')
        /\ DOMAIN ui' = DOMAIN ui /\ \A field \in DOMAIN ui \ {"view", "rows"} : ui'[field] = ui[field]
    BY <1>0, <1>1, RowsReceived DEF NasFields
  <2>2. UNCHANGED <<ui.drawer, ui.ports, ui.secrets, ui.visible>>
    BY <1>0, <2>1 DEF NasFields
  <2>3. Beside(calls, calls')
    BY <1>0, <1>1, BesideShown
  <2>4. DOMAIN ui'.rows.of \subseteq Items
    <3>1. ui'.rows = IF calls[i].ok THEN calls[i].answer ELSE ui.rows
      BY <1>0, <1>1 DEF ReceiveRows, NasFields
    <3>2. Reads(calls[i]) /\ NasCall(calls[i])
      BY <1>0, <1>1 DEF ReceiveRows, Reads, NasInv
    <3> QED
      BY <3>1, <3>2 DEF NasInv, NasCall
  <2>5. ~marred' => ~marred
    BY <1>0, <1>1 DEF ReceiveRows, Frame
  <2>6. ASSUME ~marred'
        PROVE  Kept(calls', NasEdits, ui'.view, ui'.rows.of, {}, NasRows)
    <3>1. ~marred /\ {"view", "rows"} \subseteq DOMAIN ui
      BY <1>0, <2>5, <2>6 DEF NasFields
    <3>2. NasEdits \cap {"load", "list"} = {}
      BY DEF NasEdits
    <3> QED
      BY <1>0, <1>1, <2>6, <3>1, <3>2, KeptShown DEF NasInv
  <2> QED
    BY <2>1, <2>2, <2>3, <2>4, <2>5, <2>6, NasBeside
<1> DEFINE cs == RemoveAt(calls, i)
<1>2. /\ Calls(cs) /\ Len(cs) = Len(calls) - 1 /\ Len(calls) \in Nat
      /\ ToSet(cs) \subseteq ToSet(calls) /\ ToSet(calls) \subseteq ToSet(cs) \cup {calls[i]}
      /\ \A ops : Single(calls, ops) => Single(cs, ops)
      /\ calls[i].op = "ports" => ~Has(cs, {"ports"})
  BY <1>0, Ends
<1> HIDE DEF cs
<1>3. CASE ReceivePorts(i)
  <2>1. Frame' /\ UNCHANGED <<page, db, parted, marred>> /\ calls' = cs /\ calls[i].op = "ports"
    BY <1>0, <1>3, Frames DEF ReceivePorts, Frame, cs
  <2>2. DOMAIN ui' = DOMAIN ui
        /\ UNCHANGED <<ui.view, ui.rows, ui.applied, ui.drawer, ui.secrets, ui.visible>>
        /\ ui'.ports \in {NULL, calls[i].arg}
    BY <1>0, <1>3 DEF ReceivePorts, NasFields
  <2>3. Listed(calls', ui.view, ui.rows.by, ui.applied, parted)
    BY <1>0, <2>1, ListedEnds DEF cs
  <2>4. ASSUME ~marred
        PROVE  /\ Kept(calls', NasEdits, ui.view, ui.rows.of, {}, NasRows)
               /\ NasSecrets(calls', ui.secrets, db.nas)
    <3>1. calls[i].op \notin NasEdits \cup {"secret"} /\ ~Reads(calls[i])
      BY <2>1 DEF NasEdits, Reads
    <3>2. Kept(calls', NasEdits, ui.view, ui.rows.of, {}, NasRows)
      BY <1>0, <2>1, <2>4, <3>1, KeptEnds DEF NasInv, cs
    <3>3. NasSecrets(calls, ui.secrets, db.nas)
      BY <2>4 DEF NasInv
    <3>4. NasSecrets(calls', ui.secrets, db.nas)
      BY <1>2, <2>1, <3>1, <3>3 DEF NasSecrets
    <3> QED
      BY <3>2, <3>4
  <2>5. ui'.ports \in {NULL, ui.drawer}
    BY <1>0, <2>1, <2>2 DEF NasInv, NasCall
  <2>6. \A c \in ToSet(calls') : NasCall(c)'
    BY <1>2, <2>1, <2>2 DEF NasInv, NasCall
  <2>7. UNCHANGED NasRows
    BY <2>1 DEF NasRows
  <2> QED
    BY <1>0, <1>2, <2>1, <2>2, <2>3, <2>4, <2>5, <2>6, <2>7 DEF NasInv
\* A call ends that sends nothing after it.
<1>4. ASSUME calls' = cs, ~Reads(calls[i]), calls[i].op # "ports",
             ~(calls[i].op \in NasEdits /\ calls[i].ok),
             Frame', UNCHANGED <<page, db, parted>>, ~marred' => ~marred, DOMAIN ui' = DOMAIN ui,
             UNCHANGED <<ui.view, ui.rows, ui.applied, ui.drawer, ui.ports>>,
             DOMAIN ui'.secrets = Items, \A x \in ui'.visible : ui'.secrets[x] # NULL,
             ~marred => \A x \in DOMAIN db.nas :
                          ui'.secrets[x] = ui.secrets[x] \/ ui'.secrets[x] = db.nas[x]
      PROVE  NasInv'
  <2>1. Listed(calls', ui.view, ui.rows.by, ui.applied, parted)
    BY <1>0, <1>4, ListedEnds DEF cs, Reads
  <2>2. ASSUME ~marred
        PROVE  /\ Kept(calls', NasEdits, ui.view, ui.rows.of, {}, NasRows)
               /\ NasSecrets(calls', ui'.secrets, db.nas)
    <3>1. Kept(calls', NasEdits, ui.view, ui.rows.of, {}, NasRows)
      BY <1>0, <1>4, <2>2, KeptEnds DEF NasInv, cs
    <3>2. NasSecrets(calls, ui.secrets, db.nas)
      BY <2>2 DEF NasInv
    <3>3. \A c \in ToSet(calls) : c.op \in NasEdits /\ c.ok => c \in ToSet(calls')
      BY <1>2, <1>4
    <3>4. NasSecrets(calls', ui'.secrets, db.nas)
      BY <1>2, <1>4, <2>2, <3>2, <3>3 DEF NasSecrets
    <3> QED
      BY <3>1, <3>4
  <2>3. \A c \in ToSet(calls') : NasCall(c)'
    BY <1>2, <1>4 DEF NasInv, NasCall
  <2>4. UNCHANGED NasRows
    BY <1>4 DEF NasRows
  <2>5. Has(calls, {"ports"}) => Has(calls', {"ports"})
    BY <1>2, <1>4 DEF Has
  <2>6. Single(calls', {"ports"})
    BY <1>0, <1>2, <1>4
  <2> QED
    BY <1>0, <1>4, <2>1, <2>2, <2>3, <2>4, <2>5, <2>6 DEF NasInv
<1>5. CASE ReceiveSecret(i)
  <2>1. Frame' /\ UNCHANGED <<page, db, parted, marred>> /\ calls' = cs /\ calls[i].op = "secret"
    BY <1>0, <1>5, Frames DEF ReceiveSecret, Frame, cs
  <2>2. ~Reads(calls[i]) /\ calls[i].op # "ports" /\ calls[i].op \notin NasEdits
    BY <2>1 DEF Reads, NasEdits
  <2>3. calls[i].arg \in Items /\ (calls[i].ok => calls[i].answer \in Nat)
        /\ (calls[i].ok => calls[i].answer # NULL)
    BY <1>0, <2>1, NullAssumption DEF NasInv, NasCall
  <2> DEFINE x == calls[i].arg
             v == calls[i].answer
  <2>4. CASE calls[i].ok
    <3>1. ui' = [ui EXCEPT !.secrets[x] = v, !.visible = @ \cup {x}]
      BY <1>5, <2>4 DEF ReceiveSecret
    <3>2. x \in Items /\ v # NULL
      BY <2>3, <2>4
    <3>3. ~marred => x \in DOMAIN db.nas /\ v = db.nas[x]
      BY <1>0, <2>1, <2>4 DEF NasInv, NasSecrets
    <3> HIDE DEF x, v
    <3>4. DOMAIN ui' = DOMAIN ui /\ UNCHANGED <<ui.view, ui.rows, ui.applied, ui.drawer, ui.ports>>
          /\ ui'.secrets = [ui.secrets EXCEPT ![x] = v] /\ ui'.visible = ui.visible \cup {x}
      BY <1>0, <3>1 DEF NasFields
    <3>5. DOMAIN ui'.secrets = Items
          /\ \A y \in Items : ui'.secrets[y] = IF y = x THEN v ELSE ui.secrets[y]
      BY <3>2, <3>4 DEF NasInv
    <3>6. ui.visible \subseteq Items => \A y \in ui'.visible : ui'.secrets[y] # NULL
      BY <3>2, <3>4, <3>5 DEF NasInv
    <3>7. \A y \in ui.visible : y # x => ui'.secrets[y] = ui.secrets[y]
      BY <3>4
    <3>8. \A y \in ui'.visible : ui'.secrets[y] # NULL
      BY <3>2, <3>4, <3>5, <3>7 DEF NasInv
    <3>9. DOMAIN db.nas \subseteq Items
      BY DEF NasInv
    <3> QED
      BY <1>4, <2>1, <2>2, <3>3, <3>4, <3>5, <3>8, <3>9
  <2>5. CASE ~calls[i].ok
    <3>1. ui' = ui
      BY <1>5, <2>5 DEF ReceiveSecret
    <3> QED
      BY <1>4, <2>1, <2>2, <3>1 DEF NasInv
  <2> QED
    BY <2>4, <2>5
<1>6. CASE ReceiveNasEdit(i) /\ ~calls[i].ok
  <2>1. Frame' /\ UNCHANGED <<page, db, parted, marred>> /\ calls' = cs
    BY <1>0, <1>6 DEF ReceiveNasEdit, Frame, cs
  <2>2. ~Reads(calls[i]) /\ calls[i].op # "ports"
    BY <1>6 DEF ReceiveNasEdit, Reads
  <2>3. DOMAIN ui' = DOMAIN ui
        /\ UNCHANGED <<ui.view, ui.rows, ui.applied, ui.drawer, ui.ports, ui.secrets, ui.visible>>
    BY <1>0, <1>6 DEF ReceiveNasEdit, NasFields
  <2> QED
    BY <1>4, <1>6, <2>1, <2>2, <2>3 DEF NasInv
<1>7. CASE ReceiveNasEdit(i) /\ calls[i].ok
  <2>1. /\ ui' = [ui EXCEPT !.view = "loading", !.modal = IF calls[i].op = "delete" THEN @ ELSE NULL]
        /\ calls' = SetView(Append(cs, Request("list", Everything)), "loading")
        /\ parted' = Unfiltered /\ marred' = (marred \/ ui.secrets[calls[i].arg.id] # NULL)
        /\ UNCHANGED <<page, db, clicks, faults, changes>>
    BY <1>7 DEF ReceiveNasEdit, ReloadNas, cs
  <2>2. calls[i].op \in NasEdits /\ ~Reads(calls[i]) /\ calls[i].op # "ports"
    BY <1>7 DEF ReceiveNasEdit, NasEdits, Reads
  <2>3. parted' \in BOOLEAN /\ marred' \in BOOLEAN /\ (~parted' => ui.applied = Everything)
        /\ (~marred' => ~marred /\ ui.secrets[calls[i].arg.id] = NULL)
    BY <1>0, <2>1 DEF Frame, Unfiltered
  <2>4. Frame' /\ DOMAIN ui' = DOMAIN ui /\ ui'.view = "loading"
        /\ UNCHANGED <<ui.rows, ui.applied, ui.drawer, ui.ports, ui.secrets, ui.visible>>
    BY <1>0, <2>1, <2>3 DEF Frame, NasFields
  <2>5. Listed(cs, ui.view, ui.rows.by, ui.applied, parted)
    BY <1>0, <2>2, ListedEnds DEF cs, Reads
  <2>6. Len(cs) + 1 <= MaxCalls + (IF ui.view = "loading" THEN 1 ELSE 0)
    BY <1>0, <1>2, MaxCallsNat DEF Listed
  <2>7. Listed(calls', "loading", ui.rows.by, ui.applied, parted')
    BY <2>1, <2>3, <2>5, <2>6, ListedRefetch
  <2>8. Single(cs, {"load"}) /\ Single(cs, {"ports"})
    BY <1>0, <1>2
  <2>9. Beside(cs, calls')
    BY <1>2, <2>1, <2>8, BesideRefetch
  <2>10. Kept(calls', NasEdits, "loading", ui.rows.of, {}, NasRows)
    <3>1. "load" \notin NasEdits
      BY DEF NasEdits
    <3> QED
      BY <1>2, <2>1, <2>8, <3>1, KeptRefetch
  <2>11. /\ Single(calls', {"ports"})
         /\ \A c \in ToSet(calls') : c \in ToSet(calls) \/ (Reads(c) /\ ~c.ok)
         /\ \A c \in ToSet(calls) : c = calls[i] \/ c \in ToSet(calls') \/ Reads(c)
    BY <1>2, <2>8, <2>9 DEF Beside
  <2>12. Has(calls, {"ports"}) => Has(calls', {"ports"})
    BY <2>2, <2>11 DEF Has, Reads
  <2>13. \A c \in ToSet(calls') : NasCall(c)'
    BY <2>4, <2>11 DEF NasInv, NasCall, Reads
  <2>14. ASSUME ~marred'
         PROVE  NasSecrets(calls', ui.secrets, db.nas)
    <3>1. NasSecrets(calls, ui.secrets, db.nas)
      BY <2>3, <2>14 DEF NasInv
    <3>2. Single(calls', NasEdits \cup {"secret"})
      <4>1. (NasEdits \cup {"secret"}) \cap {"load", "list"} = {}
        BY DEF NasEdits
      <4> QED
        BY <1>2, <2>9, <3>1, <4>1 DEF Beside, NasSecrets
    <3>3. \A c \in ToSet(calls) : c.op \in NasEdits => c = calls[i] \/ c \in ToSet(calls')
      BY <2>11 DEF Reads, NasEdits
    <3>4. \A c \in ToSet(calls') : c.op = "secret" => c \in ToSet(calls)
      BY <2>11 DEF Reads
    <3>5. \A x \in DOMAIN db.nas : ui.secrets[x] # NULL =>
             \/ ui.secrets[x] = db.nas[x]
             \/ \E c \in ToSet(calls') : c.op \in NasEdits /\ c.ok /\ c.arg.id = x
      <4> SUFFICES ASSUME NEW x \in DOMAIN db.nas, ui.secrets[x] # NULL, ui.secrets[x] # db.nas[x]
                   PROVE  \E c \in ToSet(calls') : c.op \in NasEdits /\ c.ok /\ c.arg.id = x
        OBVIOUS
      <4>1. PICK c \in ToSet(calls) : c.op \in NasEdits /\ c.ok /\ c.arg.id = x
        BY <3>1 DEF NasSecrets
      <4>2. c # calls[i]
        BY <2>3, <2>14, <4>1
      <4> QED
        BY <3>3, <4>1, <4>2
    <3> QED
      BY <3>1, <3>2, <3>4, <3>5 DEF NasSecrets
  <2>15. UNCHANGED NasRows
    BY <2>1 DEF NasRows
  <2> QED
    BY <1>0, <2>1, <2>3, <2>4, <2>7, <2>10, <2>11, <2>12, <2>13, <2>14, <2>15 DEF NasInv
<1> QED
  BY <1>0, <1>1, <1>3, <1>5, <1>6, <1>7 DEF NasReceive

LEMMA NasSteps ==
  ASSUME NasInv, [Next]_vars
  PROVE  NasInv'
<1>1. CASE UNCHANGED vars
  BY <1>1 DEF vars, NasInv, Frame, NasCall, NasRows
<1>2. page = "nas"
  BY DEF NasInv
<1> QED
  BY <1>1, <1>2, NasClicks, NasAnswers, NasReceives
     DEF Next, User, Serve, Receive, Timer, Elsewhere

-----------------------------------------------------------------------------
(* The endpoints. *)

EpEdits == {"import", "revoke"}
EpReads == {"load", "list"}

\* The rows of the removals that the page has yet to hear of.
Removing(cs) == {c.arg : c \in {c \in ToSet(cs) : c.op = "remove" /\ c.ok}}

EpKept(cs, of, table) ==
  /\ Has(cs, {"remove"}) => Len(cs) = 1
  /\ \A c \in ToSet(cs) : c.op = "list" /\ c.pc = "answered" => c.ok
  /\ Kept(cs, EpEdits, "ready", of, Removing(cs), table)

EndpointsInv ==
  /\ page = "endpoints" /\ Frame
  /\ DOMAIN ui = {"view", "rows", "applied", "modal"} /\ IsRows(ui.rows)
  /\ ui.view = "ready"
  /\ ui.modal # NULL => ui.modal.op \in {"import", "remove", "revoke"}
  /\ Recent(calls, EpReads, "ready", ui.rows.by, ui.applied, parted)
  /\ Single(calls, {"load"})
  /\ ~marred => EpKept(calls, ui.rows.of, db.endpoints)

\* One call is open, and it ends.
LEMMA AloneEnds ==
  ASSUME NEW cs, Calls(cs), NEW i \in DOMAIN cs, Len(cs) = 1
  PROVE  ToSet(cs) = {cs[i]} /\ ToSet(RemoveAt(cs, i)) = {}
<1>1. DOMAIN cs = 1..1 /\ i = 1
  BY DEF Calls
<1>2. ToSet(cs) = {cs[i]}
  BY <1>1 DEF ToSet
<1>3. Calls(RemoveAt(cs, i)) /\ Len(RemoveAt(cs, i)) = 0
  BY Ends
<1>4. DOMAIN RemoveAt(cs, i) = {}
  BY <1>3 DEF Calls
<1>5. ToSet(RemoveAt(cs, i)) = {}
  BY <1>4 DEF ToSet
<1> QED
  BY <1>2, <1>5

LEMMA NoneOpen == ToSet(<<>>) = {} /\ Len(<<>>) = 0
BY DEF ToSet

LEMMA EpSends ==
  ASSUME NEW cs, Calls(cs), NEW of, NEW table, EpKept(cs, of, table),
         NEW r, Whole(r), ~r.ok, r.pc = "sent",
         IF r.op = "remove" THEN cs = <<>> ELSE ~Has(cs, {"remove"})
  PROVE  EpKept(Append(cs, r), of, table)
<1> DEFINE d == Append(cs, r)
<1>1. ToSet(d) = ToSet(cs) \cup {r} /\ Len(d) = Len(cs) + 1
  BY Sends
<1>2. Kept(d, EpEdits, "ready", of, Removing(cs), table)
  BY KeptSends DEF EpKept
<1> HIDE DEF d
<1>3. Removing(d) = Removing(cs)
  BY <1>1 DEF Removing
<1>4. Has(d, {"remove"}) => Len(d) = 1
  <2>1. CASE r.op = "remove"
    BY <1>1, <2>1, NoneOpen
  <2>2. CASE r.op # "remove"
    BY <1>1, <2>2 DEF Has
  <2> QED
    BY <2>1, <2>2
<1>5. \A c \in ToSet(d) : c.op = "list" /\ c.pc = "answered" => c.ok
  BY <1>1 DEF EpKept
<1> QED
  BY <1>2, <1>3, <1>4, <1>5 DEF EpKept, d

\* After an edit everything is listed again.
LEMMA EpAsks ==
  ASSUME NEW cs, Calls(cs), ~Has(cs, {"remove"}),
         \A c \in ToSet(cs) : c.op = "list" /\ c.pc = "answered" => c.ok,
         NEW r, Whole(r), ~r.ok, r.pc = "sent", r.op = "list", NEW of, NEW table
  PROVE  EpKept(Append(cs, r), of, table)
<1> DEFINE d == Append(cs, r)
<1>1. ToSet(d) = ToSet(cs) \cup {r}
  BY Sends
<1>2. \A but : Kept(d, EpEdits, "ready", of, but, table)
  BY KeptAsks
<1> HIDE DEF d
<1>3. ~Has(d, {"remove"})
  BY <1>1 DEF Has
<1>4. \A c \in ToSet(d) : c.op = "list" /\ c.pc = "answered" => c.ok
  BY <1>1
<1> QED
  BY <1>2, <1>3, <1>4 DEF EpKept, d

LEMMA EndpointsClicks ==
  ASSUME EndpointsInv, EndpointsClick
  PROVE  EndpointsInv'
<1>0. /\ Calls(calls) /\ Len(calls) \in Nat /\ Frame /\ Single(calls, {"load"})
      /\ \A c \in ToSet(calls) : Sound(c)
      /\ Recent(calls, EpReads, "ready", ui.rows.by, ui.applied, parted)
  BY DEF EndpointsInv, Recent, Calls
<1>1. ~Open({"remove"}) <=> ~Has(calls, {"remove"})
  BY DEF Open, Has, ToSet
<1>2. ASSUME NEW f, ui' = [ui EXCEPT !.applied = f], calls' = Append(calls, Request("list", f)),
             Room(1), Click, MayUndo, parted' = parted
      PROVE  EndpointsInv'
  <2> DEFINE r == Request("list", f)
  <2>1. Whole(r) /\ r.op = "list" /\ r.arg = f /\ ~r.ok /\ r.pc = "sent"
    BY WholeRequest
  <2>2. calls' = Append(calls, r)
    BY <1>2
  <2> HIDE DEF r
  <2>3. marred' \in BOOLEAN /\ (~marred' => ~marred /\ ~Has(calls, {"remove"}))
    BY <1>0, <1>1, <1>2 DEF MayUndo, Frame
  <2>4. Frame' /\ UNCHANGED <<page, db>>
    BY <1>0, <1>2, <2>3, Frames DEF Frame
  <2>5. DOMAIN ui' = DOMAIN ui /\ ui'.applied = f /\ UNCHANGED <<ui.view, ui.rows, ui.modal>>
    BY <1>2 DEF EndpointsInv
  <2>6. Recent(calls', EpReads, "ready", ui.rows.by, f, parted')
    BY <1>0, <1>2, <2>1, <2>2, RecentAsks DEF EpReads, Room
  <2>7. Single(calls', {"load"})
    BY <1>0, <2>1, <2>2, Sends
  <2>8. ~marred' => EpKept(calls', ui.rows.of, db.endpoints)
    BY <1>0, <2>1, <2>2, <2>3, EpSends DEF EndpointsInv
  <2> QED
    BY <2>4, <2>5, <2>6, <2>7, <2>8 DEF EndpointsInv
<1>3. CASE ApplyEpFilters
  BY <1>2, <1>3 DEF ApplyEpFilters
<1>4. CASE ResetEpFilters
  BY <1>2, <1>4 DEF ResetEpFilters
<1>5. CASE ClearEpFilters
  <2>1. parted' = TRUE /\ UNCHANGED <<calls, marred>> /\ Click
    BY <1>5 DEF ClearEpFilters
  <2>2. Frame' /\ UNCHANGED <<page, db>>
    BY <1>0, <2>1, Frames DEF Frame
  <2>3. DOMAIN ui' = DOMAIN ui /\ UNCHANGED <<ui.view, ui.rows, ui.modal>>
    BY <1>5 DEF ClearEpFilters, EndpointsInv
  <2>4. Recent(calls', EpReads, "ready", ui.rows.by, ui'.applied, parted')
    BY <1>0, <2>1 DEF Recent
  <2> QED
    BY <1>0, <2>1, <2>2, <2>3, <2>4 DEF EndpointsInv
<1>6. CASE ReturnToTab
  <2> DEFINE left == Cancel(calls, "load")
             r == Request("load", Everything)
  <2>1. Whole(r) /\ r.op = "load" /\ r.arg = Everything /\ ~r.ok /\ r.pc = "sent"
    BY WholeRequest
  <2>2. calls' = Append(left, r) /\ UNCHANGED ui /\ parted' = Unfiltered /\ Click
        /\ Len(calls) + 1 <= MaxCalls
    BY <1>6 DEF ReturnToTab, Room
  <2>3. marred' \in BOOLEAN /\ (~marred' => ~marred /\ ~Has(calls, {"remove"}))
    BY <1>0, <1>1, <1>6 DEF ReturnToTab, MayUndo, Frame
  <2>4. parted' \in BOOLEAN /\ (~parted' => Everything = ui.applied)
    BY <1>0, <2>2 DEF Unfiltered, Frame
  <2>5. Frame' /\ UNCHANGED <<page, db>>
    BY <1>0, <2>2, <2>3, <2>4, Frames
  <2>6. /\ Calls(left) /\ Len(left) \in Nat /\ Len(left) <= Len(calls)
        /\ ToSet(left) = {c \in ToSet(calls) : c.op # "load"} /\ ~Has(left, {"load"})
        /\ Single(left, {"load"})
    <3>1. /\ Calls(left) /\ Len(left) \in Nat
          /\ Len(left) = IF Has(calls, {"load"}) THEN Len(calls) - 1 ELSE Len(calls)
          /\ ToSet(left) = {c \in ToSet(calls) : c.op # "load"} /\ ~Has(left, {"load"})
          /\ Single(left, {"load"})
      BY <1>0, Cancels
    <3> HIDE DEF left
    <3> QED
      BY <1>0, <3>1
  <2>7. ASSUME ~marred'
        PROVE  EpKept(left, ui.rows.of, db.endpoints)
    <3>1. EpKept(calls, ui.rows.of, db.endpoints)
      BY <2>3, <2>7 DEF EndpointsInv
    <3>2. Kept(left, EpEdits, "ready", ui.rows.of, Removing(calls), db.endpoints)
      <4>1. "load" \notin EpEdits
        BY DEF EpEdits
      <4> QED
        BY <1>0, <3>1, <4>1, KeptCancels DEF EpKept
    <3>3. Removing(left) = Removing(calls) /\ ~Has(left, {"remove"})
      BY <2>3, <2>6, <2>7 DEF Removing, Has
    <3> QED
      BY <2>6, <3>1, <3>2, <3>3 DEF EpKept
  <2>8. ~marred' => ~Has(left, {"remove"})
    BY <2>3, <2>6 DEF Has
  <2> HIDE DEF left, r
  <2>9. Len(left) + 1 <= MaxCalls
    BY <1>0, <2>2, <2>6, MaxCallsNat
  <2>10. Recent(calls', EpReads, "ready", ui.rows.by, ui.applied, parted')
    <3>1. \A c \in ToSet(left) : Sound(c)
      BY <1>0, <2>6
    <3>2. r.op \in EpReads /\ (~parted' => r.arg = ui.applied)
      BY <2>1, <2>4 DEF EpReads
    <3> QED
      BY <2>1, <2>2, <2>6, <2>9, <3>1, <3>2, RecentAsks
  <2>11. Single(calls', {"load"})
    <3>1. Single(Append(left, r), {"load"})
      BY <2>1, <2>6, Sends
    <3> QED
      BY <2>2, <3>1
  <2>12. ~marred' => EpKept(calls', ui.rows.of, db.endpoints)
    BY <2>1, <2>2, <2>6, <2>7, <2>8, EpSends
  <2> QED
    BY <2>2, <2>5, <2>10, <2>11, <2>12 DEF EndpointsInv
<1>7. CASE OpenEpDialog \/ CancelEpDialog
  <2>1. Frame' /\ UNCHANGED <<page, db, parted, marred, calls>>
    BY <1>0, <1>7, Frames DEF OpenEpDialog, CancelEpDialog
  <2>2. DOMAIN ui' = DOMAIN ui /\ UNCHANGED <<ui.view, ui.rows, ui.applied>>
        /\ (ui'.modal # NULL => ui'.modal.op \in {"import", "remove", "revoke"})
    BY <1>7 DEF OpenEpDialog, CancelEpDialog, EndpointsInv, Dialog
  <2> QED
    BY <2>1, <2>2 DEF EndpointsInv
<1>8. CASE ConfirmEpDialog
  <2>1. /\ DOMAIN ui' = DOMAIN ui /\ UNCHANGED <<ui.view, ui.rows, ui.applied>> /\ ui'.modal = NULL
        /\ Edit /\ Len(calls) + 1 <= MaxCalls
    BY <1>8 DEF ConfirmEpDialog, EndpointsInv, Room
  <2>2. Frame' /\ UNCHANGED <<page, db, parted>> /\ (~marred' => ~marred /\ calls = <<>>)
    BY <1>0, <2>1, Frames
  <2>3. \/ UNCHANGED calls
        \/ \E op \in {"import", "remove", "revoke"} : \E x : calls' = Append(calls, Request(op, x))
    BY <1>8 DEF ConfirmEpDialog, EndpointsInv
  <2>4. CASE UNCHANGED calls
    BY <2>1, <2>2, <2>4 DEF EndpointsInv
  <2>5. ASSUME NEW op \in {"import", "remove", "revoke"}, NEW x, calls' = Append(calls, Request(op, x))
        PROVE  EndpointsInv'
    <3> DEFINE r == Request(op, x)
    <3>1. Whole(r) /\ r.op = op /\ ~r.ok /\ r.pc = "sent"
      BY WholeRequest
    <3>2. calls' = Append(calls, r)
      BY <2>5
    <3> HIDE DEF r
    <3>3. r.op \notin EpReads /\ r.op \notin {"load"}
      BY <3>1 DEF EpReads
    <3>4. Recent(calls', EpReads, "ready", ui.rows.by, ui.applied, parted')
      BY <1>0, <2>1, <2>2, <3>1, <3>2, <3>3, RecentSends
    <3>5. Single(calls', {"load"})
      BY <1>0, <3>1, <3>2, <3>3, Sends
    <3>6. ~marred' => EpKept(calls', ui.rows.of, db.endpoints)
      <4>1. calls = <<>> => ~Has(calls, {"remove"})
        BY NoneOpen DEF Has
      <4> QED
        BY <1>0, <2>2, <3>1, <3>2, <4>1, EpSends DEF EndpointsInv
    <3> QED
      BY <2>1, <2>2, <3>4, <3>5, <3>6 DEF EndpointsInv
  <2> QED
    BY <2>3, <2>4, <2>5
<1> QED
  BY <1>3, <1>4, <1>5, <1>6, <1>7, <1>8 DEF EndpointsClick

LEMMA EndpointsAnswers ==
  ASSUME EndpointsInv, NEW i \in DOMAIN calls, ServeEndpoints(i) \/ Lose(i)
  PROVE  EndpointsInv'
<1>0. /\ Calls(calls) /\ Frame /\ Single(calls, {"load"}) /\ calls[i] \in ToSet(calls)
      /\ Recent(calls, EpReads, "ready", ui.rows.by, ui.applied, parted)
      /\ calls[i].pc = "sent" => ~calls[i].ok
  BY SentCalls DEF EndpointsInv, Recent
<1>1. ASSUME NEW ok \in BOOLEAN, NEW answer, calls' = Answering(calls, i, ok, answer),
             Frame', UNCHANGED <<page, ui, parted>>,
             calls[i].op \in ReadsOpen /\ ok => IsRows(answer) /\ answer.by = calls[i].arg,
             ~marred' => ~marred /\ EpKept(calls', ui.rows.of, db'.endpoints)
      PROVE  EndpointsInv'
  <2>1. Single(calls', {"load"})
    BY <1>0, <1>1, Answers
  <2>2. Recent(calls', EpReads, "ready", ui.rows.by, ui.applied, parted)
    BY <1>0, <1>1, RecentAnswers
  <2> QED
    BY <1>1, <2>1, <2>2 DEF EndpointsInv
<1> DEFINE d(ok, answer) == Answering(calls, i, ok, answer)
<1>2. \A ok \in BOOLEAN : \A answer :
        /\ d(ok, answer)[i].op = calls[i].op /\ d(ok, answer)[i].arg = calls[i].arg
        /\ d(ok, answer)[i].ok = ok /\ d(ok, answer)[i].answer = answer
        /\ ToSet(d(ok, answer)) \subseteq ToSet(calls) \cup {d(ok, answer)[i]}
        /\ ToSet(calls) \subseteq ToSet(d(ok, answer)) \cup {calls[i]}
        /\ Len(d(ok, answer)) = Len(calls) /\ Calls(d(ok, answer))
        /\ Has(d(ok, answer), {"remove"}) <=> Has(calls, {"remove"})
  BY <1>0, Answers
<1>3. ASSUME NEW ok \in BOOLEAN, NEW answer, calls' = Answering(calls, i, ok, answer),
             Frame', UNCHANGED <<page, ui, db, parted>>,
             ~marred' => ~marred /\ ~calls[i].ok,
             calls[i].op \in ReadsOpen /\ ok => IsRows(answer) /\ answer.by = calls[i].arg,
             Reads(calls[i]) /\ ok => GoodRows(answer.of, {}, db.endpoints),
             ~marred' /\ ok => calls[i].op # "remove",
             ~marred' /\ calls[i].op = "list" => ok
      PROVE  EndpointsInv'
  <2>1. ASSUME ~marred'
        PROVE  ~marred /\ EpKept(calls', ui.rows.of, db.endpoints)
    <3>1. ~marred /\ ~calls[i].ok /\ EpKept(calls, ui.rows.of, db.endpoints)
      BY <1>3, <2>1 DEF EndpointsInv
    <3>2. Kept(calls', EpEdits, "ready", ui.rows.of, Removing(calls), db.endpoints)
      BY <1>0, <1>3, <3>1, KeptAnswers DEF EpKept
    <3>3. /\ calls'[i].op = calls[i].op /\ calls'[i].ok = ok
          /\ ToSet(calls') \subseteq ToSet(calls) \cup {calls'[i]}
          /\ ToSet(calls) \subseteq ToSet(calls') \cup {calls[i]}
          /\ Len(calls') = Len(calls) /\ (Has(calls', {"remove"}) <=> Has(calls, {"remove"}))
      BY <1>2, <1>3
    <3>4. Removing(calls') = Removing(calls)
      <4>1. \A c \in ToSet(calls) : c.ok => c \in ToSet(calls')
        BY <3>1, <3>3
      <4>2. \A c \in ToSet(calls') : c.op = "remove" /\ c.ok => c \in ToSet(calls)
        BY <1>3, <2>1, <3>3
      <4> QED
        BY <4>1, <4>2 DEF Removing
    <3>5. \A c \in ToSet(calls') : c.op = "list" /\ c.pc = "answered" => c.ok
      BY <1>3, <2>1, <3>1, <3>3 DEF EpKept
    <3> QED
      BY <3>1, <3>2, <3>3, <3>4, <3>5 DEF EpKept
  <2> QED
    BY <1>1, <1>3, <2>1
<1>4. CASE Lose(i)
  <2>1. /\ Frame' /\ UNCHANGED <<page, ui, db, parted>> /\ calls' = Answering(calls, i, FALSE, NULL)
        /\ ~marred' => ~marred /\ calls[i].pc = "sent" /\ calls[i].op # "list"
    BY <1>0, <1>4, Loses
  <2> QED
    BY <1>0, <1>3, <2>1
<1>5. CASE calls[i].op \in {"load", "list"} /\ Answered(i, TRUE, Listing(calls[i].arg, db.endpoints), db)
  <2> DEFINE a == Listing(calls[i].arg, db.endpoints)
  <2>1. IsRows(a) /\ a.by = calls[i].arg /\ GoodRows(a.of, {}, db.endpoints)
    BY KeptLists
  <2>2. Answered(i, TRUE, a, db)
    BY <1>5
  <2> HIDE DEF a
  <2>3. /\ Frame' /\ UNCHANGED <<page, ui, parted, marred, db>> /\ calls[i].pc = "sent"
        /\ calls' = Answering(calls, i, TRUE, a)
    BY <1>0, <2>2, IsAnswered
  <2>4. calls[i].op # "remove"
    BY <1>5
  <2> QED
    BY <1>0, <1>3, <2>1, <2>3, <2>4
\* An edit is acted on.
<1>6. ASSUME NEW after, Answered(i, TRUE, NULL, after), calls[i].op \in {"import", "remove", "revoke"},
             calls[i].op = "remove" =>
               /\ DOMAIN db.endpoints \subseteq DOMAIN after.endpoints
               /\ \A x \in DOMAIN db.endpoints : x # calls[i].arg => after.endpoints[x] = db.endpoints[x]
      PROVE  EndpointsInv'
  <2>1. /\ Frame' /\ UNCHANGED <<page, ui, parted, marred>> /\ db' = after
        /\ calls' = Answering(calls, i, TRUE, NULL) /\ calls[i].pc = "sent"
    BY <1>0, <1>6, IsAnswered
  <2>2. calls[i].op \notin ReadsOpen
    BY <1>6 DEF ReadsOpen
  <2>3. /\ calls'[i].op = calls[i].op /\ calls'[i].arg = calls[i].arg
        /\ calls'[i].ok = TRUE
        /\ ToSet(calls') \subseteq ToSet(calls) \cup {calls'[i]}
        /\ ToSet(calls) \subseteq ToSet(calls') \cup {calls[i]}
        /\ Len(calls') = Len(calls) /\ Calls(calls')
        /\ Has(calls', {"remove"}) <=> Has(calls, {"remove"})
    <3>1. TRUE \in BOOLEAN
      OBVIOUS
    <3> HIDE DEF d
    <3>2. calls' = d(TRUE, NULL)
      BY <2>1 DEF d
    <3> QED
      BY <1>2, <3>1, <3>2
  <2>4. ASSUME ~marred
        PROVE  EpKept(calls', ui.rows.of, after.endpoints)
    <3>1. EpKept(calls, ui.rows.of, db.endpoints)
      BY <2>4 DEF EndpointsInv
    <3>2. \A c \in ToSet(calls') : c.op = "list" /\ c.pc = "answered" => c.ok
      BY <2>3, <3>1 DEF EpKept
    <3>3. CASE calls[i].op # "remove"
      <4>1. calls[i].op \in EpEdits
        BY <1>6, <3>3 DEF EpEdits
      <4>2. Kept(calls', EpEdits, "ready", ui.rows.of, Removing(calls'), after.endpoints)
        BY <1>0, <2>1, <4>1, KeptActs
      <4> QED
        BY <2>3, <3>1, <3>2, <4>2 DEF EpKept
    <3>4. CASE calls[i].op = "remove"
      <4>1. Len(calls) = 1
        BY <1>0, <3>1, <3>4 DEF EpKept, Has
      <4>2. ToSet(calls) = {calls[i]}
        BY <1>0, <4>1, AloneEnds
      <4>3. GoodRows(ui.rows.of, Removing(calls), db.endpoints)
        BY <3>1, <3>4, <4>2 DEF EpKept, Kept, Acted, Has, EpEdits
      <4>4. Removing(calls) = {}
        BY <1>0, <2>1, <4>2 DEF Removing
      <4>5. ToSet(calls') = {calls'[i]}
        <5>1. DOMAIN calls' = 1..Len(calls') /\ DOMAIN calls = 1..Len(calls)
          BY <1>0, <2>3 DEF Calls
        <5>2. calls'[i] \in ToSet(calls')
          BY <2>3, <5>1 DEF ToSet
        <5>3. calls[i] \notin ToSet(calls')
          <6>1. DOMAIN calls' = {i}
            <7>1. DOMAIN calls' = 1..1 /\ i \in 1..1
              BY <2>3, <4>1, <5>1
            <7> QED
              BY <7>1
          <6>2. ~calls[i].ok /\ calls'[i].ok
            BY <1>0, <2>1, <2>3
          <6> QED
            BY <6>1, <6>2 DEF ToSet
        <5> QED
          BY <2>3, <4>2, <5>2, <5>3
      <4>6. Removing(calls') = {calls[i].arg}
        BY <2>3, <3>4, <4>5 DEF Removing
      <4>7. GoodRows(ui.rows.of, Removing(calls'), after.endpoints)
        BY <1>6, <3>4, <4>3, <4>4, <4>6 DEF GoodRows
      <4>8. \A c \in ToSet(calls') : ~Reads(c)
        BY <2>3, <3>4, <4>5 DEF Reads
      <4>9. Fresh(calls', GoodCalls(calls', after.endpoints))
        BY <4>8 DEF Fresh, GoodCalls, ToSet
      <4> QED
        BY <2>3, <3>2, <4>1, <4>7, <4>9 DEF EpKept, Kept
    <3> QED
      BY <3>3, <3>4
  <2> QED
    BY <1>1, <2>1, <2>2, <2>4
<1> DEFINE a == calls[i].arg
           put(v) == [endpoints |-> [x \in DOMAIN db.endpoints \cup {a} |-> IF x = a THEN v ELSE db.endpoints[x]]]
<1>7. \A v : /\ DOMAIN put(v).endpoints = DOMAIN db.endpoints \cup {a}
             /\ \A x \in DOMAIN db.endpoints : x # a => put(v).endpoints[x] = db.endpoints[x]
  OBVIOUS
<1>8. ServeEndpoints(i) =>
         \/ calls[i].op \in {"load", "list"} /\ Answered(i, TRUE, Listing(a, db.endpoints), db)
         \/ /\ calls[i].op \in {"import", "remove", "revoke"}
            /\ Answered(i, TRUE, NULL, db) \/ \E v : Answered(i, TRUE, NULL, put(v))
  BY DEF ServeEndpoints
<1>9. ASSUME calls[i].op \in {"import", "remove", "revoke"}, NEW v, Answered(i, TRUE, NULL, put(v))
      PROVE  EndpointsInv'
  <2> DEFINE after == put(v)
  <2>1. DOMAIN db.endpoints \subseteq DOMAIN after.endpoints
        /\ \A x \in DOMAIN db.endpoints : x # calls[i].arg => after.endpoints[x] = db.endpoints[x]
    BY <1>7
  <2>2. Answered(i, TRUE, NULL, after)
    BY <1>9
  <2> HIDE DEF after
  <2> QED
    BY <1>6, <1>9, <2>1, <2>2
<1>10. ASSUME calls[i].op \in {"import", "remove", "revoke"}, Answered(i, TRUE, NULL, db)
       PROVE  EndpointsInv'
  BY <1>6, <1>10
<1> HIDE DEF put
<1> QED
  BY <1>4, <1>5, <1>8, <1>9, <1>10

LEMMA EndpointsReceives ==
  ASSUME EndpointsInv, NEW i \in DOMAIN calls, EndpointsReceive(i)
  PROVE  EndpointsInv'
<1> DEFINE cs == RemoveAt(calls, i)
<1>0. /\ Calls(calls) /\ Frame /\ Single(calls, {"load"}) /\ Len(calls) \in Nat
      /\ calls[i] \in ToSet(calls) /\ calls[i].ok \in BOOLEAN /\ IsRows(ui.rows)
      /\ Recent(calls, EpReads, "ready", ui.rows.by, ui.applied, parted)
      /\ \A c \in ToSet(calls) : Sound(c)
  BY SentCalls DEF EndpointsInv, Recent, Calls
<1>1. /\ Calls(cs) /\ Single(cs, {"load"}) /\ Len(cs) = Len(calls) - 1
      /\ ToSet(cs) \subseteq ToSet(calls) /\ ToSet(calls) \subseteq ToSet(cs) \cup {calls[i]}
  BY <1>0, Ends
<1> HIDE DEF cs
<1>2. CASE ReceiveEndpoints(i)
  <2> DEFINE rows == IF calls[i].ok THEN calls[i].answer ELSE ui.rows
  <2>1. calls' = cs /\ calls[i].op \in EpReads /\ calls[i].pc = "answered"
        /\ UNCHANGED <<page, db, clicks, faults, changes>>
    BY <1>2 DEF ReceiveEndpoints, EpReads, cs
  <2>2. DOMAIN ui' = DOMAIN ui /\ ui'.rows = rows /\ UNCHANGED <<ui.view, ui.applied, ui.modal>>
    BY <1>2 DEF ReceiveEndpoints, EndpointsInv
  <2>3. {parted', marred'} \subseteq BOOLEAN
        /\ (~parted' => ~parted /\ ~Before(calls, i, EpReads) /\ calls[i].ok)
        /\ (~marred' => ~marred /\ ~Before(calls, i, EpReads))
    BY <1>0, <1>2 DEF ReceiveEndpoints, Frame, Before, EpReads
  <2>4. Frame'
    BY <1>0, <2>1, <2>3 DEF Frame
  <2>5. Sound(calls[i]) /\ calls[i].op \in ReadsOpen /\ Reads(calls[i])
    BY <1>0, <2>1 DEF EpReads, ReadsOpen, Reads
  <2>6. IsRows(rows) /\ (~parted' => rows.by = calls[i].arg)
    BY <1>0, <2>3, <2>5 DEF Sound
  <2>7. Recent(cs, EpReads, "ready", rows.by, ui.applied, parted')
    <3> HIDE DEF rows
    <3> QED
      BY <1>0, <2>1, <2>3, <2>6, RecentEnds DEF cs
  <2>8. ASSUME ~marred'
        PROVE  EpKept(cs, rows.of, db.endpoints)
    <3>1. EpKept(calls, ui.rows.of, db.endpoints)
      BY <2>3, <2>8 DEF EndpointsInv
    <3>2. ~calls[i].ok => calls[i].op # "list"
      BY <1>0, <2>1, <3>1 DEF EpKept
    <3>3. ~\E c \in ToSet(calls) : Reads(c) /\ c.op \in EpEdits
      BY DEF Reads, EpEdits
    <3>4. Kept(cs, EpEdits, "ready", rows.of, Removing(calls), db.endpoints)
      <4>1. IF calls[i].ok THEN rows.of = calls[i].answer.of ELSE calls[i].op # "list" /\ rows.of = ui.rows.of
        BY <1>0, <3>2
      <4>2. ~Before(calls, i, {"load", "list"})
        BY <2>3, <2>8 DEF EpReads
      <4>3. Kept(calls, EpEdits, "ready", ui.rows.of, Removing(calls), db.endpoints)
        BY <3>1 DEF EpKept
      <4> HIDE DEF rows
      <4> QED
        BY <1>0, <2>5, <3>3, <4>1, <4>2, <4>3, KeptReceives DEF cs
    <3>5. Removing(cs) = Removing(calls)
      BY <1>1, <2>5 DEF Removing, Reads
    <3>6. Has(cs, {"remove"}) => Len(cs) = 1
      <4>1. Has(calls, {"remove"}) => Len(calls) = 1
        BY <3>1 DEF EpKept
      <4>2. Len(calls) = 1 => ToSet(cs) = {}
        BY <1>0, AloneEnds DEF cs
      <4> QED
        BY <1>1, <4>1, <4>2 DEF Has
    <3>7. \A c \in ToSet(cs) : c.op = "list" /\ c.pc = "answered" => c.ok
      BY <1>1, <3>1 DEF EpKept
    <3> QED
      BY <3>4, <3>5, <3>6, <3>7 DEF EpKept
  <2> HIDE DEF rows
  <2> QED
    BY <1>1, <2>1, <2>2, <2>3, <2>4, <2>6, <2>7, <2>8 DEF EndpointsInv
<1>3. CASE ReceiveEpEdit(i)
  <2>1. Continue /\ calls[i].op \in {"import", "remove", "revoke"} /\ calls[i].pc = "answered"
    BY <1>3 DEF ReceiveEpEdit
  <2>2. ~Reads(calls[i]) /\ calls[i].op \notin EpReads
    BY <2>1 DEF Reads, EpReads
  <2>3. Recent(cs, EpReads, "ready", ui.rows.by, ui.applied, parted)
    BY <1>0, <2>2, RecentEnds DEF cs
  <2>4. ASSUME ~marred
        PROVE  /\ EpKept(calls, ui.rows.of, db.endpoints)
               /\ calls[i].op = "remove" => ToSet(cs) = {} /\ ToSet(calls) = {calls[i]}
               /\ calls[i].op # "remove" => ~Has(calls, {"remove"})
               /\ \A c \in ToSet(cs) : c.op = "list" /\ c.pc = "answered" => c.ok
               /\ Has(cs, {"remove"}) => Len(cs) = 1
    <3>1. EpKept(calls, ui.rows.of, db.endpoints)
      BY <2>4 DEF EndpointsInv
    <3>2. Has(calls, {"remove"}) => Len(calls) = 1
      BY <3>1 DEF EpKept
    <3>3. Len(calls) = 1 => ToSet(cs) = {} /\ ToSet(calls) = {calls[i]}
      BY <1>0, AloneEnds DEF cs
    <3>4. calls[i].op = "remove" => Has(calls, {"remove"})
      BY <1>0 DEF Has
    <3>5. calls[i].op # "remove" => ~Has(calls, {"remove"})
      BY <3>2, <3>3 DEF Has
    <3>6. Has(cs, {"remove"}) => Len(cs) = 1
      BY <1>1, <3>2, <3>3 DEF Has
    <3>7. \A c \in ToSet(cs) : c.op = "list" /\ c.pc = "answered" => c.ok
      BY <1>1, <3>1 DEF EpKept
    <3> QED
      BY <3>1, <3>2, <3>3, <3>4, <3>5, <3>6, <3>7
  <2>5. CASE ~calls[i].ok
    <3>1. calls' = cs /\ UNCHANGED <<ui, parted>>
      BY <1>3, <2>5 DEF ReceiveEpEdit, cs
    <3>2. Frame' /\ UNCHANGED <<page, db, marred>>
      BY <1>0, <2>1, <3>1, Frames DEF Frame
    <3>3. ASSUME ~marred
          PROVE  EpKept(cs, ui.rows.of, db.endpoints)
      <4>1. Kept(cs, EpEdits, "ready", ui.rows.of, Removing(calls), db.endpoints)
        BY <1>0, <2>2, <2>4, <2>5, <3>3, KeptEnds DEF EpKept, cs
      <4>2. Removing(cs) = Removing(calls)
        BY <1>1, <2>5 DEF Removing
      <4> QED
        BY <2>4, <3>3, <4>1, <4>2 DEF EpKept
    <3> QED
      BY <1>0, <1>1, <2>3, <3>1, <3>2, <3>3 DEF EndpointsInv
  <2>6. CASE calls[i].ok /\ calls[i].op = "remove"
    <3> DEFINE left == Restrict(ui.rows.of, Shown \ {calls[i].arg})
    <3>1. calls' = cs /\ ui' = [ui EXCEPT !.rows.of = Restrict(@, Shown \ {calls[i].arg})] /\ parted' = parted
      BY <1>3, <2>6 DEF ReceiveEpEdit, cs
    <3>2. DOMAIN ui' = DOMAIN ui /\ UNCHANGED <<ui.view, ui.applied, ui.modal>>
          /\ IsRows(ui'.rows) /\ ui'.rows.by = ui.rows.by /\ ui'.rows.of = left
      BY <1>0, <3>1 DEF EndpointsInv, IsRows
    <3>3. Frame' /\ UNCHANGED <<page, db, marred>>
      BY <1>0, <2>1, <3>1, Frames DEF Frame
    <3>4. ASSUME ~marred
          PROVE  EpKept(cs, left, db.endpoints)
      <4>1. Removing(calls) = {calls[i].arg} /\ Removing(cs) = {}
        BY <1>0, <2>4, <2>6, <3>4 DEF Removing
      <4>2. GoodRows(ui.rows.of, {calls[i].arg}, db.endpoints)
        BY <2>4, <2>6, <3>4, <4>1 DEF EpKept, Kept, Acted, Has, EpEdits
      <4>3. GoodRows(left, {}, db.endpoints)
        BY <4>2 DEF GoodRows, Restrict, Shown
      <4>4. Fresh(cs, GoodCalls(cs, db.endpoints))
        BY <2>4, <2>6, <3>4 DEF Fresh, ToSet
      <4> QED
        BY <2>4, <3>4, <4>1, <4>3, <4>4 DEF EpKept, Kept
    <3> HIDE DEF left
    <3> QED
      BY <1>0, <1>1, <2>3, <3>1, <3>2, <3>3, <3>4 DEF EndpointsInv
  <2>7. CASE calls[i].ok /\ calls[i].op # "remove"
    <3> DEFINE r == Request("list", Everything)
    <3>1. calls' = Append(cs, r) /\ UNCHANGED ui /\ parted' = Unfiltered
      BY <1>3, <2>7 DEF ReceiveEpEdit, ReloadEp, cs
    <3>2. Whole(r) /\ r.op = "list" /\ r.arg = Everything /\ ~r.ok /\ r.pc = "sent"
      BY WholeRequest
    <3> HIDE DEF r
    <3>3. parted' \in BOOLEAN /\ (~parted' => r.arg = ui.applied)
      BY <1>0, <3>1, <3>2 DEF Unfiltered, Frame
    <3>4. Frame' /\ UNCHANGED <<page, db, marred>>
      BY <1>0, <2>1, <3>3, Frames
    <3>5. Recent(calls', EpReads, "ready", ui.rows.by, ui.applied, parted')
      <4>1. Len(cs) + 1 <= MaxCalls
        BY <1>0, <1>1, MaxCallsNat DEF Recent
      <4>2. \A c \in ToSet(cs) : Sound(c)
        BY <1>0, <1>1
      <4>3. r.op \in EpReads
        BY <3>2 DEF EpReads
      <4> QED
        BY <1>1, <3>1, <3>2, <3>3, <4>1, <4>2, <4>3, RecentAsks
    <3>6. Single(calls', {"load"})
      <4>1. r.op \notin {"load"}
        BY <3>2
      <4> QED
        BY <1>1, <3>1, <3>2, <4>1, Sends
    <3>7. ASSUME ~marred
          PROVE  EpKept(calls', ui.rows.of, db.endpoints)
      <4>1. ~Has(cs, {"remove"})
        BY <1>1, <2>4, <2>7, <3>7 DEF Has
      <4>2. \A c \in ToSet(cs) : c.op = "list" /\ c.pc = "answered" => c.ok
        BY <2>4, <3>7
      <4> QED
        BY <1>1, <3>1, <3>2, <4>1, <4>2, EpAsks
    <3> QED
      BY <1>0, <3>1, <3>4, <3>5, <3>6, <3>7 DEF EndpointsInv
  <2> QED
    BY <1>0, <2>5, <2>6, <2>7
<1> QED
  BY <1>2, <1>3 DEF EndpointsReceive

LEMMA EndpointsSteps ==
  ASSUME EndpointsInv, [Next]_vars
  PROVE  EndpointsInv'
<1>1. CASE UNCHANGED vars
  BY <1>1 DEF vars, EndpointsInv, Frame
<1>2. page = "endpoints"
  BY DEF EndpointsInv
<1> QED
  BY <1>1, <1>2, EndpointsClicks, EndpointsAnswers, EndpointsReceives
     DEF Next, User, Serve, Receive, Timer, Elsewhere

-----------------------------------------------------------------------------
(* The settings. *)

SettingsEdits == {"save", "switch", "saveRules"}

IsCfg(c) == DOMAIN c = {"port", "on"}

SettingsCall(c) ==
  /\ c.op # "load"
  /\ c.op = "settings" /\ c.ok => IsCfg(c.answer)
  /\ c.op \in {"save", "switch"} => IsCfg(c.arg.cfg)

\* A change that is open is open alone.  A switch brings what it has sent, a save of the
\* port leaves the switches alone, and until the answer is there the settings known are
\* those before it; what the page shows is that as well, as long as all could be saved.
SettingsKnown ==
  /\ Has(calls, SettingsEdits) => Len(calls) = 1
  /\ \A c \in ToSet(calls) :
       /\ c.op = "settings" /\ c.ok => c.answer.on = db.cfg.on
       /\ c.op = "rules" /\ c.ok => c.answer = db.rule
       /\ c.op = "save" => ui.cfg # NULL /\ c.arg.cfg.on = ui.cfg.on
       /\ c.op = "switch" =>
            /\ ui.cfg # NULL
            /\ db.cfg.on = IF c.ok THEN c.arg.cfg.on ELSE ui.cfg.on
            /\ ~parted => c.arg.cfg.on = ui.on
       /\ c.op = "saveRules" => c.arg = ui.rule /\ (c.ok => db.rule = ui.rule)
  /\ ui.cfg # NULL /\ ~Has(calls, {"switch"}) =>
       db.cfg.on = ui.cfg.on /\ (~parted => ui.on = ui.cfg.on)
  /\ ui.rule # NULL /\ ~Has(calls, {"saveRules"}) /\ ~parted => ui.rule = db.rule

SettingsInv ==
  /\ page = "settings" /\ Frame
  /\ DOMAIN ui = {"view", "cfg", "on", "rule", "port", "orig", "core"}
  /\ ui.cfg # NULL => IsCfg(ui.cfg)
  /\ DOMAIN db = {"cfg", "rule"} /\ IsCfg(db.cfg)
  /\ Calls(calls) /\ Len(calls) <= MaxCalls
  /\ \A c \in ToSet(calls) : SettingsCall(c)
  /\ ~marred => SettingsKnown

\* A call is sent, or none, when none is open or the page need not agree any more.
LEMMA SettingsSend ==
  ASSUME SettingsInv, Edit, NEW r, Whole(r), ~r.ok, Len(calls) + 1 <= MaxCalls,
         calls' \in {calls, Append(calls, r)},
         r.op \in SettingsEdits, r.op \in {"save", "switch"} => IsCfg(r.arg.cfg),
         DOMAIN ui' = DOMAIN ui, ui'.cfg = ui.cfg,
         calls = <<>> /\ ~marred =>
           IF calls' = calls THEN ui'.rule = ui.rule /\ (ui'.on = ui.on \/ ui.cfg = NULL)
           ELSE IF r.op = "saveRules" THEN ui'.on = ui.on /\ r.arg = ui'.rule
           ELSE /\ ui'.rule = ui.rule /\ ui.cfg # NULL
                /\ r.op = "save" => ui'.on = ui.on /\ r.arg.cfg.on = ui.cfg.on
                /\ r.op = "switch" /\ ~parted => r.arg.cfg.on = ui'.on
  PROVE  SettingsInv'
<1>0. Calls(calls) /\ Frame /\ Len(calls) \in Nat /\ MaxCalls \in Nat
  <2>1. Calls(calls) /\ Frame
    BY DEF SettingsInv
  <2>2. Len(calls) \in Nat
    BY <2>1 DEF Calls
  <2> QED
    BY <2>1, <2>2, MaxCallsNat
<1>1. Frame' /\ UNCHANGED <<page, db, parted>> /\ (~marred' => ~marred /\ calls = <<>>)
  BY <1>0, Frames
<1>2. /\ Calls(Append(calls, r)) /\ Len(Append(calls, r)) = Len(calls) + 1
      /\ ToSet(Append(calls, r)) = ToSet(calls) \cup {r}
  BY <1>0, Sends
<1>3. Calls(calls') /\ Len(calls') <= MaxCalls /\ ToSet(calls') \subseteq ToSet(calls) \cup {r}
  BY <1>0, <1>2 DEF SettingsInv
<1>4. \A c \in ToSet(calls') : SettingsCall(c)
  BY <1>3 DEF SettingsInv, SettingsCall, SettingsEdits
<1>5. ASSUME ~marred'
      PROVE  SettingsKnown'
  <2>1. SettingsKnown /\ calls = <<>> /\ ~marred /\ ToSet(calls) = {}
    BY <1>1, <1>5, NoneOpen DEF SettingsInv
  <2>2. /\ ui.cfg # NULL => db.cfg.on = ui.cfg.on /\ (~parted => ui.on = ui.cfg.on)
        /\ ui.rule # NULL /\ ~parted => ui.rule = db.rule
    BY <2>1 DEF SettingsKnown, Has
  <2>3. CASE calls' = calls
    BY <1>1, <2>1, <2>2, <2>3 DEF SettingsKnown, Has
  <2>4. CASE calls' # calls
    <3>1. ToSet(calls') = {r} /\ Len(calls') = 1
      <4>1. calls' = Append(calls, r)
        BY <2>4
      <4>2. Len(calls) = 0
        BY <2>1, NoneOpen
      <4> QED
        BY <1>2, <2>1, <4>1, <4>2
    <3>2. CASE r.op = "saveRules"
      BY <1>1, <2>1, <2>2, <2>4, <3>1, <3>2 DEF SettingsKnown, Has
    <3>3. CASE r.op = "save"
      BY <1>1, <2>1, <2>2, <2>4, <3>1, <3>3 DEF SettingsKnown, Has
    <3>4. CASE r.op = "switch"
      BY <1>1, <2>1, <2>2, <2>4, <3>1, <3>4 DEF SettingsKnown, Has
    <3> QED
      BY <3>2, <3>3, <3>4 DEF SettingsEdits
  <2> QED
    BY <2>3, <2>4
<1> QED
  BY <1>1, <1>3, <1>4, <1>5 DEF SettingsInv

LEMMA SettingsClicks ==
  ASSUME SettingsInv, SettingsClick
  PROVE  SettingsInv'
<1>0. /\ Calls(calls) /\ Frame
      /\ calls = <<>> /\ ~marred /\ ui.cfg # NULL /\ ~parted => ui.on = ui.cfg.on
      /\ ui.cfg # NULL => IsCfg(ui.cfg)
  BY NoneOpen DEF SettingsInv, SettingsKnown, Has
<1>1. ASSUME NEW confirm, DoSave(confirm), Edit, Len(calls) + 1 <= MaxCalls,
             DOMAIN ui' = DOMAIN ui, UNCHANGED <<ui.cfg, ui.on, ui.rule>>
      PROVE  SettingsInv'
  <2> DEFINE cfg == [ui.cfg EXCEPT !.port = ui'.port]
             r == SaveSettings(cfg, confirm)
  <2>1. ui.cfg # NULL => IsCfg(cfg) /\ cfg.on = ui.cfg.on
    BY <1>0 DEF IsCfg
  <2>2. calls' = IF ui.cfg = NULL THEN calls ELSE Append(calls, r)
    BY <1>1 DEF DoSave
  <2> HIDE DEF cfg
  <2>3. Whole(r) /\ r.op = "save" /\ ~r.ok /\ r.arg.cfg = cfg
    BY WholeRequest DEF SaveSettings
  <2> HIDE DEF r
  <2>4. CASE ui.cfg = NULL
    <3> DEFINE e == Request("saveRules", NULL)
    <3>1. Whole(e) /\ e.op = "saveRules" /\ ~e.ok
      BY WholeRequest
    <3> HIDE DEF e
    <3> QED
      BY <1>1, <2>2, <2>4, <3>1, SettingsSend DEF SettingsEdits
  <2>5. CASE ui.cfg # NULL
    <3>1. calls' \in {calls, Append(calls, r)} /\ r.op \in SettingsEdits
      BY <2>2, <2>3 DEF SettingsEdits
    <3> QED
      BY <1>0, <1>1, <2>1, <2>3, <2>5, <3>1, SettingsSend
  <2> QED
    BY <2>4, <2>5
\* Nothing is sent.
<1>2. ASSUME Edit \/ Close, calls' = calls, DOMAIN ui' = DOMAIN ui, UNCHANGED <<ui.cfg, ui.on, ui.rule>>
      PROVE  SettingsInv'
  <2>1. Frame' /\ UNCHANGED <<page, db, parted>> /\ (~marred' => ~marred)
    BY <1>0, <1>2, Frames
  <2> QED
    BY <1>2, <2>1 DEF SettingsInv, SettingsKnown, SettingsCall
<1>3. CASE SaveRadius
  <2>1. DOMAIN ui' = DOMAIN ui /\ UNCHANGED <<ui.cfg, ui.on, ui.rule>>
    BY <1>3 DEF SaveRadius, SettingsInv
  <2>2. Edit /\ Len(calls) + 1 <= MaxCalls /\ (DoSave(FALSE) \/ calls' = calls)
    BY <1>3 DEF SaveRadius, Room
  <2> QED
    BY <1>1, <1>2, <2>1, <2>2
<1>4. CASE ConfirmCore
  <2>1. DOMAIN ui' = DOMAIN ui /\ UNCHANGED <<ui.cfg, ui.on, ui.rule>>
    BY <1>4 DEF ConfirmCore, SettingsInv
  <2>2. Edit /\ Len(calls) + 1 <= MaxCalls /\ DoSave(TRUE)
    BY <1>4 DEF ConfirmCore, Room
  <2> QED
    BY <1>1, <2>1, <2>2
<1>5. CASE CancelCore
  <2>1. DOMAIN ui' = DOMAIN ui /\ UNCHANGED <<ui.cfg, ui.on, ui.rule>> /\ Close /\ calls' = calls
    BY <1>5 DEF CancelCore, SettingsInv
  <2> QED
    BY <1>2, <2>1
<1>6. CASE ToggleMaster
  <2>1. PICK s \in Switches :
          /\ ui' = [ui EXCEPT !.on[s] = ~@]
          /\ calls' = IF ui.cfg = NULL THEN calls
                      ELSE Append(calls, SaveSwitch([ui.cfg EXCEPT !.on[s] = ~ui.on[s]]))
    BY <1>6 DEF ToggleMaster
  <2>2. Edit /\ Len(calls) + 1 <= MaxCalls
    BY <1>6 DEF ToggleMaster, Room
  <2>3. DOMAIN ui' = DOMAIN ui /\ ui'.cfg = ui.cfg /\ ui'.rule = ui.rule
        /\ ui'.on = [ui.on EXCEPT ![s] = ~ui.on[s]]
    BY <2>1 DEF SettingsInv
  <2> DEFINE cfg == [ui.cfg EXCEPT !.on[s] = ~ui.on[s]]
             r == SaveSwitch(cfg)
  <2>4. ui.cfg # NULL => IsCfg(cfg) /\ cfg.on = [ui.cfg.on EXCEPT ![s] = ~ui.on[s]]
    BY <1>0 DEF IsCfg
  <2>5. calls' = IF ui.cfg = NULL THEN calls ELSE Append(calls, r)
    BY <2>1
  <2> HIDE DEF cfg
  <2>6. Whole(r) /\ r.op = "switch" /\ ~r.ok /\ r.arg.cfg = cfg
    BY WholeRequest DEF SaveSwitch
  <2> HIDE DEF r
  <2>7. CASE ui.cfg = NULL
    <3> DEFINE e == Request("saveRules", NULL)
    <3>1. Whole(e) /\ e.op = "saveRules" /\ ~e.ok
      BY WholeRequest
    <3> HIDE DEF e
    <3> QED
      BY <2>2, <2>3, <2>5, <2>7, <3>1, SettingsSend DEF SettingsEdits
  <2>8. CASE ui.cfg # NULL
    <3>1. calls' \in {calls, Append(calls, r)} /\ r.op \in SettingsEdits
      BY <2>5, <2>6 DEF SettingsEdits
    <3>2. calls = <<>> /\ ~marred /\ ~parted => cfg.on = ui'.on
      BY <1>0, <2>3, <2>4, <2>8
    <3>3. calls' # calls
      <4>1. ToSet(Append(calls, r)) = ToSet(calls) \cup {r} /\ Len(Append(calls, r)) = Len(calls) + 1
            /\ Len(calls) \in Nat
        BY <1>0, <2>6, Sends
      <4> QED
        BY <2>5, <2>8, <4>1
    <3> QED
      BY <2>2, <2>3, <2>4, <2>6, <2>8, <3>1, <3>2, <3>3, SettingsSend
  <2> QED
    BY <2>7, <2>8
<1>7. CASE SaveAlertCard
  <2>1. PICK on : ui' = [ui EXCEPT !.rule = on] /\ calls' = Append(calls, SaveAlertRules(on))
    BY <1>7 DEF SaveAlertCard
  <2> DEFINE r == SaveAlertRules(on)
  <2>2. Whole(r) /\ r.op = "saveRules" /\ r.arg = on /\ ~r.ok
    BY WholeRequest DEF SaveAlertRules
  <2>3. calls' = Append(calls, r)
    BY <2>1
  <2> HIDE DEF r
  <2>4. DOMAIN ui' = DOMAIN ui /\ UNCHANGED <<ui.cfg, ui.on>> /\ ui'.rule = on
    BY <2>1 DEF SettingsInv
  <2>5. Edit /\ Len(calls) + 1 <= MaxCalls
    BY <1>7 DEF SaveAlertCard, Room
  <2>6. calls' # calls
    <3>1. Len(Append(calls, r)) = Len(calls) + 1 /\ Len(calls) \in Nat
      BY <1>0, <2>2, Sends
    <3> QED
      BY <2>3, <3>1
  <2> QED
    BY <2>2, <2>3, <2>4, <2>5, <2>6, SettingsSend DEF SettingsEdits
<1> QED
  BY <1>3, <1>4, <1>5, <1>6, <1>7 DEF SettingsClick

LEMMA SettingsAnswers ==
  ASSUME SettingsInv, NEW i \in DOMAIN calls, ServeSettings(i) \/ Lose(i)
  PROVE  SettingsInv'
<1>0. /\ Calls(calls) /\ Frame /\ calls[i] \in ToSet(calls) /\ SettingsCall(calls[i])
      /\ calls[i].pc = "sent" => ~calls[i].ok
      /\ ~marred => SettingsKnown
      /\ DOMAIN db = {"cfg", "rule"} /\ IsCfg(db.cfg)
  BY SentCalls DEF SettingsInv
\* What the answer brings, and what it changes in the service.
<1>1. ASSUME NEW ok \in BOOLEAN, NEW answer, calls' = Answering(calls, i, ok, answer),
             Frame', UNCHANGED <<page, ui, parted>>,
             DOMAIN db' = {"cfg", "rule"}, IsCfg(db'.cfg),
             calls[i].op = "settings" /\ ok => IsCfg(answer) /\ answer = db.cfg,
             calls[i].op = "rules" /\ ok => answer = db.rule,
             calls[i].op \notin SettingsEdits => UNCHANGED db,
             calls[i].op \in {"save", "switch"} =>
               db'.rule = db.rule /\ (IF ok THEN db'.cfg = calls[i].arg.cfg ELSE UNCHANGED db),
             calls[i].op = "saveRules" =>
               db'.cfg = db.cfg /\ (IF ok THEN db'.rule = calls[i].arg ELSE UNCHANGED db),
             ~marred' => ~marred /\ calls[i].pc = "sent"
      PROVE  SettingsInv'
  <2> DEFINE a == calls'[i]
  <2>1. /\ Calls(calls') /\ Len(calls') = Len(calls) /\ DOMAIN calls' = DOMAIN calls
        /\ a.op = calls[i].op /\ a.arg = calls[i].arg /\ a.ok = ok /\ a.answer = answer
        /\ ToSet(calls') \subseteq ToSet(calls) \cup {a}
        /\ \A ops : Has(calls', ops) <=> Has(calls, ops)
    BY <1>0, <1>1, Answers
  <2> HIDE DEF a
  <2>2. \A c \in ToSet(calls') : SettingsCall(c)
    <3>1. SettingsCall(a)
      BY <1>0, <1>1, <2>1 DEF SettingsCall
    <3> QED
      BY <2>1, <3>1 DEF SettingsInv
  <2>3. ASSUME ~marred'
        PROVE  SettingsKnown'
    <3>0. SettingsKnown
      BY <1>0, <1>1, <2>3
    <3>1. CASE calls[i].op \notin SettingsEdits
      <4>1. UNCHANGED db
        BY <1>1, <3>1
      <4>2. \A c \in ToSet(calls') :
              /\ c.op = "settings" /\ c.ok => c.answer.on = db.cfg.on
              /\ c.op = "rules" /\ c.ok => c.answer = db.rule
              /\ c.op = "save" => ui.cfg # NULL /\ c.arg.cfg.on = ui.cfg.on
              /\ c.op = "switch" =>
                   /\ ui.cfg # NULL
                   /\ db.cfg.on = IF c.ok THEN c.arg.cfg.on ELSE ui.cfg.on
                   /\ ~parted => c.arg.cfg.on = ui.on
              /\ c.op = "saveRules" => c.arg = ui.rule /\ (c.ok => db.rule = ui.rule)
        BY <1>1, <2>1, <3>0, <3>1 DEF SettingsKnown, SettingsEdits
      <4> QED
        BY <1>1, <2>1, <3>0, <4>1, <4>2 DEF SettingsKnown
    <3>2. CASE calls[i].op \in SettingsEdits
      <4>1. Len(calls) = 1
        BY <1>0, <3>0, <3>2 DEF SettingsKnown, Has
      <4>2. ToSet(calls) = {calls[i]} /\ ToSet(calls') = {a}
        BY <1>0, <2>1, <4>1, AloneEnds DEF a
      <4>3. calls[i].op \in {"save", "switch"} => UNCHANGED db \/ (ok /\ db'.cfg = calls[i].arg.cfg)
        BY <1>1
      <4>4. CASE calls[i].op = "save"
        <5>1. UNCHANGED <<db.rule, db.cfg.on>> /\ ui.cfg # NULL /\ calls[i].arg.cfg.on = ui.cfg.on
          BY <1>1, <3>0, <4>3, <4>2, <4>4 DEF SettingsKnown, Has
        <5> QED
          BY <1>1, <2>1, <3>0, <4>1, <4>2, <4>4, <5>1 DEF SettingsKnown, Has
      <4>5. CASE calls[i].op = "switch"
        <5>1. /\ db'.rule = db.rule /\ ui.cfg # NULL
              /\ db'.cfg.on = IF ok THEN calls[i].arg.cfg.on ELSE ui.cfg.on
              /\ ~parted => calls[i].arg.cfg.on = ui.on
          BY <1>0, <1>1, <2>3, <3>0, <4>2, <4>5 DEF SettingsKnown
        <5> QED
          BY <1>1, <2>1, <3>0, <4>1, <4>2, <4>5, <5>1 DEF SettingsKnown, Has
      <4>6. CASE calls[i].op = "saveRules"
        BY <1>0, <1>1, <2>1, <3>0, <4>1, <4>2, <4>6 DEF SettingsKnown, Has
      <4> QED
        BY <3>2, <4>4, <4>5, <4>6 DEF SettingsEdits
    <3> QED
      BY <3>1, <3>2
  <2> QED
    BY <1>1, <2>1, <2>2, <2>3 DEF SettingsInv
<1>2. CASE Lose(i)
  <2>1. /\ Frame' /\ UNCHANGED <<page, ui, db, parted>> /\ calls' = Answering(calls, i, FALSE, NULL)
        /\ ~marred' => ~marred /\ calls[i].pc = "sent"
    BY <1>0, <1>2, Loses
  <2> QED
    BY <1>1, <2>1 DEF SettingsInv
<1>3. ASSUME NEW ok \in BOOLEAN, NEW answer, NEW after, Answered(i, ok, answer, after)
      PROVE  /\ Frame' /\ UNCHANGED <<page, ui, marred, parted>> /\ db' = after
             /\ calls' = Answering(calls, i, ok, answer) /\ calls[i].pc = "sent"
  BY <1>0, <1>3, IsAnswered
<1>4. CASE calls[i].op = "settings" /\ Answered(i, TRUE, db.cfg, db)
  <2>1. /\ Frame' /\ UNCHANGED <<page, ui, marred, parted, db>>
        /\ calls' = Answering(calls, i, TRUE, db.cfg) /\ calls[i].pc = "sent"
    BY <1>3, <1>4
  <2> QED
    BY <1>0, <1>1, <1>4, <2>1 DEF SettingsEdits
<1>5. CASE calls[i].op = "rules" /\ Answered(i, TRUE, db.rule, db)
  <2>1. /\ Frame' /\ UNCHANGED <<page, ui, marred, parted, db>>
        /\ calls' = Answering(calls, i, TRUE, db.rule) /\ calls[i].pc = "sent"
    BY <1>3, <1>5
  <2> QED
    BY <1>0, <1>1, <1>5, <2>1 DEF SettingsEdits
<1>6. CASE calls[i].op \in {"save", "switch"} /\ Answered(i, TRUE, NULL, [db EXCEPT !.cfg = calls[i].arg.cfg])
  <2>1. db' = [db EXCEPT !.cfg = calls[i].arg.cfg]
    BY <1>6 DEF Answered
  <2>2. DOMAIN db' = {"cfg", "rule"} /\ db'.cfg = calls[i].arg.cfg /\ db'.rule = db.rule
    BY <1>0, <2>1
  <2>3. IsCfg(calls[i].arg.cfg)
    BY <1>0, <1>6 DEF SettingsCall
  <2>4. /\ Frame' /\ UNCHANGED <<page, ui, marred, parted>>
        /\ calls' = Answering(calls, i, TRUE, NULL) /\ calls[i].pc = "sent"
    BY <1>3, <1>6
  <2> QED
    BY <1>1, <1>6, <2>2, <2>3, <2>4 DEF SettingsEdits
<1>7. CASE calls[i].op \in {"save", "switch"} /\ Refuse(i)
  <2>1. /\ Frame' /\ UNCHANGED <<page, ui, marred, parted, db>>
        /\ calls' = Answering(calls, i, FALSE, NULL) /\ calls[i].pc = "sent"
    BY <1>3, <1>7 DEF Refuse
  <2> QED
    BY <1>0, <1>1, <1>7, <2>1 DEF SettingsEdits
<1>8. CASE calls[i].op = "saveRules" /\ Answered(i, TRUE, NULL, [db EXCEPT !.rule = calls[i].arg])
  <2>1. db' = [db EXCEPT !.rule = calls[i].arg]
    BY <1>8 DEF Answered
  <2>2. DOMAIN db' = {"cfg", "rule"} /\ db'.rule = calls[i].arg /\ db'.cfg = db.cfg
    BY <1>0, <2>1
  <2>3. /\ Frame' /\ UNCHANGED <<page, ui, marred, parted>>
        /\ calls' = Answering(calls, i, TRUE, NULL) /\ calls[i].pc = "sent"
    BY <1>3, <1>8
  <2> QED
    BY <1>0, <1>1, <1>8, <2>2, <2>3 DEF SettingsEdits
<1> QED
  BY <1>2, <1>4, <1>5, <1>6, <1>7, <1>8 DEF ServeSettings

LEMMA SettingsReceives ==
  ASSUME SettingsInv, NEW i \in DOMAIN calls, SettingsReceive(i)
  PROVE  SettingsInv'
<1> DEFINE cs == RemoveAt(calls, i)
<1>0. /\ Calls(calls) /\ Frame /\ calls[i] \in ToSet(calls) /\ SettingsCall(calls[i])
      /\ calls[i].ok \in BOOLEAN
      /\ ~marred => SettingsKnown
  BY SentCalls DEF SettingsInv
<1>1. Calls(cs) /\ Len(cs) = Len(calls) - 1 /\ Len(calls) \in Nat /\ ToSet(cs) \subseteq ToSet(calls)
  BY <1>0, Ends
<1> HIDE DEF cs
<1>2. \A c \in ToSet(cs) : SettingsCall(c)
  BY <1>1 DEF SettingsInv
<1>3. Len(cs) <= MaxCalls
  BY <1>1, MaxCallsNat DEF SettingsInv
\* Beside an answer to a reading, no change is open.
<1>4. ASSUME ~marred, calls[i].op \notin SettingsEdits
      PROVE  SettingsKnown /\ ~Has(calls, SettingsEdits)
  <2>1. SettingsKnown
    BY <1>0, <1>4
  <2>2. ASSUME Has(calls, SettingsEdits)
        PROVE  FALSE
    <3>1. ToSet(calls) = {calls[i]}
      BY <1>0, <2>1, <2>2, AloneEnds DEF SettingsKnown
    <3> QED
      BY <1>4, <2>2, <3>1 DEF Has
  <2> QED
    BY <2>1, <2>2
<1>5. CASE ReceiveSettings(i)
  <2>1. calls[i].op = "settings" /\ calls' = cs /\ UNCHANGED parted
    BY <1>5 DEF ReceiveSettings, cs
  <2>2. Frame' /\ UNCHANGED <<page, db, marred>>
    BY <1>0, <1>5, Frames DEF ReceiveSettings, Frame
  <2>3. CASE calls[i].ok
    <3>1. /\ DOMAIN ui' = DOMAIN ui /\ ui'.cfg = calls[i].answer /\ ui'.on = calls[i].answer.on
          /\ ui'.rule = ui.rule
      BY <1>5, <2>3 DEF ReceiveSettings, SettingsInv
    <3>2. IsCfg(calls[i].answer)
      BY <1>0, <2>1, <2>3 DEF SettingsCall
    <3>3. ASSUME ~marred
          PROVE  SettingsKnown'
      <4>1. SettingsKnown /\ ~Has(calls, SettingsEdits)
        BY <1>4, <2>1, <3>3 DEF SettingsEdits
      <4>2. calls[i].answer.on = db.cfg.on
        BY <1>0, <2>1, <2>3, <4>1 DEF SettingsKnown
      <4> QED
        BY <1>1, <2>1, <2>2, <3>1, <4>1, <4>2 DEF SettingsKnown, SettingsEdits, Has
    <3> QED
      BY <1>1, <1>2, <1>3, <2>1, <2>2, <3>1, <3>2, <3>3 DEF SettingsInv
  <2>4. CASE ~calls[i].ok
    <3>1. ui' = ui
      BY <1>5, <2>4 DEF ReceiveSettings
    <3>2. ASSUME ~marred
          PROVE  SettingsKnown'
      <4>1. SettingsKnown /\ ~Has(calls, SettingsEdits)
        BY <1>4, <2>1, <3>2 DEF SettingsEdits
      <4> QED
        BY <1>1, <2>1, <2>2, <3>1, <4>1 DEF SettingsKnown, SettingsEdits, Has
    <3> QED
      BY <1>1, <1>2, <1>3, <2>1, <2>2, <3>1, <3>2 DEF SettingsInv
  <2> QED
    BY <1>0, <2>3, <2>4
<1>6. CASE ReceiveAlertRules(i)
  <2>1. calls[i].op = "rules" /\ calls' = cs /\ UNCHANGED parted
    BY <1>6 DEF ReceiveAlertRules, cs
  <2>2. Frame' /\ UNCHANGED <<page, db, marred>>
    BY <1>0, <1>6, Frames DEF ReceiveAlertRules, Frame
  <2>3. /\ DOMAIN ui' = DOMAIN ui /\ UNCHANGED <<ui.cfg, ui.on>>
        /\ ui'.rule = IF calls[i].ok THEN calls[i].answer ELSE ui.rule
    BY <1>6 DEF ReceiveAlertRules, SettingsInv
  <2>4. ASSUME ~marred
        PROVE  SettingsKnown'
    <3>1. SettingsKnown /\ ~Has(calls, SettingsEdits)
      BY <1>4, <2>1, <2>4 DEF SettingsEdits
    <3>2. ui'.rule = ui.rule \/ ui'.rule = db.rule
      BY <1>0, <2>1, <2>3, <3>1 DEF SettingsKnown
    <3> QED
      BY <1>1, <2>1, <2>2, <2>3, <3>1, <3>2 DEF SettingsKnown, SettingsEdits, Has
  <2> QED
    BY <1>1, <1>2, <1>3, <2>1, <2>2, <2>3, <2>4 DEF SettingsInv
<1>7. CASE ReceiveSettingsSave(i) \/ ReceiveRulesSave(i)
  <2>1. /\ calls[i].op \in SettingsEdits /\ calls' = cs
        /\ parted' = (parted \/ (calls[i].op # "save" /\ ~calls[i].ok))
        /\ UNCHANGED <<page, db, clicks, faults, changes, marred>>
    BY <1>7 DEF ReceiveSettingsSave, ReceiveRulesSave, MayStay, Continue, SettingsEdits, cs
  <2>2. /\ DOMAIN ui' = DOMAIN ui /\ UNCHANGED <<ui.on, ui.rule>>
        /\ ui'.cfg = IF calls[i].ok /\ calls[i].op = "switch" THEN calls[i].arg.cfg ELSE ui.cfg
    <3>1. CASE ReceiveSettingsSave(i)
      BY <3>1 DEF ReceiveSettingsSave, SettingsInv
    <3>2. CASE ReceiveRulesSave(i)
      BY <3>2 DEF ReceiveRulesSave
    <3> QED
      BY <1>7, <3>1, <3>2
  <2>3. Frame'
    BY <1>0, <2>1 DEF Frame
  <2>4. ui'.cfg # NULL => IsCfg(ui'.cfg)
    BY <1>0, <2>1, <2>2 DEF SettingsCall, SettingsInv
  <2>5. ASSUME ~marred'
        PROVE  SettingsKnown'
    <3>1. SettingsKnown
      BY <1>0, <2>1, <2>5
    <3>2. ToSet(calls) = {calls[i]} /\ ToSet(calls') = {}
      BY <1>0, <2>1, <3>1, AloneEnds DEF SettingsKnown, Has, cs
    <3>3. CASE calls[i].op = "switch"
      BY <2>1, <2>2, <3>1, <3>2, <3>3 DEF SettingsKnown, Has
    <3>4. CASE calls[i].op = "save"
      BY <2>1, <2>2, <3>1, <3>2, <3>4 DEF SettingsKnown, Has
    <3>5. CASE calls[i].op = "saveRules"
      BY <2>1, <2>2, <3>1, <3>2, <3>5 DEF SettingsKnown, Has
    <3> QED
      BY <2>1, <3>3, <3>4, <3>5 DEF SettingsEdits
  <2> QED
    BY <1>1, <1>2, <1>3, <2>1, <2>2, <2>3, <2>4, <2>5 DEF SettingsInv
<1> QED
  BY <1>5, <1>6, <1>7 DEF SettingsReceive

LEMMA SettingsSteps ==
  ASSUME SettingsInv, [Next]_vars
  PROVE  SettingsInv'
<1>1. CASE UNCHANGED vars
  BY <1>1 DEF vars, SettingsInv, SettingsKnown, Frame
<1>2. page = "settings"
  BY DEF SettingsInv
<1> QED
  BY <1>1, <1>2, SettingsClicks, SettingsAnswers, SettingsReceives
     DEF Next, User, Serve, Receive, Timer, Elsewhere

-----------------------------------------------------------------------------
(* The administrators. *)

AdminEdits == {"role", "revoke", "grant"}
AdminCalls == AdminEdits \cup {"list"}

IsTable(f) == f = [x \in DOMAIN f |-> f[x]]

AdminCall(c) ==
  /\ c.op # "load"
  /\ c.op = "list" => c.arg = Everything
  /\ c.op = "list" /\ c.ok => IsRows(c.answer) /\ c.answer.by = Everything

\* One call at most lists or changes; what it has changed will be changed in the page.
AdminsKnown(cs, rows, admins) ==
  /\ Single(cs, AdminCalls)
  /\ rows.by = NULL => Has(cs, {"list"})
  /\ ~Has(cs, {"list"}) /\ ~Acted(cs, AdminEdits) => rows.of = admins
  /\ \A c \in ToSet(cs) :
       /\ c.op = "list" /\ c.pc = "answered" => c.ok /\ c.answer.of = admins
       /\ c.op = "role" /\ c.ok =>
            /\ c.arg.id \in DOMAIN rows.of
            /\ admins = [x \in DOMAIN rows.of |-> IF x = c.arg.id THEN c.arg.role ELSE rows.of[x]]
       /\ c.op = "revoke" /\ c.ok =>
            /\ c.arg.id \in DOMAIN rows.of
            /\ admins = [x \in DOMAIN rows.of \ {c.arg.id} |-> rows.of[x]]

AdminDialogs ==
  /\ ui.modal # NULL => Whole(ui.modal) /\ ~ui.modal.ok /\ ui.modal.op \in {"role", "revoke"}
  /\ ui.grant # NULL => ui.grant \in [users : SUBSET Items, busy : BOOLEAN]

AdminsInv ==
  /\ page = "admins" /\ Frame
  /\ DOMAIN ui = {"view", "rows", "modal", "grant"} /\ IsRows(ui.rows) /\ AdminDialogs
  /\ IsTable(db.admins)
  /\ Calls(calls) /\ Len(calls) <= MaxCalls
  /\ \A c \in ToSet(calls) : AdminCall(c)
  /\ Single(calls, {"users"})
  /\ Has(calls, {"users"}) => ui.grant # NULL
  /\ ~marred => AdminsKnown(calls, ui.rows, db.admins)

\* Of these there is one call, and this is it.
LEMMA Sole ==
  ASSUME NEW cs, NEW ops, Single(cs, ops), NEW i \in DOMAIN cs, cs[i].op \in ops
  PROVE  \A c \in ToSet(cs) : c.op \in ops => c = cs[i]
BY DEF Single, ToSet

\* Calls come and go that neither list nor have changed anything.
Idle(c) == c.op # "list" /\ (c.op \in AdminEdits => ~c.ok)

LEMMA AdminsIdle ==
  ASSUME NEW cs, NEW d, NEW rows, NEW admins, AdminsKnown(cs, rows, admins), Single(d, AdminCalls),
         \A c \in ToSet(d) : c \in ToSet(cs) \/ Idle(c),
         \A c \in ToSet(cs) : c \in ToSet(d) \/ Idle(c)
  PROVE  AdminsKnown(d, rows, admins)
<1>1. Has(d, {"list"}) <=> Has(cs, {"list"})
  BY DEF Has, Idle
<1>2. Acted(d, AdminEdits) <=> Acted(cs, AdminEdits)
  BY DEF Acted, Idle
<1>3. \A c \in ToSet(d) : c \in ToSet(cs) \/ (c.op # "list" /\ (c.op \in {"role", "revoke"} => ~c.ok))
  BY DEF Idle, AdminEdits
<1> QED
  BY <1>1, <1>2, <1>3 DEF AdminsKnown

LEMMA AdminsClicks ==
  ASSUME AdminsInv, AdminsClick
  PROVE  AdminsInv'
<1>0. /\ Calls(calls) /\ Frame /\ AdminDialogs /\ Single(calls, {"users"})
      /\ DOMAIN ui = {"view", "rows", "modal", "grant"}
      /\ Has(calls, {"users"}) => ui.grant # NULL
  BY DEF AdminsInv
\* A change is sent.
<1>1. ASSUME NEW r, Whole(r), ~r.ok, r.op \in AdminEdits, Room(1), calls' = Append(calls, r), Edit,
             DOMAIN ui' = DOMAIN ui, ui'.rows = ui.rows, AdminDialogs', ui.grant # NULL => ui'.grant # NULL
      PROVE  AdminsInv'
  <2>1. Frame' /\ UNCHANGED <<page, db>> /\ (~marred' => ~marred /\ calls = <<>>)
    BY <1>0, <1>1, Frames
  <2>2. /\ Calls(calls') /\ Len(calls') = Len(calls) + 1
        /\ ToSet(calls') = ToSet(calls) \cup {r}
        /\ \A ops : Single(calls, ops) /\ (r.op \notin ops \/ ~Has(calls, ops)) => Single(calls', ops)
    BY <1>0, <1>1, Sends
  <2>3. r.op \notin {"load", "list", "users"}
    BY <1>1 DEF AdminEdits
  <2>4. Single(calls', {"users"})
    BY <1>0, <2>2, <2>3
  <2>5. Has(calls', {"users"}) => ui'.grant # NULL
    BY <1>0, <1>1, <2>2, <2>3 DEF Has
  <2>6. \A c \in ToSet(calls') : AdminCall(c)
    BY <2>2, <2>3 DEF AdminsInv, AdminCall
  <2>7. ASSUME ~marred'
        PROVE  AdminsKnown(calls', ui.rows, db.admins)
    <3>1. AdminsKnown(calls, ui.rows, db.admins) /\ ToSet(calls) = {}
      BY <2>1, <2>7, NoneOpen DEF AdminsInv
    <3>2. Single(calls', AdminCalls)
      BY <2>2, <3>1 DEF AdminsKnown, Has
    <3>3. Idle(r)
      BY <1>1, <2>3 DEF Idle
    <3> QED
      BY <2>2, <3>1, <3>2, <3>3, AdminsIdle
  <2> QED
    BY <1>1, <2>1, <2>2, <2>4, <2>5, <2>6, <2>7 DEF AdminsInv, Room
\* Nothing is sent.
<1>2. ASSUME Look \/ Close, calls' = calls, DOMAIN ui' = DOMAIN ui, ui'.rows = ui.rows,
             AdminDialogs', ui'.grant = ui.grant
      PROVE  AdminsInv'
  <2>1. Frame' /\ UNCHANGED <<page, db, marred>>
    BY <1>0, <1>2, Frames
  <2> QED
    BY <1>2, <2>1 DEF AdminsInv
<1>3. ASSUME NEW r, Whole(r), ~r.ok, r.op \in {"role", "revoke"}, ui' = [ui EXCEPT !.modal = r],
             Look, calls' = calls
      PROVE  AdminsInv'
  <2>1. DOMAIN ui' = DOMAIN ui /\ UNCHANGED <<ui.rows, ui.grant>> /\ ui'.modal = r
    BY <1>0, <1>3
  <2> QED
    BY <1>0, <1>2, <1>3, <2>1 DEF AdminDialogs
<1>4. CASE ChangeRole
  <2>1. PICK x, role : ui' = [ui EXCEPT !.modal = Request("role", [id |-> x, role |-> role])]
    BY <1>4 DEF ChangeRole
  <2> DEFINE r == Request("role", [id |-> x, role |-> role])
  <2>2. Whole(r) /\ ~r.ok /\ r.op = "role"
    BY WholeRequest
  <2>3. ui' = [ui EXCEPT !.modal = r] /\ Look /\ calls' = calls
    BY <1>4, <2>1 DEF ChangeRole
  <2> HIDE DEF r
  <2> QED
    BY <1>3, <2>2, <2>3
<1>5. CASE RevokeAdmin
  <2>1. PICK x : ui' = [ui EXCEPT !.modal = Request("revoke", [id |-> x])]
    BY <1>5 DEF RevokeAdmin
  <2> DEFINE r == Request("revoke", [id |-> x])
  <2>2. Whole(r) /\ ~r.ok /\ r.op = "revoke"
    BY WholeRequest
  <2>3. ui' = [ui EXCEPT !.modal = r] /\ Look /\ calls' = calls
    BY <1>5, <2>1 DEF RevokeAdmin
  <2> HIDE DEF r
  <2> QED
    BY <1>3, <2>2, <2>3
<1>6. CASE ConfirmAdmin
  <2>1. DOMAIN ui' = DOMAIN ui /\ UNCHANGED <<ui.rows, ui.grant>> /\ ui'.modal = NULL
    BY <1>0, <1>6 DEF ConfirmAdmin
  <2>2. AdminDialogs'
    BY <1>0, <2>1 DEF AdminDialogs
  <2>3. Whole(ui.modal) /\ ~ui.modal.ok /\ ui.modal.op \in AdminEdits
    BY <1>0, <1>6 DEF ConfirmAdmin, AdminDialogs, AdminEdits
  <2> QED
    BY <1>1, <1>6, <2>1, <2>2, <2>3 DEF ConfirmAdmin
<1>7. CASE CancelAdmin
  <2>1. DOMAIN ui' = DOMAIN ui /\ UNCHANGED <<ui.rows, ui.grant>> /\ ui'.modal = NULL
    BY <1>0, <1>7 DEF CancelAdmin
  <2> QED
    BY <1>0, <1>2, <1>7, <2>1 DEF CancelAdmin, AdminDialogs
<1>8. CASE OpenGrant
  <2> DEFINE r == Request("users", NULL)
             g == [users |-> {}, busy |-> FALSE]
  <2>1. Whole(r) /\ ~r.ok /\ r.op = "users" /\ calls' = Append(calls, r)
    BY <1>8, WholeRequest DEF OpenGrant
  <2> HIDE DEF r
  <2>2. g \in [users : SUBSET Items, busy : BOOLEAN] /\ g # NULL
    <3>1. {} \in SUBSET Items
      OBVIOUS
    <3>2. g \in [users : SUBSET Items, busy : BOOLEAN]
      BY <3>1
    <3> HIDE DEF g
    <3> QED
      BY <3>2, GrantAssumption
  <2>3. ui' = [ui EXCEPT !.grant = g] /\ Look /\ Room(1) /\ ui.grant = NULL
    BY <1>8 DEF OpenGrant
  <2> HIDE DEF g
  <2>4. DOMAIN ui' = DOMAIN ui /\ UNCHANGED <<ui.rows, ui.modal>> /\ ui'.grant = g
    BY <1>0, <2>3
  <2>5. AdminDialogs'
    BY <1>0, <2>2, <2>4 DEF AdminDialogs
  <2>6. Frame' /\ UNCHANGED <<page, db, marred>>
    BY <1>0, <2>3, Frames
  <2>7. /\ Calls(calls') /\ Len(calls') = Len(calls) + 1
        /\ ToSet(calls') = ToSet(calls) \cup {r}
        /\ \A ops : Single(calls, ops) /\ (r.op \notin ops \/ ~Has(calls, ops)) => Single(calls', ops)
    BY <1>0, <2>1, Sends
  <2>8. Single(calls', {"users"})
    BY <1>0, <2>3, <2>7
  <2>9. \A c \in ToSet(calls') : AdminCall(c)
    BY <2>1, <2>7 DEF AdminsInv, AdminCall
  <2>10. ASSUME ~marred
         PROVE  AdminsKnown(calls', ui.rows, db.admins)
    <3>1. AdminsKnown(calls, ui.rows, db.admins)
      BY <2>10 DEF AdminsInv
    <3>2. r.op \notin AdminCalls
      BY <2>1 DEF AdminCalls, AdminEdits
    <3>3. Single(calls', AdminCalls) /\ Idle(r)
      BY <2>1, <2>7, <3>1, <3>2 DEF AdminsKnown, Idle, AdminCalls
    <3> QED
      BY <2>7, <3>1, <3>3, AdminsIdle
  <2> QED
    BY <2>2, <2>3, <2>4, <2>5, <2>6, <2>7, <2>8, <2>9, <2>10 DEF AdminsInv, Room
<1>9. CASE CloseGrant
  <2>1. DOMAIN ui' = DOMAIN ui /\ UNCHANGED <<ui.rows, ui.modal>> /\ ui'.grant = NULL
    BY <1>0, <1>9 DEF CloseGrant
  <2>2. AdminDialogs'
    BY <1>0, <2>1 DEF AdminDialogs
  <2>3. Frame' /\ UNCHANGED <<page, db, marred>> /\ calls' = Cancel(calls, "users")
    BY <1>0, <1>9, Frames DEF CloseGrant
  <2>4. /\ Calls(calls') /\ Len(calls') \in Nat /\ Len(calls) \in Nat
        /\ Len(calls') = IF Has(calls, {"users"}) THEN Len(calls) - 1 ELSE Len(calls)
        /\ ToSet(calls') = {c \in ToSet(calls) : c.op # "users"} /\ ~Has(calls', {"users"})
        /\ \A ops : Single(calls, ops) => Single(calls', ops)
    BY <1>0, <2>3, Cancels
  <2>5. Len(calls') <= MaxCalls
    <3>1. Len(calls) <= MaxCalls
      BY DEF AdminsInv
    <3> QED
      BY <2>4, <3>1, MaxCallsNat
  <2>6. \A c \in ToSet(calls') : AdminCall(c)
    BY <2>4 DEF AdminsInv
  <2>7. ASSUME ~marred
        PROVE  AdminsKnown(calls', ui.rows, db.admins)
    <3>1. AdminsKnown(calls, ui.rows, db.admins)
      BY <2>7 DEF AdminsInv
    <3>2. \A c \in ToSet(calls) : c \in ToSet(calls') \/ Idle(c)
      BY <2>4 DEF Idle, AdminEdits
    <3>3. Single(calls', AdminCalls)
      BY <2>4, <3>1 DEF AdminsKnown
    <3> QED
      BY <2>4, <3>1, <3>2, <3>3, AdminsIdle
  <2> QED
    BY <1>0, <2>1, <2>2, <2>3, <2>4, <2>5, <2>6, <2>7 DEF AdminsInv
<1>10. CASE Grant
  <2>1. PICK x, role : calls' = Append(calls, Request("grant", [id |-> x, role |-> role]))
    BY <1>10 DEF Grant
  <2> DEFINE r == Request("grant", [id |-> x, role |-> role])
             g == [ui.grant EXCEPT !.busy = TRUE]
  <2>2. Whole(r) /\ ~r.ok /\ r.op \in AdminEdits /\ calls' = Append(calls, r)
    BY <2>1, WholeRequest DEF AdminEdits
  <2> HIDE DEF r
  <2>3. ui.grant # NULL /\ ui.grant \in [users : SUBSET Items, busy : BOOLEAN]
    BY <1>0, <1>10 DEF Grant, AdminDialogs
  <2>4. g \in [users : SUBSET Items, busy : BOOLEAN]
    BY <2>3
  <2>5. ui' = [ui EXCEPT !.grant = g] /\ Edit /\ Room(1)
    BY <1>10 DEF Grant
  <2> HIDE DEF g
  <2>6. DOMAIN ui' = DOMAIN ui /\ UNCHANGED <<ui.rows, ui.modal>> /\ ui'.grant = g
    BY <1>0, <2>5
  <2>7. g # NULL /\ AdminDialogs'
    BY <1>0, <2>4, <2>6, GrantAssumption DEF AdminDialogs
  <2> QED
    BY <1>1, <2>2, <2>5, <2>6, <2>7
<1> QED
  BY <1>4, <1>5, <1>6, <1>7, <1>8, <1>9, <1>10 DEF AdminsClick

LEMMA AdminsAnswers ==
  ASSUME AdminsInv, NEW i \in DOMAIN calls, ServeAdmins(i) \/ Lose(i)
  PROVE  AdminsInv'
<1>0. /\ Calls(calls) /\ Frame /\ Single(calls, {"users"}) /\ IsTable(db.admins)
      /\ calls[i] \in ToSet(calls) /\ AdminCall(calls[i])
      /\ calls[i].pc = "sent" => ~calls[i].ok
      /\ ~marred => AdminsKnown(calls, ui.rows, db.admins)
  BY SentCalls DEF AdminsInv
<1>1. ASSUME NEW ok \in BOOLEAN, NEW answer, calls' = Answering(calls, i, ok, answer),
             Frame', UNCHANGED <<page, ui>>, IsTable(db'.admins),
             calls[i].op = "list" /\ ok => IsRows(answer) /\ answer.by = Everything,
             ~marred' => ~marred /\ AdminsKnown(calls', ui.rows, db'.admins)
      PROVE  AdminsInv'
  <2>1. /\ Calls(calls') /\ Len(calls') = Len(calls)
        /\ calls'[i].op = calls[i].op /\ calls'[i].arg = calls[i].arg
        /\ calls'[i].ok = ok /\ calls'[i].answer = answer
        /\ ToSet(calls') \subseteq ToSet(calls) \cup {calls'[i]}
        /\ Has(calls', {"users"}) <=> Has(calls, {"users"})
        /\ Single(calls', {"users"})
    BY <1>0, <1>1, Answers
  <2>2. AdminCall(calls'[i])
    BY <1>0, <1>1, <2>1 DEF AdminCall
  <2>3. \A c \in ToSet(calls') : AdminCall(c)
    BY <2>1, <2>2 DEF AdminsInv
  <2>4. AdminDialogs'
    BY <1>1 DEF AdminsInv, AdminDialogs
  <2> QED
    BY <1>1, <2>1, <2>3, <2>4 DEF AdminsInv
\* Nothing is changed.
<1>2. ASSUME NEW ok \in BOOLEAN, NEW answer, calls' = Answering(calls, i, ok, answer),
             Frame', UNCHANGED <<page, ui, db>>, calls[i].pc = "sent" \/ marred', calls[i].op # "list" \/ marred',
             calls[i].op \in AdminEdits => ~ok, calls[i].op = "list" => ~ok, ~marred' => ~marred
      PROVE  AdminsInv'
  <2>1. ASSUME ~marred'
        PROVE  AdminsKnown(calls', ui.rows, db.admins)
    <3>1. AdminsKnown(calls, ui.rows, db.admins) /\ ~calls[i].ok
      BY <1>0, <1>2, <2>1
    <3>2. /\ calls'[i].op = calls[i].op /\ calls'[i].ok = ok
          /\ ToSet(calls') \subseteq ToSet(calls) \cup {calls'[i]}
          /\ ToSet(calls) \subseteq ToSet(calls') \cup {calls[i]}
          /\ \A ops : Single(calls, ops) => Single(calls', ops)
      BY <1>0, <1>2, Answers
    <3>3. Idle(calls[i]) /\ Idle(calls'[i])
      BY <1>2, <2>1, <3>1, <3>2 DEF Idle
    <3>4. Single(calls', AdminCalls)
      BY <3>1, <3>2 DEF AdminsKnown
    <3> QED
      BY <3>1, <3>2, <3>3, <3>4, AdminsIdle
  <2> QED
    BY <1>0, <1>1, <1>2, <2>1
<1>3. ASSUME NEW ok \in BOOLEAN, NEW answer, NEW after, Answered(i, ok, answer, after)
      PROVE  /\ Frame' /\ UNCHANGED <<page, ui, marred>> /\ db' = after
             /\ calls' = Answering(calls, i, ok, answer) /\ calls[i].pc = "sent"
  BY <1>0, <1>3, IsAnswered
<1>4. CASE Lose(i)
  <2>1. /\ Frame' /\ UNCHANGED <<page, ui, db>> /\ calls' = Answering(calls, i, FALSE, NULL)
        /\ ~marred' => ~marred /\ calls[i].pc = "sent" /\ calls[i].op # "list"
    BY <1>0, <1>4, Loses
  <2> QED
    BY <1>2, <2>1
<1>5. CASE Refuse(i) /\ calls[i].op # "list"
  <2>1. /\ Frame' /\ UNCHANGED <<page, ui, marred, db>> /\ calls[i].pc = "sent"
        /\ calls' = Answering(calls, i, FALSE, NULL)
    BY <1>3, <1>5 DEF Refuse
  <2> QED
    BY <1>2, <1>5, <2>1
<1>6. CASE calls[i].op = "users" /\ Answered(i, TRUE, NULL, db)
  <2>1. /\ Frame' /\ UNCHANGED <<page, ui, marred, db>> /\ calls[i].pc = "sent"
        /\ calls' = Answering(calls, i, TRUE, NULL)
    BY <1>3, <1>6
  <2> QED
    BY <1>2, <1>6, <2>1 DEF AdminEdits
<1>7. CASE calls[i].op = "list" /\ Answered(i, TRUE, Listing(calls[i].arg, db.admins), db)
  <2> DEFINE answer == Listing(calls[i].arg, db.admins)
  <2>1. calls[i].arg = Everything
    BY <1>0, <1>7 DEF AdminCall
  <2>2. IsRows(answer) /\ answer.by = Everything /\ answer.of = [x \in DOMAIN db.admins |-> db.admins[x]]
    BY <2>1 DEF Listing, IsRows, Restrict, Matches
  <2>3. Answered(i, TRUE, answer, db)
    BY <1>7
  <2> HIDE DEF answer
  <2>4. answer.of = db.admins
    BY <1>0, <2>2 DEF IsTable
  <2>5. /\ Frame' /\ UNCHANGED <<page, ui, marred, db>>
        /\ calls' = Answering(calls, i, TRUE, answer)
    BY <1>3, <2>3
  <2>6. /\ calls'[i].op = "list" /\ calls'[i].ok /\ calls'[i].answer = answer
        /\ ToSet(calls') \subseteq ToSet(calls) \cup {calls'[i]} /\ calls'[i] \in ToSet(calls')
        /\ \A ops : Single(calls, ops) => Single(calls', ops)
    <3>1. \A ok \in BOOLEAN :
            LET d == Answering(calls, i, ok, answer) IN
            /\ d[i].op = calls[i].op /\ d[i].ok = ok /\ d[i].answer = answer
            /\ ToSet(d) \subseteq ToSet(calls) \cup {d[i]} /\ d[i] \in ToSet(d)
            /\ \A ops : Single(calls, ops) => Single(d, ops)
      BY <1>0, Answers
    <3> QED
      BY <1>7, <2>5, <3>1
  <2>7. ASSUME ~marred
        PROVE  AdminsKnown(calls', ui.rows, db.admins)
    <3>1. AdminsKnown(calls, ui.rows, db.admins)
      BY <1>0, <2>7
    <3>2. Single(calls', AdminCalls)
      BY <2>6, <3>1 DEF AdminsKnown
    <3>3. Has(calls', {"list"})
      BY <2>6 DEF Has
    <3> QED
      BY <2>4, <2>6, <3>1, <3>2, <3>3 DEF AdminsKnown
  <2> QED
    BY <1>0, <1>1, <2>2, <2>5, <2>7
\* The only change there is, and the rows are those that it changes.
<1>8. ASSUME NEW after, Answered(i, TRUE, NULL, after), IsTable(after.admins),
             calls[i].op \in AdminEdits,
             calls[i].op \in {"role", "revoke"} => calls[i].arg.id \in DOMAIN db.admins,
             calls[i].op = "role" =>
               after.admins = [x \in DOMAIN db.admins |->
                                 IF x = calls[i].arg.id THEN calls[i].arg.role ELSE db.admins[x]],
             calls[i].op = "revoke" =>
               after.admins = [x \in DOMAIN db.admins \ {calls[i].arg.id} |-> db.admins[x]]
      PROVE  AdminsInv'
  <2>1. /\ Frame' /\ UNCHANGED <<page, ui, marred>> /\ db' = after /\ calls[i].pc = "sent"
        /\ calls' = Answering(calls, i, TRUE, NULL)
    BY <1>3, <1>8
  <2>2. /\ calls'[i].op = calls[i].op /\ calls'[i].ok /\ calls'[i].arg = calls[i].arg
        /\ calls'[i] \in ToSet(calls') /\ i \in DOMAIN calls'
        /\ \A ops : Single(calls, ops) => Single(calls', ops)
    <3>1. \A ok \in BOOLEAN :
            LET d == Answering(calls, i, ok, NULL) IN
            /\ d[i].op = calls[i].op /\ d[i].ok = ok /\ d[i].arg = calls[i].arg
            /\ d[i] \in ToSet(d) /\ DOMAIN d = DOMAIN calls
            /\ \A ops : Single(calls, ops) => Single(d, ops)
      BY <1>0, Answers
    <3> QED
      BY <2>1, <3>1
  <2>3. ASSUME ~marred
        PROVE  AdminsKnown(calls', ui.rows, after.admins)
    <3>0. AdminsKnown(calls, ui.rows, db.admins) /\ calls[i].op \in AdminCalls /\ calls[i].op # "list"
      BY <1>0, <1>8, <2>3 DEF AdminCalls, AdminEdits
    <3>1. Single(calls', AdminCalls)
      BY <2>2, <3>0 DEF AdminsKnown
    <3>2. \A c \in ToSet(calls) : c.op \in AdminCalls => c = calls[i]
      BY <3>0, Sole DEF AdminsKnown
    <3>3. \A c \in ToSet(calls') : c.op \in AdminCalls => c = calls'[i]
      BY <2>2, <3>0, <3>1, Sole
    <3>4. ~Has(calls, {"list"}) /\ ~Acted(calls, AdminEdits)
      BY <1>0, <2>1, <3>0, <3>2 DEF Has, Acted, AdminCalls
    <3>5. ui.rows.of = db.admins /\ ui.rows.by # NULL
      BY <3>0, <3>4 DEF AdminsKnown
    <3>6. Acted(calls', AdminEdits)
      BY <1>8, <2>2 DEF Acted
    <3>7. \A c \in ToSet(calls') : c.op \in {"list", "role", "revoke"} => c = calls'[i]
      BY <3>3 DEF AdminCalls, AdminEdits
    <3> QED
      BY <1>8, <2>2, <3>0, <3>1, <3>5, <3>6, <3>7 DEF AdminsKnown
  <2>4. calls[i].op # "list"
    BY <1>8 DEF AdminEdits
  <2> QED
    BY <1>0, <1>1, <1>8, <2>1, <2>3, <2>4
<1> DEFINE id == calls[i].arg.id
           Put(f, role) == [x \in DOMAIN f \cup {id} |-> IF x = id THEN role ELSE f[x]]
           Without(f) == Restrict(f, DOMAIN f \ {id})
<1>9. CASE /\ calls[i].op = "role" /\ id \in DOMAIN db.admins
           /\ Answered(i, TRUE, NULL, [admins |-> Put(db.admins, calls[i].arg.role)])
  <2> DEFINE after == [admins |-> Put(db.admins, calls[i].arg.role)]
  <2>1. after.admins = [x \in DOMAIN db.admins |-> IF x = id THEN calls[i].arg.role ELSE db.admins[x]]
    BY <1>9
  <2>2. Answered(i, TRUE, NULL, after)
    BY <1>9
  <2> HIDE DEF after
  <2>3. IsTable(after.admins)
    BY <2>1 DEF IsTable
  <2> QED
    BY <1>8, <1>9, <2>1, <2>2, <2>3 DEF AdminEdits
<1>10. CASE /\ calls[i].op = "grant"
            /\ Answered(i, TRUE, NULL, [admins |-> Put(db.admins, calls[i].arg.role)])
  <2> DEFINE after == [admins |-> Put(db.admins, calls[i].arg.role)]
  <2>1. IsTable(after.admins)
    BY DEF IsTable
  <2>2. Answered(i, TRUE, NULL, after)
    BY <1>10
  <2> HIDE DEF after
  <2> QED
    BY <1>8, <1>10, <2>1, <2>2 DEF AdminEdits
<1>11. CASE /\ calls[i].op = "revoke" /\ id \in DOMAIN db.admins
            /\ Answered(i, TRUE, NULL, [admins |-> Without(db.admins)])
  <2> DEFINE after == [admins |-> Without(db.admins)]
  <2>1. after.admins = [x \in DOMAIN db.admins \ {id} |-> db.admins[x]]
    BY DEF Restrict
  <2>2. Answered(i, TRUE, NULL, after)
    BY <1>11
  <2> HIDE DEF after
  <2>3. IsTable(after.admins)
    BY <2>1 DEF IsTable
  <2> QED
    BY <1>8, <1>11, <2>1, <2>2, <2>3 DEF AdminEdits
<1> QED
  BY <1>4, <1>5, <1>6, <1>7, <1>9, <1>10, <1>11 DEF ServeAdmins

LEMMA AdminsReceives ==
  ASSUME AdminsInv, NEW i \in DOMAIN calls, AdminsReceive(i)
  PROVE  AdminsInv'
<1> DEFINE cs == RemoveAt(calls, i)
           c == calls[i]
<1>0. /\ Calls(calls) /\ Frame /\ Single(calls, {"users"}) /\ AdminDialogs
      /\ DOMAIN ui = {"view", "rows", "modal", "grant"} /\ IsRows(ui.rows)
      /\ Has(calls, {"users"}) => ui.grant # NULL
      /\ c \in ToSet(calls) /\ AdminCall(c) /\ c.ok \in BOOLEAN
      /\ Len(calls) <= MaxCalls
      /\ ~marred => AdminsKnown(calls, ui.rows, db.admins)
  BY SentCalls DEF AdminsInv
<1>1. /\ Calls(cs) /\ Len(cs) = Len(calls) - 1 /\ Len(calls) \in Nat
      /\ ToSet(cs) \subseteq ToSet(calls) /\ ToSet(calls) \subseteq ToSet(cs) \cup {c}
      /\ \A ops : Single(calls, ops) => Single(cs, ops)
      /\ \A ops : Single(calls, ops) /\ c.op \in ops => ~Has(cs, ops)
  BY <1>0, Ends
<1> HIDE DEF cs, c
<1>2. /\ \A e \in ToSet(cs) : AdminCall(e)
      /\ Len(cs) <= MaxCalls /\ Single(cs, {"users"})
      /\ Has(cs, {"users"}) => Has(calls, {"users"})
  <2>1. Len(cs) <= MaxCalls
    BY <1>0, <1>1, MaxCallsNat
  <2> QED
    BY <1>0, <1>1, <2>1 DEF AdminsInv, Has
\* A call ends that has changed nothing.
<1>3. ASSUME Idle(c), ~marred
      PROVE  AdminsKnown(cs, ui.rows, db.admins)
  <2>1. Single(cs, AdminCalls) /\ AdminsKnown(calls, ui.rows, db.admins)
    BY <1>0, <1>1, <1>3 DEF AdminsKnown
  <2> QED
    BY <1>1, <1>3, <2>1, AdminsIdle
<1>4. ASSUME calls' = cs, Frame', UNCHANGED <<page, db>>, DOMAIN ui' = DOMAIN ui, IsRows(ui'.rows),
             AdminDialogs', Has(cs, {"users"}) => ui'.grant # NULL,
             ~marred' => ~marred /\ AdminsKnown(cs, ui'.rows, db.admins)
      PROVE  AdminsInv'
  BY <1>1, <1>2, <1>4 DEF AdminsInv
\* Besides the call that ends none lists or changes.
<1>5. ASSUME ~marred, c.op \in AdminCalls
      PROVE  /\ AdminsKnown(calls, ui.rows, db.admins)
             /\ Single(cs, AdminCalls)
             /\ \A e \in ToSet(cs) : e.op \notin AdminCalls
  <2>1. AdminsKnown(calls, ui.rows, db.admins)
    BY <1>0, <1>5
  <2>2. ~Has(cs, AdminCalls) /\ Single(cs, AdminCalls)
    BY <1>1, <1>5, <2>1 DEF AdminsKnown
  <2> QED
    BY <2>1, <2>2 DEF Has
<1>6. CASE ReceiveAdmins(i)
  <2>1. /\ c.op = "list" /\ c.pc = "answered" /\ calls' = cs
        /\ ui' = IF c.ok THEN [ui EXCEPT !.rows = c.answer] ELSE ui
        /\ marred' = (marred \/ Late(i)) /\ UNCHANGED <<page, db, clicks, faults, changes, parted>>
    BY <1>6 DEF ReceiveAdmins, cs, c
  <2>2. Frame'
    BY <1>0, <2>1 DEF Frame, Late
  <2>3. /\ DOMAIN ui' = DOMAIN ui /\ UNCHANGED <<ui.modal, ui.grant>>
        /\ ui'.rows = IF c.ok THEN c.answer ELSE ui.rows
    BY <1>0, <2>1
  <2>4. IsRows(ui'.rows) /\ AdminDialogs'
    BY <1>0, <2>1, <2>3 DEF AdminCall, AdminDialogs
  <2>5. ASSUME ~marred'
        PROVE  ~marred /\ AdminsKnown(cs, ui'.rows, db.admins)
    <3>1. ~marred
      BY <2>1, <2>5
    <3>2. c.op \in AdminCalls
      BY <2>1 DEF AdminCalls
    <3>3. /\ AdminsKnown(calls, ui.rows, db.admins) /\ Single(cs, AdminCalls)
          /\ \A e \in ToSet(cs) : e.op \notin {"list", "role", "revoke"}
      BY <1>5, <3>1, <3>2 DEF AdminCalls, AdminEdits
    <3>4. c.ok /\ c.answer.of = db.admins /\ c.answer.by # NULL
      <4>1. c.ok /\ c.answer.of = db.admins
        BY <1>0, <2>1, <3>3 DEF AdminsKnown
      <4>2. c.answer.by = Everything
        BY <1>0, <2>1, <4>1 DEF AdminCall
      <4>3. Everything # NULL
        BY NullAssumption DEF Everything
      <4> QED
        BY <4>1, <4>2, <4>3
    <3> QED
      BY <2>3, <3>1, <3>3, <3>4 DEF AdminsKnown
  <2> QED
    BY <1>0, <1>2, <1>4, <2>1, <2>2, <2>3, <2>4, <2>5
<1>7. CASE ReceiveCandidates(i)
  <2>1. /\ c.op = "users" /\ calls' = cs
        /\ ui' = IF c.ok THEN [ui EXCEPT !.grant.users = Items] ELSE ui
        /\ Continue /\ UNCHANGED parted
    BY <1>7 DEF ReceiveCandidates, cs, c
  <2>2. Frame' /\ UNCHANGED <<page, db, marred>>
    BY <1>0, <2>1, Frames DEF Frame
  <2>3. ui.grant \in [users : SUBSET Items, busy : BOOLEAN]
    BY <1>0, <2>1 DEF AdminDialogs, Has
  <2>4. [ui.grant EXCEPT !.users = Items] \in [users : SUBSET Items, busy : BOOLEAN]
    BY <2>3
  <2>5. /\ DOMAIN ui' = DOMAIN ui /\ UNCHANGED <<ui.rows, ui.modal>>
        /\ ui'.grant \in {ui.grant, [ui.grant EXCEPT !.users = Items]}
    BY <1>0, <2>1
  <2>6. AdminDialogs'
    BY <1>0, <2>3, <2>4, <2>5 DEF AdminDialogs
  <2>7. ~Has(cs, {"users"}) /\ Idle(c)
    BY <1>0, <1>1, <2>1 DEF Idle, AdminEdits
  <2> QED
    BY <1>0, <1>3, <1>4, <2>1, <2>2, <2>5, <2>6, <2>7
<1>8. CASE ReceiveAdminEdit(i)
  <2> DEFINE of == ui.rows.of
  <2>1. /\ c.op \in {"role", "revoke"} /\ calls' = cs /\ Continue /\ UNCHANGED parted
        /\ ui' = IF ~c.ok \/ c.arg.id \notin DOMAIN of THEN ui
                 ELSE IF c.op = "role" THEN [ui EXCEPT !.rows.of[c.arg.id] = c.arg.role]
                 ELSE [ui EXCEPT !.rows.of = Restrict(of, DOMAIN of \ {c.arg.id})]
    BY <1>8 DEF ReceiveAdminEdit, cs, c, Shown
  <2>2. Frame' /\ UNCHANGED <<page, db, marred>>
    BY <1>0, <2>1, Frames DEF Frame
  <2>3. /\ DOMAIN ui' = DOMAIN ui /\ UNCHANGED <<ui.modal, ui.grant>>
        /\ IsRows(ui'.rows) /\ ui'.rows.by = ui.rows.by
        /\ ui'.rows.of = IF ~c.ok \/ c.arg.id \notin DOMAIN of THEN of
                         ELSE IF c.op = "role" THEN [of EXCEPT ![c.arg.id] = c.arg.role]
                         ELSE Restrict(of, DOMAIN of \ {c.arg.id})
    <3>1. CASE ~c.ok \/ c.arg.id \notin DOMAIN of
      BY <1>0, <2>1, <3>1
    <3>2. CASE c.ok /\ c.arg.id \in DOMAIN of /\ c.op = "role"
      BY <1>0, <2>1, <3>2 DEF IsRows
    <3>3. CASE c.ok /\ c.arg.id \in DOMAIN of /\ c.op # "role"
      BY <1>0, <2>1, <3>3 DEF IsRows
    <3> QED
      BY <1>0, <3>1, <3>2, <3>3
  <2>4. AdminDialogs'
    BY <1>0, <2>3 DEF AdminDialogs
  <2>5. ASSUME ~marred, c.ok
        PROVE  AdminsKnown(cs, ui'.rows, db.admins)
    <3>1. c.op \in AdminCalls
      BY <2>1 DEF AdminCalls, AdminEdits
    <3>2. /\ AdminsKnown(calls, ui.rows, db.admins) /\ Single(cs, AdminCalls)
          /\ \A e \in ToSet(cs) : e.op \notin {"list", "role", "revoke"}
      BY <1>5, <2>5, <3>1 DEF AdminCalls, AdminEdits
    <3>3. \A e \in ToSet(calls) : e.op # "list"
      BY <1>1, <2>1, <3>2
    <3>4. ui.rows.by # NULL
      BY <3>2, <3>3 DEF AdminsKnown, Has
    <3>5. CASE c.op = "role"
      <4>1. /\ c.arg.id \in DOMAIN of
            /\ db.admins = [x \in DOMAIN of |-> IF x = c.arg.id THEN c.arg.role ELSE of[x]]
        BY <1>0, <2>5, <3>2, <3>5 DEF AdminsKnown
      <4>2. ui'.rows.of = db.admins
        BY <2>3, <2>5, <3>5, <4>1
      <4> QED
        BY <2>3, <3>2, <3>4, <4>2 DEF AdminsKnown
    <3>6. CASE c.op = "revoke"
      <4>1. /\ c.arg.id \in DOMAIN of
            /\ db.admins = [x \in DOMAIN of \ {c.arg.id} |-> of[x]]
        BY <1>0, <2>5, <3>2, <3>6 DEF AdminsKnown
      <4>2. ui'.rows.of = db.admins
        BY <2>3, <2>5, <3>6, <4>1 DEF Restrict
      <4> QED
        BY <2>3, <3>2, <3>4, <4>2 DEF AdminsKnown
    <3> QED
      BY <2>1, <3>5, <3>6
  <2>6. ASSUME ~marred, ~c.ok
        PROVE  AdminsKnown(cs, ui'.rows, db.admins)
    <3>1. Idle(c) /\ ui' = ui
      BY <2>1, <2>6 DEF Idle
    <3> QED
      BY <1>3, <2>6, <3>1
  <2> QED
    BY <1>0, <1>2, <1>4, <2>1, <2>2, <2>3, <2>4, <2>5, <2>6
<1>9. CASE ReceiveGrant(i) /\ ~c.ok
  <2>1. /\ c.op = "grant" /\ calls' = cs /\ Continue /\ UNCHANGED parted
        /\ ui' = IF ui.grant = NULL \/ Superseded(i) THEN ui ELSE [ui EXCEPT !.grant.busy = FALSE]
    BY <1>9 DEF ReceiveGrant, cs, c
  <2>2. Frame' /\ UNCHANGED <<page, db, marred>>
    BY <1>0, <2>1, Frames DEF Frame
  <2> DEFINE g == [ui.grant EXCEPT !.busy = FALSE]
  <2>3. ui.grant # NULL => g \in [users : SUBSET Items, busy : BOOLEAN] /\ g # NULL
    <3>1. ui.grant # NULL => g \in [users : SUBSET Items, busy : BOOLEAN]
      BY <1>0 DEF AdminDialogs
    <3> HIDE DEF g
    <3> QED
      BY <3>1, GrantAssumption
  <2>4. ui' = ui \/ (ui' = [ui EXCEPT !.grant = g] /\ ui.grant # NULL)
    BY <2>1
  <2> HIDE DEF g
  <2>5. /\ DOMAIN ui' = DOMAIN ui /\ UNCHANGED <<ui.rows, ui.modal>>
        /\ ui'.grant = ui.grant \/ (ui'.grant = g /\ ui.grant # NULL)
    BY <1>0, <2>4
  <2>6. AdminDialogs' /\ (ui.grant # NULL => ui'.grant # NULL)
    BY <1>0, <2>3, <2>5 DEF AdminDialogs
  <2>7. Idle(c)
    BY <1>9, <2>1 DEF Idle
  <2> QED
    BY <1>0, <1>2, <1>3, <1>4, <2>1, <2>2, <2>5, <2>6, <2>7
<1>10. CASE ReceiveGrant(i) /\ c.ok
  <2> DEFINE d == Cancel(cs, "users")
             r == FetchAdmins
  <2>1. /\ c.op = "grant" /\ Continue /\ UNCHANGED parted
        /\ ui' = [ui EXCEPT !.grant = NULL] /\ calls' = Append(d, r)
    BY <1>10 DEF ReceiveGrant, cs, c
  <2>2. Frame' /\ UNCHANGED <<page, db, marred>>
    BY <1>0, <2>1, Frames DEF Frame
  <2>3. DOMAIN ui' = DOMAIN ui /\ UNCHANGED <<ui.rows, ui.modal>> /\ ui'.grant = NULL
    BY <1>0, <2>1
  <2>4. AdminDialogs'
    BY <1>0, <2>3 DEF AdminDialogs
  <2>5. Whole(r) /\ r.op = "list" /\ r.arg = Everything /\ r.pc = "sent" /\ ~r.ok
    BY WholeRequest DEF FetchAdmins
  <2>6. /\ Calls(d) /\ Len(d) \in Nat
        /\ Len(d) = IF Has(cs, {"users"}) THEN Len(cs) - 1 ELSE Len(cs)
        /\ ToSet(d) = {e \in ToSet(cs) : e.op # "users"} /\ ~Has(d, {"users"})
        /\ \A ops : Single(cs, ops) => Single(d, ops)
    BY <1>1, <1>2, Cancels
  <2> HIDE DEF d, r
  <2>7. /\ Calls(calls') /\ Len(calls') = Len(d) + 1 /\ ToSet(calls') = ToSet(d) \cup {r}
        /\ \A ops : Single(d, ops) /\ (r.op \notin ops \/ ~Has(d, ops)) => Single(calls', ops)
    BY <2>1, <2>5, <2>6, Sends
  <2>8. Len(calls') <= MaxCalls
    BY <1>0, <1>1, <2>6, <2>7, MaxCallsNat
  <2>9. \A e \in ToSet(calls') : AdminCall(e)
    BY <1>2, <2>5, <2>6, <2>7 DEF AdminCall
  <2>10. Single(calls', {"users"}) /\ ~Has(calls', {"users"})
    <3>1. ~Has(calls', {"users"})
      BY <2>5, <2>6, <2>7 DEF Has
    <3>2. Single(d, {"users"}) /\ r.op \notin {"users"}
      BY <1>2, <2>5, <2>6
    <3> QED
      BY <2>7, <3>1, <3>2
  <2>11. ASSUME ~marred
         PROVE  AdminsKnown(calls', ui.rows, db.admins)
    <3>1. c.op \in AdminCalls
      BY <2>1 DEF AdminCalls, AdminEdits
    <3>2. /\ AdminsKnown(calls, ui.rows, db.admins) /\ Single(cs, AdminCalls)
          /\ \A e \in ToSet(cs) : e.op \notin AdminCalls
      BY <1>5, <2>11, <3>1
    <3>3. Single(calls', AdminCalls)
      BY <2>6, <2>7, <3>2 DEF Has
    <3>4. Has(calls', {"list"})
      BY <2>5, <2>7 DEF Has
    <3>5. \A e \in ToSet(calls') : e = r \/ e.op \notin {"list", "role", "revoke"}
      BY <2>6, <2>7, <3>2 DEF AdminCalls, AdminEdits
    <3> QED
      BY <2>5, <3>3, <3>4, <3>5 DEF AdminsKnown
  <2> QED
    BY <1>0, <2>2, <2>3, <2>4, <2>7, <2>8, <2>9, <2>10, <2>11 DEF AdminsInv
<1> QED
  BY <1>0, <1>6, <1>7, <1>8, <1>9, <1>10 DEF AdminsReceive

LEMMA AdminsSteps ==
  ASSUME AdminsInv, [Next]_vars
  PROVE  AdminsInv'
<1>0. page = "admins" /\ Frame
  BY DEF AdminsInv
<1>1. CASE UNCHANGED vars
  BY <1>1 DEF vars, AdminsInv, AdminDialogs, Frame
<1>2. CASE AdminsElsewhere
  <2>1. PICK x : Change([admins |-> Restrict(db.admins, DOMAIN db.admins \ {x})])
    BY <1>2 DEF AdminsElsewhere
  <2> DEFINE after == [admins |-> Restrict(db.admins, DOMAIN db.admins \ {x})]
  <2>2. IsTable(after.admins)
    BY DEF IsTable, Restrict
  <2>3. Change(after)
    BY <2>1
  <2> HIDE DEF after
  <2>4. Frame' /\ UNCHANGED <<page, ui, calls>> /\ marred' /\ db' = after
    BY <1>0, <2>3, Changes
  <2> QED
    BY <2>2, <2>4 DEF AdminsInv, AdminDialogs
<1> QED
  BY <1>0, <1>1, <1>2, AdminsClicks, AdminsAnswers, AdminsReceives
     DEF Next, User, Serve, Receive, Timer, Elsewhere

-----------------------------------------------------------------------------
(* The policies. *)

ByPriority(s, policies) ==
  \A i \in DOMAIN s, j \in DOMAIN s : i < j => policies[s[i]].priority >= policies[s[j]].priority

OnAs(on, policies) ==
  /\ DOMAIN policies \subseteq DOMAIN on
  /\ \A id \in DOMAIN policies : on[id] = policies[id].on

Agrees(order, on, policies) ==
  ToSet(order) = DOMAIN policies /\ ByPriority(order, policies) /\ OnAs(on, policies)

\* No id comes twice, and none that the service has not given.
IsOrder(s, last) ==
  /\ s \in Seq(Nat) /\ \A i \in DOMAIN s, j \in DOMAIN s : s[i] = s[j] => i = j
  /\ \A id \in ToSet(s) : id <= last

PolicyTable(policies, last) ==
  /\ last \in Nat
  /\ \A id \in DOMAIN policies :
       /\ id \in Nat /\ id <= last
       /\ DOMAIN policies[id] = {"on", "priority"} /\ policies[id].on \in BOOLEAN

PolicyCall(c, last) ==
  /\ c.op # "load"
  /\ c.op = "list" /\ c.ok => IsOrder(c.answer.order, last)
  /\ c.op \in {"save", "toggle"} => c.arg.on \in BOOLEAN

\* A policy that is there, and has a row or was edited, is in the only listing to come.
NoneMissed(cs, rows, editing, ids) ==
  /\ editing \in ids => editing \in rows
  /\ Single(cs, {"list"}) =>
       \A c \in ToSet(cs) : c.op = "list" /\ c.ok =>
         ids \cap (rows \cup {editing}) \subseteq ToSet(c.answer.order)

\* What the one open call asks for is what the table shows.
Asked(c, order, on, policies) ==
  /\ c.op = "list" /\ c.pc = "answered" =>
       c.ok /\ Agrees(c.answer.order, c.answer.enabled, policies)
  /\ c.op = "reorder" =>
       /\ c.arg = order /\ ToSet(order) = DOMAIN policies /\ OnAs(on, policies)
       /\ c.ok => ByPriority(order, policies)
  /\ c.op = "toggle" =>
       /\ ToSet(order) = DOMAIN policies /\ ByPriority(order, policies)
       /\ c.arg.id \in DOMAIN policies /\ DOMAIN policies \subseteq DOMAIN on
       /\ on[c.arg.id] = c.arg.on
       /\ policies[c.arg.id].on = IF c.ok THEN c.arg.on ELSE ~c.arg.on
       /\ \A x \in DOMAIN policies \ {c.arg.id} : on[x] = policies[x].on
  /\ c.op \in {"delete", "save"} /\ ~c.ok => Agrees(order, on, policies)

PoliciesKnown(cs, order, on, policies) ==
  /\ Len(cs) <= 1
  /\ cs = <<>> => Agrees(order, on, policies)
  /\ \A c \in ToSet(cs) : Asked(c, order, on, policies)

PoliciesInv ==
  /\ page = "policies" /\ Frame
  /\ DOMAIN ui = {"rows", "order", "enabled", "editing", "drawer", "confirm", "deleting"}
  /\ IsOrder(ui.order, db.last) /\ ui.rows = ToSet(ui.order)
  /\ ui.editing # NULL => ui.editing \in Nat /\ ui.editing <= db.last
  /\ DOMAIN db = {"policies", "last"} /\ PolicyTable(db.policies, db.last)
  /\ Calls(calls) /\ Len(calls) <= MaxCalls
  /\ \A c \in ToSet(calls) : PolicyCall(c, db.last)
  /\ ~parted => NoneMissed(calls, ui.rows, ui.editing, Ids)
  /\ ~marred => PoliciesKnown(calls, ui.order, ui.enabled, db.policies)

LEMMA Swapped ==
  ASSUME NEW s, NEW last, IsOrder(s, last), NEW i \in DOMAIN s, NEW j \in DOMAIN s
  PROVE  IsOrder(Swap(s, i, j), last) /\ ToSet(Swap(s, i, j)) = ToSet(s)
<1> DEFINE d == [s EXCEPT ![i] = s[j], ![j] = s[i]]
<1>1. s \in Seq(Nat) /\ d \in Seq(Nat) /\ DOMAIN d = DOMAIN s
  BY DEF IsOrder
<1>2. d[j] = s[i] /\ d[i] = s[j] /\ \A k \in DOMAIN s \ {i, j} : d[k] = s[k]
  BY <1>1
<1> HIDE DEF d
<1>3. ToSet(d) = ToSet(s)
  BY <1>1, <1>2 DEF ToSet
<1>4. \A k \in DOMAIN d, l \in DOMAIN d : d[k] = d[l] => k = l
  BY <1>1, <1>2 DEF IsOrder
<1>5. Swap(s, i, j) = d
  BY DEF Swap, d
<1> QED
  BY <1>1, <1>3, <1>4, <1>5 DEF IsOrder

\* A listing has every policy once, as the service has it.
LEMMA ListsPolicies ==
  ASSUME PolicyTable(db.policies, db.last), NEW a \in PolicyListings
  PROVE  IsOrder(a.order, db.last) /\ Agrees(a.order, a.enabled, db.policies)
<1>1. IsFiniteSet(Ids) /\ Cardinality(Ids) \in Nat /\ Ids \subseteq Nat
  <2>1. db.last \in Nat /\ Ids \in SUBSET Nat /\ \A id \in Ids : id <= db.last
    BY DEF PolicyTable, Ids
  <2>2. IsFiniteSet(Ids)
    BY <2>1, FS_BoundedSetOfNaturals
  <2> QED
    BY <2>1, <2>2, FS_CardinalityType
<1>2. PICK s \in SetToSeqs(Ids) :
        InOrder(s) /\ a = [order |-> s, enabled |-> [id \in Ids |-> db.policies[id].on]]
  BY DEF PolicyListings
<1>3. a.order = s /\ a.enabled = [id \in Ids |-> db.policies[id].on]
  BY <1>2
<1> DEFINE n == Cardinality(Ids)
<1> HIDE DEF n
<1>4. s \in [1..n -> Ids] /\ \A i, j \in 1..n : i # j => s[i] # s[j]
  BY <1>2 DEF SetToSeqs, n
<1>5. n \in Nat /\ DOMAIN s = 1..n
  BY <1>1, <1>4 DEF n
<1>6. IsFiniteSet(1..n) /\ Cardinality(1..n) = n
  BY <1>5, FS_Interval
<1>7. s \in Injection(1..n, Ids)
  BY <1>4, <1>5 DEF Injection, IsInjective
<1>8. s \in Surjection(1..n, Ids)
  BY <1>1, <1>6, <1>7, FS_Injection DEF n
<1>9. ToSet(s) = Ids
  BY <1>4, <1>5, <1>8 DEF Surjection, ToSet
<1>10. s \in Seq(Nat)
  <2>1. s \in [1..n -> Nat]
    BY <1>1, <1>4
  <2> QED
    BY <1>5, <2>1
<1>11. IsOrder(s, db.last)
  BY <1>4, <1>5, <1>9, <1>10 DEF IsOrder, PolicyTable, Ids
<1>12. ByPriority(s, db.policies)
  BY <1>2 DEF InOrder, ByPriority
<1> QED
  BY <1>3, <1>9, <1>11, <1>12 DEF Agrees, OnAs, Ids

Moved(policies, s) ==
  [id \in DOMAIN policies |->
     [policies[id] EXCEPT !.priority = 1 + Len(s) - CHOOSE k \in DOMAIN s : s[k] = id]]

\* The priorities that a move gives are in the order that it asks for.
LEMMA Reordered ==
  ASSUME NEW s, NEW last, NEW policies, IsOrder(s, last), ToSet(s) = DOMAIN policies,
         PolicyTable(policies, last)
  PROVE  ByPriority(s, Moved(policies, s))
<1> DEFINE place(id) == CHOOSE k \in DOMAIN s : s[k] = id
           new == [id \in DOMAIN policies |-> [policies[id] EXCEPT !.priority = 1 + Len(s) - place(id)]]
<1>1. s \in Seq(Nat) /\ DOMAIN s = 1..Len(s) /\ Len(s) \in Nat
  BY DEF IsOrder
<1>2. \A i \in DOMAIN s : s[i] \in DOMAIN policies
  BY DEF ToSet
<1>3. ASSUME NEW i \in DOMAIN s
      PROVE  place(s[i]) = i
  BY DEF IsOrder
<1>4. ASSUME NEW i \in DOMAIN s
      PROVE  new[s[i]].priority = 1 + Len(s) - i
  <2>1. DOMAIN policies[s[i]] = {"on", "priority"}
    BY <1>2 DEF PolicyTable
  <2>2. new[s[i]] = [policies[s[i]] EXCEPT !.priority = 1 + Len(s) - place(s[i])]
    BY <1>2
  <2> HIDE DEF place, new
  <2> QED
    BY <1>3, <2>1, <2>2
<1> HIDE DEF place, new
<1>5. \A i \in DOMAIN s, j \in DOMAIN s : i < j => new[s[i]].priority >= new[s[j]].priority
  BY <1>1, <1>4
<1>6. ByPriority(s, new)
  BY <1>5 DEF ByPriority
<1> QED
  BY <1>6 DEF new, place, Moved

\* A call that ends or is sent leaves no more of them than there were.
LEMMA SingleBack ==
  ASSUME NEW cs, Calls(cs), NEW ops
  PROVE  /\ \A r : Single(Append(cs, r), ops) => Single(cs, ops)
         /\ \A r : r.op \in ops /\ Single(Append(cs, r), ops) => ~Has(cs, ops)
         /\ \A i \in DOMAIN cs : cs[i].op \notin ops /\ Single(RemoveAt(cs, i), ops) => Single(cs, ops)
<1>0. cs \in Seq(ToSet(cs)) /\ Len(cs) \in Nat /\ DOMAIN cs = 1..Len(cs)
  BY DEF Calls
<1>1. ASSUME NEW r
      PROVE  /\ Single(Append(cs, r), ops) => Single(cs, ops)
             /\ r.op \in ops /\ Single(Append(cs, r), ops) => ~Has(cs, ops)
  <2> DEFINE d == Append(cs, r)
  <2>1. DOMAIN d = 1..(Len(cs) + 1) /\ d[Len(cs) + 1] = r /\ \A j \in 1..Len(cs) : d[j] = cs[j]
    BY <1>0
  <2> HIDE DEF d
  <2>2. Single(d, ops) => Single(cs, ops)
    BY <1>0, <2>1 DEF Single
  <2>3. r.op \in ops /\ Single(d, ops) => ~Has(cs, ops)
    BY <1>0, <2>1 DEF Single, Has, ToSet
  <2> QED
    BY <2>2, <2>3 DEF d
<1>2. ASSUME NEW i \in DOMAIN cs, cs[i].op \notin ops, Single(RemoveAt(cs, i), ops)
      PROVE  Single(cs, ops)
  <2> DEFINE d == RemoveAt(cs, i)
             from(k) == IF k < i THEN k ELSE k - 1
  <2>1. d \in Seq(ToSet(cs)) /\ Len(d) = Len(cs) - 1
        /\ \A k \in 1..(Len(cs) - 1) : d[k] = cs[IF k < i THEN k ELSE k + 1]
    BY <1>0, Removed
  <2>2. DOMAIN d = 1..(Len(cs) - 1)
    BY <1>0, <2>1
  <2> HIDE DEF d
  <2>3. ASSUME NEW k \in DOMAIN cs, k # i
        PROVE  from(k) \in DOMAIN d /\ d[from(k)] = cs[k]
    <3>1. CASE k < i
      BY <1>0, <2>1, <2>2, <2>3, <3>1
    <3>2. CASE ~(k < i)
      <4>1. k - 1 \in DOMAIN d /\ ~(k - 1 < i) /\ (k - 1) + 1 = k
        BY <1>0, <2>2, <2>3, <3>2
      <4> QED
        BY <2>1, <2>2, <3>2, <4>1
    <3> QED
      BY <3>1, <3>2
  <2>4. ASSUME NEW k \in DOMAIN cs, NEW l \in DOMAIN cs, cs[k].op \in ops, cs[l].op \in ops
        PROVE  k = l
    <3>1. k # i /\ l # i
      BY <1>2, <2>4
    <3>2. from(k) = from(l)
      BY <1>2, <2>3, <2>4, <3>1 DEF Single, d
    <3> QED
      BY <1>0, <3>1, <3>2
  <2> QED
    BY <2>4 DEF Single
<1> QED
  BY <1>1, <1>2

\* No listing is answered, and no policy comes that has a row or was edited.
LEMMA StillNoneMissed ==
  ASSUME NEW cs, NEW rows, NEW editing, NEW ids, NoneMissed(cs, rows, editing, ids),
         NEW d, Single(d, {"list"}) => Single(cs, {"list"}),
         \A c \in ToSet(d) : c.op = "list" /\ c.ok => c \in ToSet(cs),
         NEW now, now \cap (rows \cup {editing}) \subseteq ids
  PROVE  NoneMissed(d, rows, editing, now)
<1>1. editing \in now => editing \in rows
  BY DEF NoneMissed
<1>2. ASSUME Single(d, {"list"}), NEW c \in ToSet(d), c.op = "list", c.ok
      PROVE  now \cap (rows \cup {editing}) \subseteq ToSet(c.answer.order)
  <2>1. ids \cap (rows \cup {editing}) \subseteq ToSet(c.answer.order)
    BY <1>2 DEF NoneMissed
  <2> QED
    BY <2>1
<1> QED
  BY <1>1, <1>2 DEF NoneMissed

\* A change is sent, when none is open or the page need not agree any more.
LEMMA PoliciesSend ==
  ASSUME PoliciesInv, Edit, Room(1), NEW r, Whole(r), ~r.ok, r.op # "list", PolicyCall(r, db.last),
         calls' = Append(calls, r), DOMAIN ui' = DOMAIN ui, UNCHANGED <<ui.rows, ui.editing>>,
         IsOrder(ui'.order, db.last), ToSet(ui'.order) = ToSet(ui.order),
         Agrees(ui.order, ui.enabled, db.policies) => Asked(r, ui'.order, ui'.enabled, db.policies)
  PROVE  PoliciesInv'
<1>0. Calls(calls) /\ Frame /\ (~parted => NoneMissed(calls, ui.rows, ui.editing, Ids))
      /\ (~marred => PoliciesKnown(calls, ui.order, ui.enabled, db.policies))
  BY DEF PoliciesInv
<1>1. Frame' /\ UNCHANGED <<page, db, parted>> /\ (~marred' => ~marred /\ calls = <<>>)
  BY <1>0, Frames
<1>2. /\ Calls(calls') /\ Len(calls') = Len(calls) + 1 /\ Len(calls) \in Nat
      /\ ToSet(calls') = ToSet(calls) \cup {r}
  BY <1>0, Sends
<1>3. \A c \in ToSet(calls') : PolicyCall(c, db.last)
  BY <1>2 DEF PoliciesInv
<1>4. ASSUME ~parted
      PROVE  NoneMissed(calls', ui.rows, ui.editing, Ids)
  <2>1. Single(calls', {"list"}) => Single(calls, {"list"})
    BY <1>0, SingleBack
  <2>2. \A c \in ToSet(calls') : c.op = "list" /\ c.ok => c \in ToSet(calls)
    BY <1>2
  <2>3. Ids \cap (ui.rows \cup {ui.editing}) \subseteq Ids
    OBVIOUS
  <2> QED
    BY <1>0, <1>4, <2>1, <2>2, <2>3, StillNoneMissed
<1>5. ASSUME ~marred'
      PROVE  PoliciesKnown(calls', ui'.order, ui'.enabled, db.policies)
  <2>1. Len(calls') = 1 /\ ToSet(calls') = {r}
    BY <1>1, <1>2, <1>5, NoneOpen
  <2>2. Asked(r, ui'.order, ui'.enabled, db.policies)
    BY <1>0, <1>1, <1>5 DEF PoliciesKnown
  <2>3. calls' # <<>>
    BY <2>1, NoneOpen
  <2> QED
    BY <2>1, <2>2, <2>3 DEF PoliciesKnown
<1>6. Ids' = Ids
  BY <1>1 DEF Ids
<1>7. Len(calls') <= MaxCalls
  BY <1>2 DEF Room
<1> QED
  BY <1>1, <1>2, <1>3, <1>4, <1>5, <1>6, <1>7 DEF PoliciesInv

\* Nothing is sent, and the table stays as it is.
LEMMA PoliciesLook ==
  ASSUME PoliciesInv, Look \/ Close \/ Edit, calls' = calls, DOMAIN ui' = DOMAIN ui,
         UNCHANGED <<ui.rows, ui.order, ui.enabled>>, ui'.editing \in {ui.editing, NULL} \cup ui.rows
  PROVE  PoliciesInv'
<1>0. /\ Calls(calls) /\ Frame /\ (~parted => NoneMissed(calls, ui.rows, ui.editing, Ids))
      /\ IsOrder(ui.order, db.last) /\ ui.rows = ToSet(ui.order)
      /\ ui.editing # NULL => ui.editing \in Nat /\ ui.editing <= db.last
  BY DEF PoliciesInv
<1>1. Frame' /\ UNCHANGED <<page, db, parted>> /\ (~marred' => ~marred)
  BY <1>0, Frames
<1>2. ui.rows \subseteq Nat
  BY <1>0 DEF IsOrder, ToSet
<1>3. ui'.editing # NULL => ui'.editing \in Nat /\ ui'.editing <= db.last
  BY <1>0, <1>2 DEF IsOrder
<1>4. Ids' = Ids
  BY <1>1 DEF Ids
<1>5. NULL \notin Ids
  BY NullAssumption DEF PoliciesInv, PolicyTable, Ids
<1>6. ASSUME ~parted
      PROVE  NoneMissed(calls, ui.rows, ui'.editing, Ids)
  <2>1. NoneMissed(calls, ui.rows, ui.editing, Ids)
    BY <1>0, <1>6
  <2>2. Ids \cap (ui.rows \cup {ui'.editing}) \subseteq Ids \cap (ui.rows \cup {ui.editing})
    BY <1>5
  <2>3. ui'.editing \in Ids => ui'.editing \in ui.rows
    BY <1>5, <2>1 DEF NoneMissed
  <2> QED
    BY <2>1, <2>2, <2>3 DEF NoneMissed
<1> QED
  BY <1>1, <1>3, <1>4, <1>6 DEF PoliciesInv

LEMMA PoliciesClicks ==
  ASSUME PoliciesInv, PoliciesClick
  PROVE  PoliciesInv'
<1>0. /\ DOMAIN ui = {"rows", "order", "enabled", "editing", "drawer", "confirm", "deleting"}
      /\ IsOrder(ui.order, db.last) /\ ui.rows = ToSet(ui.order)
      /\ PolicyTable(db.policies, db.last)
  BY DEF PoliciesInv
<1>1. CASE MovePolicy
  <2>1. PICK i \in DOMAIN ui.order, j \in DOMAIN ui.order :
          LET next == Swap(ui.order, i, j) IN
          ui' = [ui EXCEPT !.order = next] /\ calls' = Append(calls, Request("reorder", next))
    BY <1>1 DEF MovePolicy
  <2> DEFINE next == Swap(ui.order, i, j)
             r == Request("reorder", next)
  <2>2. Edit /\ Room(1)
    BY <1>1 DEF MovePolicy
  <2>3. IsOrder(next, db.last) /\ ToSet(next) = ToSet(ui.order)
    BY <1>0, Swapped
  <2>4. Whole(r) /\ ~r.ok /\ r.op = "reorder" /\ r.arg = next
    BY WholeRequest
  <2>5. ui' = [ui EXCEPT !.order = next] /\ calls' = Append(calls, r)
    BY <2>1
  <2> HIDE DEF next, r
  <2>6. DOMAIN ui' = DOMAIN ui /\ UNCHANGED <<ui.rows, ui.editing, ui.enabled>> /\ ui'.order = next
    BY <1>0, <2>5
  <2>7. PolicyCall(r, db.last)
    BY <2>4 DEF PolicyCall
  <2>8. Agrees(ui.order, ui.enabled, db.policies) => Asked(r, ui'.order, ui'.enabled, db.policies)
    BY <2>3, <2>4, <2>6 DEF Agrees, Asked
  <2> QED
    BY <2>2, <2>3, <2>4, <2>5, <2>6, <2>7, <2>8, PoliciesSend
<1>2. CASE SwitchPolicy
  <2>1. PICK id \in ui.rows :
          /\ ui' = [ui EXCEPT !.enabled[id] = ~@]
          /\ calls' = Append(calls, Request("toggle", [id |-> id, on |-> ~ui.enabled[id]]))
    BY <1>2 DEF SwitchPolicy
  <2> DEFINE r == Request("toggle", [id |-> id, on |-> ~ui.enabled[id]])
  <2>2. Edit /\ Room(1)
    BY <1>2 DEF SwitchPolicy
  <2>3. Whole(r) /\ ~r.ok /\ r.op = "toggle" /\ r.arg.id = id /\ r.arg.on = ~ui.enabled[id]
    BY WholeRequest
  <2>4. calls' = Append(calls, r)
    BY <2>1
  <2> HIDE DEF r
  <2>5. /\ DOMAIN ui' = DOMAIN ui /\ UNCHANGED <<ui.rows, ui.editing, ui.order>>
        /\ ui'.enabled = [ui.enabled EXCEPT ![id] = ~ui.enabled[id]]
    BY <1>0, <2>1
  <2>6. PolicyCall(r, db.last)
    BY <2>3 DEF PolicyCall
  <2>7. ASSUME Agrees(ui.order, ui.enabled, db.policies)
        PROVE  Asked(r, ui'.order, ui'.enabled, db.policies)
    <3>1. /\ ToSet(ui.order) = DOMAIN db.policies /\ ByPriority(ui.order, db.policies)
          /\ DOMAIN db.policies \subseteq DOMAIN ui.enabled
          /\ \A x \in DOMAIN db.policies : ui.enabled[x] = db.policies[x].on
      BY <2>7 DEF Agrees, OnAs
    <3>2. id \in DOMAIN db.policies /\ db.policies[id].on \in BOOLEAN
      BY <1>0, <2>1, <3>1 DEF PolicyTable
    <3>3. /\ DOMAIN db.policies \subseteq DOMAIN ui'.enabled /\ ui'.enabled[id] = ~ui.enabled[id]
          /\ \A x \in DOMAIN db.policies \ {id} : ui'.enabled[x] = db.policies[x].on
      BY <2>5, <3>1, <3>2
    <3>4. db.policies[id].on = ~(~ui.enabled[id])
      BY <3>1, <3>2
    <3> QED
      BY <2>3, <2>5, <3>1, <3>2, <3>3, <3>4 DEF Asked
  <2> QED
    BY <1>0, <2>2, <2>3, <2>4, <2>5, <2>6, <2>7, PoliciesSend
<1>3. CASE ConfirmDelete
  <2> DEFINE r == Request("delete", ui.deleting)
  <2>1. Whole(r) /\ ~r.ok /\ r.op = "delete" /\ calls' = Append(calls, r)
    BY <1>3, WholeRequest DEF ConfirmDelete
  <2> HIDE DEF r
  <2>2. Edit /\ Room(1) /\ ui' = ui
    BY <1>3 DEF ConfirmDelete
  <2>3. PolicyCall(r, db.last)
    BY <2>1 DEF PolicyCall
  <2>4. Agrees(ui.order, ui.enabled, db.policies) => Asked(r, ui'.order, ui'.enabled, db.policies)
    BY <2>1, <2>2 DEF Asked
  <2> QED
    BY <1>0, <2>1, <2>2, <2>3, <2>4, PoliciesSend
<1>4. CASE ConfirmPush
  <2>1. /\ DOMAIN ui' = DOMAIN ui
        /\ UNCHANGED <<ui.rows, ui.order, ui.enabled, ui.editing>> /\ Edit /\ Room(1)
    BY <1>0, <1>4 DEF ConfirmPush
  <2>2. CASE UNCHANGED calls
    BY <2>1, <2>2, PoliciesLook
  <2>3. ASSUME NEW on \in BOOLEAN,
               calls' = Append(calls, Request("save", [id |-> ui.editing, on |-> on]))
        PROVE  PoliciesInv'
    <3> DEFINE r == Request("save", [id |-> ui.editing, on |-> on])
    <3>1. Whole(r) /\ ~r.ok /\ r.op = "save" /\ r.arg.on = on /\ calls' = Append(calls, r)
      BY <2>3, WholeRequest
    <3> HIDE DEF r
    <3>2. PolicyCall(r, db.last)
      BY <3>1 DEF PolicyCall
    <3>3. Agrees(ui.order, ui.enabled, db.policies) => Asked(r, ui'.order, ui'.enabled, db.policies)
      BY <2>1, <3>1 DEF Asked
    <3> QED
      BY <1>0, <2>1, <3>1, <3>2, <3>3, PoliciesSend
  <2> QED
    BY <1>4, <2>2, <2>3 DEF ConfirmPush
<1>5. CASE OpenForm
  <2>1. PICK id \in ui.rows \cup {NULL} : ui' = [ui EXCEPT !.editing = id, !.drawer = TRUE]
    BY <1>5 DEF OpenForm
  <2>2. /\ DOMAIN ui' = DOMAIN ui /\ UNCHANGED <<ui.rows, ui.order, ui.enabled>> /\ ui'.editing = id
    BY <1>0, <2>1
  <2> QED
    BY <1>5, <2>2, PoliciesLook DEF OpenForm
<1>6. CASE AskDelete \/ CancelDelete \/ CloseForm \/ TrySave \/ CheckAgain
  <2>1. /\ Look \/ Close
        /\ calls' = calls
    BY <1>6 DEF AskDelete, CancelDelete, CloseForm, TrySave, CheckAgain
  <2>2. /\ DOMAIN ui' = DOMAIN ui /\ UNCHANGED <<ui.rows, ui.order, ui.enabled, ui.editing>>
    BY <1>0, <1>6 DEF AskDelete, CancelDelete, CloseForm, TrySave, CheckAgain
  <2> QED
    BY <2>1, <2>2, PoliciesLook
<1> QED
  BY <1>1, <1>2, <1>3, <1>4, <1>5, <1>6 DEF PoliciesClick

\* The one open call, of any, is answered.
LEMMA PoliciesAnswered ==
  ASSUME PoliciesInv, NEW i \in DOMAIN calls, NEW ok \in BOOLEAN, NEW answer,
         calls' = Answering(calls, i, ok, answer), Frame', UNCHANGED <<page, ui, parted>>,
         DOMAIN db' = {"policies", "last"}, PolicyTable(db'.policies, db'.last), db.last <= db'.last,
         \A id \in DOMAIN db'.policies : id \in Ids \/ id > db.last,
         calls[i].op = "list" /\ ok => IsOrder(answer.order, db.last) /\ Ids \subseteq ToSet(answer.order)
                                       /\ UNCHANGED db,
         ~marred' =>
           /\ ~marred
           /\ Asked(calls[i], ui.order, ui.enabled, db.policies)
                => Asked(calls'[i], ui.order, ui.enabled, db'.policies)
  PROVE  PoliciesInv'
<1>0. /\ Calls(calls) /\ Frame /\ (~parted => NoneMissed(calls, ui.rows, ui.editing, Ids))
      /\ (~marred => PoliciesKnown(calls, ui.order, ui.enabled, db.policies))
      /\ IsOrder(ui.order, db.last) /\ ui.rows = ToSet(ui.order)
      /\ ui.editing # NULL => ui.editing \in Nat /\ ui.editing <= db.last
      /\ PolicyTable(db.policies, db.last)
      /\ calls[i] \in ToSet(calls) /\ Len(calls) <= MaxCalls
      /\ \A c \in ToSet(calls) : PolicyCall(c, db.last)
  BY SentCalls DEF PoliciesInv
<1> DEFINE a == calls'[i]
<1>1. /\ Calls(calls') /\ Len(calls') = Len(calls) /\ DOMAIN calls' = DOMAIN calls
      /\ a.op = calls[i].op /\ a.arg = calls[i].arg /\ a.ok = ok /\ a.answer = answer
      /\ ToSet(calls') \subseteq ToSet(calls) \cup {a}
      /\ Len(calls) \in Nat
  BY <1>0, Answers
<1>2. Single(calls', {"list"}) => Single(calls, {"list"})
  <2>1. \A j \in DOMAIN calls : calls'[j].op = calls[j].op
    <3>1. \A j \in DOMAIN calls : j # i => calls'[j] = calls[j]
      BY DEF Answering
    <3> QED
      BY <1>1, <3>1
  <2> QED
    BY <1>1, <2>1 DEF Single
<1> HIDE DEF a
<1>3. db.last \in Nat /\ db'.last \in Nat
  BY <1>0 DEF PolicyTable
<1>4. ASSUME NEW s, IsOrder(s, db.last)
      PROVE  IsOrder(s, db'.last)
  <2>1. \A id \in ToSet(s) : id \in Nat
    BY <1>4 DEF IsOrder, ToSet
  <2> QED
    BY <1>3, <1>4, <2>1 DEF IsOrder
<1>5. PolicyCall(a, db.last)
  BY <1>0, <1>1 DEF PolicyCall
<1>6. \A c \in ToSet(calls') : PolicyCall(c, db'.last)
  BY <1>0, <1>1, <1>4, <1>5 DEF PolicyCall
<1>7. \A id \in ui.rows \cup {ui.editing} : id > db.last => id \notin Ids'
  <2>1. \A id \in ui.rows : id \in Nat /\ id <= db.last
    BY <1>0 DEF IsOrder, ToSet
  <2>2. NULL \notin DOMAIN db'.policies
    BY NullAssumption DEF PolicyTable
  <2> QED
    BY <1>0, <1>3, <2>1, <2>2 DEF Ids
<1>8. ASSUME ~parted
      PROVE  NoneMissed(calls', ui.rows, ui.editing, Ids')
  <2>1. NoneMissed(calls, ui.rows, ui.editing, Ids)
    BY <1>0, <1>8
  <2>2. Ids' \cap (ui.rows \cup {ui.editing}) \subseteq Ids
    BY <1>7 DEF Ids
  <2>3. CASE ~(calls[i].op = "list" /\ ok)
    <3>1. \A c \in ToSet(calls') : c.op = "list" /\ c.ok => c \in ToSet(calls)
      BY <1>1, <2>3
    <3> QED
      BY <1>2, <2>1, <2>2, <3>1, StillNoneMissed
  <2>4. CASE calls[i].op = "list" /\ ok
    <3>1. Ids' = Ids /\ Ids \subseteq ToSet(a.answer.order)
      BY <1>1, <2>4 DEF Ids
    <3>2. \A c \in ToSet(calls') : c.op = "list" /\ c.ok => c \in ToSet(calls) \/ Ids \subseteq ToSet(c.answer.order)
      BY <1>1, <3>1
    <3> QED
      BY <1>2, <2>1, <3>1, <3>2 DEF NoneMissed
  <2> QED
    BY <2>3, <2>4
<1>9. ASSUME ~marred'
      PROVE  PoliciesKnown(calls', ui.order, ui.enabled, db'.policies)
  <2>1. PoliciesKnown(calls, ui.order, ui.enabled, db.policies) /\ Len(calls) <= 1
    BY <1>0, <1>9 DEF PoliciesKnown
  <2>2. Len(calls) = 1
    <3>1. DOMAIN calls = 1..Len(calls)
      BY <1>0 DEF Calls
    <3> QED
      BY <1>1, <2>1, <3>1
  <2>3. ToSet(calls') = {a}
    BY <1>1, <2>2, AloneEnds DEF a
  <2>4. Asked(a, ui.order, ui.enabled, db'.policies)
    BY <1>0, <1>9, <2>1 DEF PoliciesKnown, a
  <2>5. Len(calls') = 1
    BY <1>1, <2>2
  <2>6. calls' # <<>>
    BY <2>5, NoneOpen
  <2> QED
    BY <2>3, <2>4, <2>5, <2>6 DEF PoliciesKnown
<1>10. ui.editing # NULL => ui.editing <= db'.last
  BY <1>0, <1>3
<1> QED
  BY <1>0, <1>1, <1>4, <1>6, <1>8, <1>9, <1>10 DEF PoliciesInv

\* A reply that does not list: what it changes in the service was asked for.
LEMMA PoliciesChanged ==
  ASSUME PoliciesInv, NEW i \in DOMAIN calls, calls[i].op # "list",
         NEW policies, NEW last, Answered(i, TRUE, NULL, [policies |-> policies, last |-> last]),
         PolicyTable(policies, last), db.last <= last,
         \A id \in DOMAIN policies : id \in Ids \/ id > db.last,
         ASSUME Asked(calls[i], ui.order, ui.enabled, db.policies), ~calls[i].ok,
                NEW c, c.op = calls[i].op, c.arg = calls[i].arg, c.ok
         PROVE  Asked(c, ui.order, ui.enabled, policies)
  PROVE  PoliciesInv'
<1>0. Calls(calls) /\ Frame
  BY DEF PoliciesInv
<1> DEFINE after == [policies |-> policies, last |-> last]
<1>1. after.policies = policies /\ after.last = last /\ DOMAIN after = {"policies", "last"}
  OBVIOUS
<1>2. Answered(i, TRUE, NULL, after)
  OBVIOUS
<1> HIDE DEF after
<1>3. /\ Frame' /\ UNCHANGED <<page, ui, parted, marred>>
      /\ calls' = Answering(calls, i, TRUE, NULL) /\ db' = after
      /\ calls[i].pc = "sent"
  BY <1>0, <1>2, IsAnswered
<1>4. calls'[i].op = calls[i].op /\ calls'[i].arg = calls[i].arg /\ calls'[i].ok
  <2>1. \A ok \in BOOLEAN :
          LET d == Answering(calls, i, ok, NULL) IN
          d[i].op = calls[i].op /\ d[i].arg = calls[i].arg /\ d[i].ok = ok
    BY <1>0, Answers
  <2> QED
    BY <1>3, <2>1
<1>5. ~calls[i].ok
  BY <1>0, <1>3, SentCalls
<1>6. Asked(calls[i], ui.order, ui.enabled, db.policies) => Asked(calls'[i], ui.order, ui.enabled, db'.policies)
  BY <1>1, <1>3, <1>4, <1>5
<1> QED
  BY <1>1, <1>3, <1>6, PoliciesAnswered

LEMMA PoliciesAnswers ==
  ASSUME PoliciesInv, NEW i \in DOMAIN calls, ServePolicies(i) \/ Lose(i)
  PROVE  PoliciesInv'
<1>0. /\ Calls(calls) /\ Frame /\ DOMAIN db = {"policies", "last"}
      /\ PolicyTable(db.policies, db.last) /\ db.last \in Nat
      /\ calls[i] \in ToSet(calls) /\ PolicyCall(calls[i], db.last)
      /\ calls[i].pc = "sent" => ~calls[i].ok
  BY SentCalls DEF PoliciesInv, PolicyTable
<1>1. \A id \in DOMAIN db.policies : id \in Ids
  BY DEF Ids
<1>2. CASE Lose(i) \/ (Refuse(i) /\ calls[i].op # "list")
  <2>1. /\ Frame' /\ UNCHANGED <<page, ui, db, parted>> /\ calls' = Answering(calls, i, FALSE, NULL)
        /\ ~marred' => ~marred /\ calls[i].pc = "sent" /\ calls[i].op # "list"
    <3>1. CASE Lose(i)
      BY <1>0, <3>1, Loses
    <3>2. CASE Refuse(i) /\ calls[i].op # "list"
      BY <1>0, <3>2, IsAnswered DEF Refuse
    <3> QED
      BY <1>2, <3>1, <3>2
  <2>2. calls'[i].op = calls[i].op /\ calls'[i].arg = calls[i].arg /\ ~calls'[i].ok
    <3>1. \A ok \in BOOLEAN :
            LET d == Answering(calls, i, ok, NULL) IN
            d[i].op = calls[i].op /\ d[i].arg = calls[i].arg /\ d[i].ok = ok
      BY <1>0, Answers
    <3> QED
      BY <2>1, <3>1
  <2>3. ~marred' =>
          /\ ~marred
          /\ Asked(calls[i], ui.order, ui.enabled, db.policies)
               => Asked(calls'[i], ui.order, ui.enabled, db'.policies)
    BY <1>0, <2>1, <2>2 DEF Asked
  <2>4. /\ DOMAIN db' = {"policies", "last"} /\ PolicyTable(db'.policies, db'.last)
        /\ db.last <= db'.last
        /\ \A id \in DOMAIN db'.policies : id \in Ids \/ id > db.last
    BY <1>0, <1>1, <2>1
  <2>5. FALSE \in BOOLEAN
    OBVIOUS
  <2> QED
    BY <2>1, <2>3, <2>4, <2>5, PoliciesAnswered
<1>3. ASSUME calls[i].op = "list", NEW answer \in PolicyListings, Answered(i, TRUE, answer, db)
      PROVE  PoliciesInv'
  <2>1. IsOrder(answer.order, db.last) /\ Agrees(answer.order, answer.enabled, db.policies)
    BY <1>0, <1>3, ListsPolicies
  <2>2. /\ Frame' /\ UNCHANGED <<page, ui, parted, marred, db>> /\ calls' = Answering(calls, i, TRUE, answer)
    BY <1>0, <1>3, IsAnswered
  <2>3. calls'[i].op = calls[i].op /\ calls'[i].answer = answer /\ calls'[i].ok
    <3>1. \A ok \in BOOLEAN :
            LET d == Answering(calls, i, ok, answer) IN
            d[i].op = calls[i].op /\ d[i].answer = answer /\ d[i].ok = ok
      BY <1>0, Answers
    <3> QED
      BY <2>2, <3>1
  <2>4. Asked(calls'[i], ui.order, ui.enabled, db'.policies)
    BY <1>3, <2>1, <2>2, <2>3 DEF Asked
  <2>5. Ids \subseteq ToSet(answer.order)
    BY <2>1 DEF Agrees, Ids
  <2>6. /\ DOMAIN db' = {"policies", "last"} /\ PolicyTable(db'.policies, db'.last)
        /\ db.last <= db'.last
        /\ \A id \in DOMAIN db'.policies : id \in Ids \/ id > db.last
    BY <1>0, <1>1, <2>2
  <2>7. TRUE \in BOOLEAN
    OBVIOUS
  <2> QED
    BY <1>3, <2>1, <2>2, <2>4, <2>5, <2>6, <2>7, PoliciesAnswered
<1> DEFINE c == calls[i]
\* Become
<1>4. ASSUME c.op # "list", NEW policies, Answered(i, TRUE, NULL, Become(policies)),
             PolicyTable(policies, db.last), DOMAIN policies \subseteq Ids,
             ASSUME Asked(c, ui.order, ui.enabled, db.policies), ~c.ok,
                    NEW e, e.op = c.op, e.arg = c.arg, e.ok
             PROVE  Asked(e, ui.order, ui.enabled, policies)
      PROVE  PoliciesInv'
  <2>1. Become(policies) = [policies |-> policies, last |-> db.last]
    BY <1>0 DEF Become
  <2>2. Answered(i, TRUE, NULL, [policies |-> policies, last |-> db.last])
    BY <1>4, <2>1
  <2>3. db.last <= db.last
    BY <1>0
  <2> QED
    BY <1>4, <2>2, <2>3, PoliciesChanged
<1>5. CASE /\ c.op = "reorder" /\ ToSet(c.arg) = Ids
           /\ Answered(i, TRUE, NULL, Become([id \in Ids |-> [db.policies[id] EXCEPT !.priority =
                1 + Len(c.arg) - CHOOSE k \in DOMAIN c.arg : c.arg[k] = id]]))
  <2> DEFINE policies == Moved(db.policies, c.arg)
  <2>1. /\ DOMAIN policies = Ids
        /\ \A id \in Ids : DOMAIN policies[id] = {"on", "priority"} /\ policies[id].on = db.policies[id].on
    BY <1>0 DEF PolicyTable, Ids, Moved
  <2>2. IsOrder(c.arg, db.last) => ByPriority(c.arg, policies)
    BY <1>0, <1>5, Reordered DEF Ids
  <2>3. Answered(i, TRUE, NULL, Become(policies))
    BY <1>5 DEF Ids, Moved
  <2> HIDE DEF policies
  <2>4. PolicyTable(policies, db.last)
    BY <1>0, <2>1 DEF PolicyTable, Ids
  <2>5. ASSUME Asked(c, ui.order, ui.enabled, db.policies), ~c.ok,
               NEW e, e.op = c.op, e.arg = c.arg, e.ok
        PROVE  Asked(e, ui.order, ui.enabled, policies)
    <3>1. c.arg = ui.order /\ ToSet(ui.order) = DOMAIN db.policies /\ OnAs(ui.enabled, db.policies)
      BY <1>5, <2>5 DEF Asked
    <3>2. ByPriority(ui.order, policies)
      BY <2>2, <3>1 DEF PoliciesInv
    <3>3. OnAs(ui.enabled, policies)
      BY <2>1, <3>1 DEF OnAs, Ids
    <3> QED
      BY <1>5, <2>1, <2>5, <3>1, <3>2, <3>3 DEF Asked, Ids
  <2> QED
    BY <1>4, <1>5, <2>1, <2>3, <2>4, <2>5
<1>6. CASE /\ c.op = "toggle" /\ c.arg.id \in Ids
           /\ Answered(i, TRUE, NULL, Become([db.policies EXCEPT ![c.arg.id].on = c.arg.on]))
  <2> DEFINE policies == [db.policies EXCEPT ![c.arg.id].on = c.arg.on]
  <2>0. c.arg.on \in BOOLEAN
    BY <1>0, <1>6 DEF PolicyCall
  <2>1. /\ DOMAIN policies = Ids
        /\ \A id \in Ids : /\ DOMAIN policies[id] = {"on", "priority"}
                           /\ policies[id].priority = db.policies[id].priority
                           /\ policies[id].on = IF id = c.arg.id THEN c.arg.on ELSE db.policies[id].on
    BY <1>0 DEF PolicyTable, Ids
  <2>2. Answered(i, TRUE, NULL, Become(policies))
    BY <1>6
  <2> HIDE DEF policies
  <2>3. PolicyTable(policies, db.last)
    BY <1>0, <2>0, <2>1 DEF PolicyTable, Ids
  <2>4. ASSUME Asked(c, ui.order, ui.enabled, db.policies), ~c.ok,
               NEW e, e.op = c.op, e.arg = c.arg, e.ok
        PROVE  Asked(e, ui.order, ui.enabled, policies)
    <3>1. /\ ToSet(ui.order) = Ids /\ ByPriority(ui.order, db.policies) /\ Ids \subseteq DOMAIN ui.enabled
          /\ ui.enabled[c.arg.id] = c.arg.on
          /\ \A x \in Ids \ {c.arg.id} : ui.enabled[x] = db.policies[x].on
      BY <1>6, <2>4 DEF Asked, Ids
    <3>2. \A k \in DOMAIN ui.order : ui.order[k] \in Ids
      BY <3>1 DEF ToSet
    <3>3. ByPriority(ui.order, policies)
      BY <2>1, <3>1, <3>2 DEF ByPriority
    <3> QED
      BY <1>6, <2>1, <2>4, <3>1, <3>3 DEF Asked
  <2> QED
    BY <1>4, <1>6, <2>1, <2>2, <2>3, <2>4
<1>7. CASE /\ c.op = "delete" /\ c.arg \in Ids
           /\ Answered(i, TRUE, NULL, Become(Restrict(db.policies, Ids \ {c.arg})))
  <2> DEFINE policies == Restrict(db.policies, Ids \ {c.arg})
  <2>1. DOMAIN policies = Ids \ {c.arg} /\ \A id \in Ids \ {c.arg} : policies[id] = db.policies[id]
    BY DEF Restrict
  <2>2. Answered(i, TRUE, NULL, Become(policies))
    BY <1>7
  <2> HIDE DEF policies
  <2>3. PolicyTable(policies, db.last)
    BY <1>0, <2>1 DEF PolicyTable, Ids
  <2>4. ASSUME NEW e, e.op = c.op, e.ok
        PROVE  Asked(e, ui.order, ui.enabled, policies)
    BY <1>7, <2>4 DEF Asked
  <2> QED
    BY <1>4, <1>7, <2>1, <2>2, <2>3, <2>4
<1>8. CASE c.op = "save" /\ c.arg.id \in Ids \cup {NULL} /\ Answered(i, TRUE, NULL, Saved(c))
  <2> DEFINE id == IF c.arg.id = NULL THEN db.last + 1 ELSE c.arg.id
             last == IF c.arg.id = NULL THEN id ELSE db.last
             policies == [x \in Ids \cup {id} |->
                            IF x = id THEN [on |-> c.arg.on, priority |-> 0] ELSE db.policies[x]]
  <2>1. id \in Nat /\ last \in Nat /\ id <= last /\ db.last <= last /\ (id \in Ids \/ id > db.last)
    BY <1>0, <1>8 DEF PolicyTable, Ids
  <2>2. Answered(i, TRUE, NULL, [policies |-> policies, last |-> last])
    BY <1>8 DEF Saved
  <2> HIDE DEF id, last
  <2>3. /\ DOMAIN policies = Ids \cup {id}
        /\ \A x \in Ids \cup {id} :
             policies[x] = IF x = id THEN [on |-> c.arg.on, priority |-> 0] ELSE db.policies[x]
    OBVIOUS
  <2> HIDE DEF policies
  <2>4. c.arg.on \in BOOLEAN
    BY <1>0, <1>8 DEF PolicyCall
  <2>5. \A x \in Ids : /\ x \in Nat /\ x <= last
                       /\ DOMAIN db.policies[x] = {"on", "priority"} /\ db.policies[x].on \in BOOLEAN
    BY <1>0, <2>1 DEF PolicyTable, Ids
  <2>6. PolicyTable(policies, last)
    BY <2>1, <2>3, <2>4, <2>5 DEF PolicyTable
  <2>7. ASSUME NEW e, e.op = c.op, e.ok
        PROVE  Asked(e, ui.order, ui.enabled, policies)
    BY <1>8, <2>7 DEF Asked
  <2>8. \A x \in DOMAIN policies : x \in Ids \/ x > db.last
    BY <2>1, <2>3
  <2> QED
    BY <1>8, <2>1, <2>2, <2>6, <2>7, <2>8, PoliciesChanged
<1> QED
  BY <1>2, <1>3, <1>5, <1>6, <1>7, <1>8 DEF ServePolicies

\* The end of a call that does not list; with a listing after it, or agreement.
LEMMA PoliciesEnd ==
  ASSUME PoliciesInv, NEW i \in DOMAIN calls, calls[i].op # "list",
         calls' \in {RemoveAt(calls, i), FetchPolicies(RemoveAt(calls, i))},
         Continue, UNCHANGED parted, DOMAIN ui' = DOMAIN ui,
         UNCHANGED <<ui.rows, ui.order, ui.editing>>,
         calls' = RemoveAt(calls, i) /\ Asked(calls[i], ui.order, ui.enabled, db.policies)
           => Agrees(ui.order, ui'.enabled, db.policies)
  PROVE  PoliciesInv'
<1> DEFINE cs == RemoveAt(calls, i)
           r == Request("list", NULL)
<1>0. /\ Calls(calls) /\ Frame /\ (~parted => NoneMissed(calls, ui.rows, ui.editing, Ids))
      /\ (~marred => PoliciesKnown(calls, ui.order, ui.enabled, db.policies))
      /\ calls[i] \in ToSet(calls) /\ Len(calls) <= MaxCalls
      /\ \A c \in ToSet(calls) : PolicyCall(c, db.last)
  BY SentCalls DEF PoliciesInv
<1>1. /\ Calls(cs) /\ Len(cs) = Len(calls) - 1 /\ Len(calls) \in Nat /\ ToSet(cs) \subseteq ToSet(calls)
  BY <1>0, Ends
<1>2. Single(cs, {"list"}) => Single(calls, {"list"})
  BY <1>0, SingleBack
<1>3. Whole(r) /\ r.op = "list" /\ r.pc = "sent" /\ ~r.ok
  BY WholeRequest
<1>4. calls' \in {cs, Append(cs, r)}
  BY DEF FetchPolicies
<1>5. Frame' /\ UNCHANGED <<page, db, marred>>
  BY <1>0, Frames DEF Frame
<1>6. Ids' = Ids
  BY <1>5 DEF Ids
<1> HIDE DEF cs, r
<1>7. /\ Calls(Append(cs, r)) /\ Len(Append(cs, r)) = Len(cs) + 1 /\ ToSet(Append(cs, r)) = ToSet(cs) \cup {r}
      /\ Single(Append(cs, r), {"list"}) => Single(cs, {"list"})
  BY <1>1, <1>3, Sends, SingleBack
<1>8. /\ Calls(calls') /\ Len(calls') <= Len(calls) /\ Len(calls') \in Nat
      /\ ToSet(calls') \subseteq ToSet(calls) \cup {r}
      /\ Single(calls', {"list"}) => Single(calls, {"list"})
  <2>1. Len(cs) \in Nat
    BY <1>1 DEF Calls
  <2>2. CASE calls' = cs
    BY <1>1, <1>2, <2>1, <2>2
  <2>3. CASE calls' = Append(cs, r)
    <3>1. Len(calls') = Len(calls)
      BY <1>1, <1>7, <2>1, <2>3
    <3>2. ToSet(calls') \subseteq ToSet(calls) \cup {r}
      BY <1>1, <1>7, <2>3
    <3>3. Single(calls', {"list"}) => Single(calls, {"list"})
      BY <1>2, <1>7, <2>3
    <3> QED
      BY <1>1, <1>7, <2>3, <3>1, <3>2, <3>3
  <2> QED
    BY <1>4, <2>2, <2>3
<1>9. PolicyCall(r, db.last)
  BY <1>3 DEF PolicyCall
<1>10. ASSUME ~parted
       PROVE  NoneMissed(calls', ui.rows, ui.editing, Ids)
  <2>1. \A c \in ToSet(calls') : c.op = "list" /\ c.ok => c \in ToSet(calls)
    BY <1>3, <1>8
  <2>2. Ids \cap (ui.rows \cup {ui.editing}) \subseteq Ids
    OBVIOUS
  <2> QED
    BY <1>0, <1>8, <1>10, <2>1, <2>2, StillNoneMissed
<1>11. ASSUME ~marred
       PROVE  PoliciesKnown(calls', ui.order, ui'.enabled, db.policies)
  <2>1. PoliciesKnown(calls, ui.order, ui.enabled, db.policies)
    BY <1>0, <1>11
  <2>2. Len(calls) = 1
    <3>1. DOMAIN calls = 1..Len(calls)
      BY <1>0 DEF Calls
    <3> QED
      BY <1>1, <2>1, <3>1 DEF PoliciesKnown
  <2>3. ToSet(cs) = {}
    BY <1>0, <2>2, AloneEnds DEF cs
  <2>4. CASE calls' = cs
    <3>1. Agrees(ui.order, ui'.enabled, db.policies)
      BY <1>0, <2>1, <2>4 DEF PoliciesKnown, cs
    <3>2. Len(calls') <= 1
      BY <1>1, <2>2, <2>4
    <3> QED
      BY <2>3, <2>4, <3>1, <3>2 DEF PoliciesKnown
  <2>5. CASE calls' = Append(cs, r)
    <3>1. Len(calls') = 1 /\ ToSet(calls') = {r}
      BY <1>1, <1>7, <2>2, <2>3, <2>5
    <3>2. calls' # <<>>
      BY <3>1, NoneOpen
    <3>3. Asked(r, ui.order, ui'.enabled, db.policies)
      BY <1>3 DEF Asked
    <3> QED
      BY <3>1, <3>2, <3>3 DEF PoliciesKnown
  <2> QED
    BY <1>4, <2>4, <2>5
<1>12. Len(calls') <= MaxCalls
  BY <1>0, <1>1, <1>8, MaxCallsNat
<1>13. \A c \in ToSet(calls') : PolicyCall(c, db.last)
  BY <1>0, <1>8, <1>9
<1> QED
  BY <1>5, <1>6, <1>8, <1>10, <1>11, <1>12, <1>13 DEF PoliciesInv

LEMMA PoliciesReceives ==
  ASSUME PoliciesInv, NEW i \in DOMAIN calls, PoliciesReceive(i)
  PROVE  PoliciesInv'
<1> DEFINE cs == RemoveAt(calls, i)
<1>0. /\ Calls(calls) /\ Frame /\ (~parted => NoneMissed(calls, ui.rows, ui.editing, Ids))
      /\ (~marred => PoliciesKnown(calls, ui.order, ui.enabled, db.policies))
      /\ DOMAIN ui = {"rows", "order", "enabled", "editing", "drawer", "confirm", "deleting"}
      /\ calls[i] \in ToSet(calls) /\ Len(calls) <= MaxCalls /\ calls[i].ok \in BOOLEAN
      /\ \A c \in ToSet(calls) : PolicyCall(c, db.last)
      /\ PolicyTable(db.policies, db.last)
  BY SentCalls DEF PoliciesInv
<1>1. CASE ReceivePolicyList(i)
  <2> DEFINE c == calls[i]
  <2>1. /\ c.op = "list" /\ c.pc = "answered" /\ calls' = cs
        /\ ui' = IF c.ok THEN [ui EXCEPT !.rows = ToSet(c.answer.order), !.order = c.answer.order,
                                         !.enabled = c.answer.enabled]
                 ELSE ui
        /\ parted' = (parted \/ Crossed(i)) /\ marred' = (marred \/ Crossed(i))
        /\ UNCHANGED <<page, db, clicks, faults, changes>>
    BY <1>1 DEF ReceivePolicyList, Ended
  <2>2. /\ Calls(cs) /\ Len(cs) = Len(calls) - 1 /\ Len(calls) \in Nat /\ ToSet(cs) \subseteq ToSet(calls)
        /\ \A ops : Single(calls, ops) => Single(cs, ops)
        /\ \A ops : Single(calls, ops) /\ c.op \in ops => ~Has(cs, ops)
    BY <1>0, Ends
  <2> HIDE DEF cs, c
  <2>3. Frame' /\ Ids' = Ids
    BY <1>0, <2>1 DEF Frame, Crossed, Ids
  <2>4. /\ DOMAIN ui' = DOMAIN ui /\ ui'.editing = ui.editing
        /\ IF c.ok THEN ui'.rows = ToSet(c.answer.order) /\ ui'.order = c.answer.order
                        /\ ui'.enabled = c.answer.enabled
           ELSE UNCHANGED ui
    BY <1>0, <2>1
  <2>5. PolicyCall(c, db.last)
    BY <1>0 DEF c
  <2>6. IsOrder(ui'.order, db.last) /\ ui'.rows = ToSet(ui'.order)
    <3>1. CASE c.ok
      BY <2>1, <2>4, <2>5, <3>1 DEF PolicyCall
    <3>2. CASE ~c.ok
      BY <2>4, <3>2 DEF PoliciesInv
    <3> QED
      BY <3>1, <3>2
  <2>7. Len(calls') <= MaxCalls
    BY <1>0, <2>1, <2>2, MaxCallsNat
  \* No other listing is open.
  <2>8. ASSUME ~parted'
        PROVE  NoneMissed(cs, ui'.rows, ui.editing, Ids)
    <3>1. ~parted /\ NoneMissed(calls, ui.rows, ui.editing, Ids) /\ ~Crossed(i)
      BY <1>0, <2>1, <2>8
    <3>2. Single(calls, {"list"})
      BY <2>1, <3>1 DEF Crossed, Single, c
    <3>3. ~Has(cs, {"list"})
      BY <2>1, <2>2, <3>2
    <3>4. c.ok => Ids \cap (ui.rows \cup {ui.editing}) \subseteq ToSet(c.answer.order)
      BY <1>0, <2>1, <3>1, <3>2 DEF NoneMissed, c
    <3>5. ui.editing \in Ids => ui.editing \in ui'.rows
      BY <2>4, <3>1, <3>4 DEF NoneMissed
    <3> QED
      BY <3>3, <3>5 DEF NoneMissed, Has
  <2>9. ASSUME ~marred'
        PROVE  PoliciesKnown(cs, ui'.order, ui'.enabled, db.policies)
    <3>1. PoliciesKnown(calls, ui.order, ui.enabled, db.policies)
      BY <1>0, <2>1, <2>9
    <3>2. Len(calls) = 1
      <4>1. DOMAIN calls = 1..Len(calls)
        BY <1>0 DEF Calls
      <4> QED
        BY <2>2, <3>1, <4>1 DEF PoliciesKnown
    <3>3. ToSet(cs) = {} /\ Len(cs) <= 1
      BY <1>0, <2>2, <3>2, AloneEnds DEF cs
    <3>4. c.ok /\ Agrees(c.answer.order, c.answer.enabled, db.policies)
      BY <1>0, <2>1, <3>1 DEF PoliciesKnown, Asked, c
    <3> QED
      BY <2>4, <3>3, <3>4 DEF PoliciesKnown
  <2>10. \A e \in ToSet(cs) : PolicyCall(e, db.last)
    BY <1>0, <2>2
  <2> QED
    BY <2>1, <2>2, <2>3, <2>4, <2>6, <2>7, <2>8, <2>9, <2>10 DEF PoliciesInv
<1>2. CASE ReceiveReorder(i)
  <2>1. /\ calls[i].op = "reorder" /\ ui' = ui /\ Continue /\ UNCHANGED parted
        /\ calls' = IF calls[i].ok THEN RemoveAt(calls, i) ELSE FetchPolicies(RemoveAt(calls, i))
    BY <1>2 DEF ReceiveReorder, Ended
  <2>2. CASE calls[i].ok
    <3>1. Asked(calls[i], ui.order, ui.enabled, db.policies) => Agrees(ui.order, ui'.enabled, db.policies)
      BY <2>1, <2>2 DEF Asked, Agrees
    <3> QED
      BY <2>1, <2>2, <3>1, PoliciesEnd
  <2>3. CASE ~calls[i].ok
    <3>1. calls' = FetchPolicies(RemoveAt(calls, i)) /\ calls' # RemoveAt(calls, i)
      <4>1. Calls(RemoveAt(calls, i))
        BY <1>0, Ends
      <4>2. Len(FetchPolicies(RemoveAt(calls, i))) = Len(RemoveAt(calls, i)) + 1
            /\ Len(RemoveAt(calls, i)) \in Nat
        BY <4>1, WholeRequest, Sends DEF FetchPolicies
      <4> QED
        BY <2>1, <2>3, <4>2
    <3> QED
      BY <2>1, <3>1, PoliciesEnd
  <2> QED
    BY <1>0, <2>2, <2>3
<1>3. CASE ReceiveToggle(i)
  <2> DEFINE id == calls[i].arg.id
  <2>1. /\ calls[i].op = "toggle" /\ Continue /\ UNCHANGED parted /\ calls' = RemoveAt(calls, i)
        /\ ui' = IF calls[i].ok THEN ui
                 ELSE [ui EXCEPT !.enabled = [x \in DOMAIN ui.enabled \cup {id} |->
                                                IF x = id THEN ~calls[i].arg.on ELSE ui.enabled[x]]]
    BY <1>3 DEF ReceiveToggle, Ended
  <2>2. /\ DOMAIN ui' = DOMAIN ui /\ UNCHANGED <<ui.rows, ui.order, ui.editing>>
        /\ ui'.enabled = IF calls[i].ok THEN ui.enabled
                         ELSE [x \in DOMAIN ui.enabled \cup {id} |->
                                 IF x = id THEN ~calls[i].arg.on ELSE ui.enabled[x]]
    BY <1>0, <2>1
  <2>3. ASSUME Asked(calls[i], ui.order, ui.enabled, db.policies)
        PROVE  Agrees(ui.order, ui'.enabled, db.policies)
    <3>1. /\ ToSet(ui.order) = DOMAIN db.policies /\ ByPriority(ui.order, db.policies)
          /\ id \in DOMAIN db.policies /\ DOMAIN db.policies \subseteq DOMAIN ui.enabled
          /\ ui.enabled[id] = calls[i].arg.on
          /\ db.policies[id].on = IF calls[i].ok THEN calls[i].arg.on ELSE ~calls[i].arg.on
          /\ \A x \in DOMAIN db.policies \ {id} : ui.enabled[x] = db.policies[x].on
      BY <2>1, <2>3 DEF Asked
    <3>2. OnAs(ui'.enabled, db.policies)
      BY <2>2, <3>1 DEF OnAs
    <3> QED
      BY <2>2, <3>1, <3>2 DEF Agrees
  <2> QED
    BY <2>1, <2>2, <2>3, PoliciesEnd
<1>4. CASE ReceiveDelete(i) \/ ReceiveSave(i)
  <2>1. /\ calls[i].op \in {"delete", "save"} /\ Continue /\ UNCHANGED parted
        /\ calls' = IF calls[i].ok THEN FetchPolicies(RemoveAt(calls, i)) ELSE RemoveAt(calls, i)
    BY <1>4 DEF ReceiveDelete, ReceiveSave, Ended
  <2>2. DOMAIN ui' = DOMAIN ui /\ UNCHANGED <<ui.rows, ui.order, ui.enabled, ui.editing>>
    BY <1>0, <1>4 DEF ReceiveDelete, ReceiveSave
  <2>3. CASE ~calls[i].ok
    <3>1. Asked(calls[i], ui.order, ui.enabled, db.policies) => Agrees(ui.order, ui'.enabled, db.policies)
      BY <2>1, <2>2, <2>3 DEF Asked
    <3> QED
      BY <2>1, <2>2, <2>3, <3>1, PoliciesEnd
  <2>4. CASE calls[i].ok
    <3>1. calls' = FetchPolicies(RemoveAt(calls, i)) /\ calls' # RemoveAt(calls, i)
      <4>1. Calls(RemoveAt(calls, i))
        BY <1>0, Ends
      <4>2. Len(FetchPolicies(RemoveAt(calls, i))) = Len(RemoveAt(calls, i)) + 1
            /\ Len(RemoveAt(calls, i)) \in Nat
        BY <4>1, WholeRequest, Sends DEF FetchPolicies
      <4> QED
        BY <2>1, <2>4, <4>2
    <3> QED
      BY <2>1, <2>2, <3>1, PoliciesEnd
  <2> QED
    BY <1>0, <2>3, <2>4
<1> QED
  BY <1>1, <1>2, <1>3, <1>4 DEF PoliciesReceive

LEMMA PoliciesSteps ==
  ASSUME PoliciesInv, [Next]_vars
  PROVE  PoliciesInv'
<1>1. CASE UNCHANGED vars
  BY <1>1 DEF vars, PoliciesInv, Frame, Ids
<1>2. page = "policies"
  BY DEF PoliciesInv
<1> QED
  BY <1>1, <1>2, PoliciesClicks, PoliciesAnswers, PoliciesReceives
     DEF Next, User, Serve, Receive, Timer, Elsewhere

-----------------------------------------------------------------------------
(* The pages as they are mounted. *)

LEMMA FirstCall ==
  ASSUME NEW r, Whole(r)
  PROVE  /\ Calls(<<r>>) /\ Len(<<r>>) = 1 /\ ToSet(<<r>>) = {r} /\ <<r>> # <<>>
         /\ \A ops : Single(<<r>>, ops)
         /\ \A ops, f : (r.op \in ops => r.arg = f) => LastAsks(<<r>>, ops, f)
         /\ \A good : r \in good => Fresh(<<r>>, good)
<1>1. Len(<<r>>) = 1 /\ DOMAIN <<r>> = {1} /\ <<r>>[1] = r
  OBVIOUS
<1>2. ToSet(<<r>>) = {r}
  BY <1>1 DEF ToSet
<1>3. <<r>> \in Seq({r})
  OBVIOUS
<1>4. Calls(<<r>>)
  BY <1>2, <1>3 DEF Calls
<1>5. \A ops : Single(<<r>>, ops)
  BY <1>1 DEF Single
<1>6. ASSUME NEW ops, NEW f, r.op \in ops => r.arg = f
      PROVE  LastAsks(<<r>>, ops, f)
  BY <1>1, <1>6 DEF LastAsks
<1>7. ASSUME NEW good, r \in good
      PROVE  Fresh(<<r>>, good)
  BY <1>1, <1>7 DEF Fresh
<1>8. <<r>> # <<>>
  BY <1>1
<1> QED
  BY <1>1, <1>2, <1>4, <1>5, <1>6, <1>7, <1>8

\* The effect's first call.
LEMMA LoadingFirst ==
  /\ Calls(Loading) /\ Len(Loading) = 1 /\ ToSet(Loading) = {Request("load", Everything)}
  /\ Loading # <<>> /\ \A ops : Single(Loading, ops)
  /\ LastAsks(Loading, {"load", "list"}, Everything)
  /\ \A by : Listed(Loading, "loading", by, Everything, FALSE)
  /\ \A edits, view, of, but, table :
       view # "ready" \/ GoodRows(of, but, table) => Kept(Loading, edits, view, of, but, table)
<1> DEFINE r == Request("load", Everything)
<1>1. Whole(r) /\ r.op = "load" /\ r.arg = Everything /\ r.pc = "sent" /\ ~r.ok
  BY WholeRequest
<1>2. Loading = <<r>>
  BY DEF Loading
<1> HIDE DEF r
<1>3. /\ Calls(Loading) /\ Len(Loading) = 1 /\ ToSet(Loading) = {r} /\ Loading # <<>>
      /\ \A ops : Single(Loading, ops)
      /\ \A ops, f : (r.op \in ops => r.arg = f) => LastAsks(Loading, ops, f)
      /\ \A good : r \in good => Fresh(Loading, good)
  BY <1>1, <1>2, FirstCall
<1>4. ASSUME NEW by
      PROVE  Listed(Loading, "loading", by, Everything, FALSE)
  <2>1. Has(Loading, {"load"}) /\ ~Has(Loading, {"list"})
    BY <1>1, <1>3 DEF Has
  <2>2. LastAsks(Loading, {"list"}, Everything)
    BY <1>1, <1>3
  <2>3. Sound(r)
    BY <1>1 DEF Sound
  <2>4. Len(Loading) <= MaxCalls + 1
    BY <1>3, MaxCallsNat
  <2> QED
    BY <1>1, <1>3, <2>1, <2>2, <2>3, <2>4 DEF Listed
<1>5. ASSUME NEW edits, NEW view, NEW of, NEW but, NEW table, view # "ready" \/ GoodRows(of, but, table)
      PROVE  Kept(Loading, edits, view, of, but, table)
  <2>1. r \in GoodCalls(Loading, table)
    BY <1>1, <1>3 DEF GoodCalls
  <2> QED
    BY <1>3, <1>5, <2>1 DEF Kept
<1>6. LastAsks(Loading, {"load", "list"}, Everything)
  BY <1>1, <1>3
<1> QED
  BY <1>3, <1>4, <1>5, <1>6 DEF r

LEMMA Starts ==
  ASSUME Init
  PROVE  Frame /\ parted = FALSE /\ marred = FALSE /\ Has(Loading, {"load"})
<1>0. clicks = 0 /\ faults = 0 /\ changes = 0 /\ parted = FALSE /\ marred = FALSE
  BY DEF Init
<1>1. Frame
  <2>1. {clicks, faults, changes} \subseteq Nat
    BY <1>0
  <2>2. parted \in BOOLEAN /\ marred \in BOOLEAN
    BY <1>0
  <2> QED
    BY <2>1, <2>2 DEF Frame
<1>2. Has(Loading, {"load"})
  BY WholeRequest, LoadingFirst DEF Has
<1> QED
  BY <1>0, <1>1, <1>2

LEMMA SessionsStarts ==
  ASSUME Init, page = "sessions"
  PROVE  SessionsInv
<1>1. ui = SessionsUI /\ calls = Loading
  BY DEF Init
<1>2. /\ DOMAIN ui = {"view", "rows", "applied", "timer", "kick"} /\ IsRows(ui.rows)
      /\ ui.view = "loading" /\ ui.applied = Everything
  BY <1>1 DEF SessionsUI, Mock, IsRows
<1> QED
  BY <1>1, <1>2, Starts, LoadingFirst DEF SessionsInv

LEMMA AuthLogsStarts ==
  ASSUME Init, page = "authlogs"
  PROVE  AuthLogsInv
<1>1. PICK link \in Filters : AuthLogsMounted(link)
  BY DEF Init
<1>2. /\ DOMAIN ui = {"view", "rows", "applied", "timer"} /\ IsRows(ui.rows)
      /\ ui.view = "loading" /\ ui.applied = link
  BY <1>1 DEF AuthLogsMounted, LogUI, NoRows, IsRows
<1>3. calls = IF link = Everything THEN Loading ELSE Append(Loading, Request("list", link))
  BY <1>1 DEF AuthLogsMounted, FetchAuthLogs, Loading
<1>4. Listed(calls, "loading", ui.rows.by, link, FALSE)
  <2>1. Listed(Loading, "loading", ui.rows.by, Everything, FALSE)
    BY LoadingFirst
  <2>2. Len(Loading) + 1 <= MaxCalls + (IF "loading" = "loading" THEN 1 ELSE 0)
    BY LoadingFirst, MaxCallsNat
  <2>3. Listed(Append(Loading, Request("list", link)), "loading", ui.rows.by, link, FALSE)
    BY <2>1, <2>2, ListedAsks
  <2> QED
    BY <1>3, <2>1, <2>3
<1> QED
  BY <1>2, <1>4, Starts DEF AuthLogsInv

LEMMA AuditStarts ==
  ASSUME Init, page = "audit"
  PROVE  AuditInv
<1> DEFINE r == LoadAudit(Everything)
<1>1. ui = AuditUI /\ calls = <<r>>
  BY DEF Init
<1>2. /\ DOMAIN ui = {"view", "rows", "applied"} /\ IsRows(ui.rows)
      /\ ui.view = "loading" /\ ui.applied = Everything
  BY <1>1 DEF AuditUI, NoRows, IsRows
<1>3. Whole(r) /\ r.op = "list" /\ r.arg = Everything /\ ~r.ok
  BY WholeRequest DEF LoadAudit
<1> HIDE DEF r
<1>4. /\ Calls(calls) /\ Len(calls) = 1 /\ ToSet(calls) = {r}
      /\ LastAsks(calls, {"list"}, Everything)
  BY <1>1, <1>3, FirstCall
<1>5. Len(calls) <= MaxCalls /\ Sound(r)
  BY <1>3, <1>4, MaxCallsNat DEF Sound
<1>6. Recent(calls, {"list"}, ui.view, ui.rows.by, ui.applied, parted)
  BY <1>2, <1>4, <1>5 DEF Recent
<1> QED
  BY <1>2, <1>3, <1>4, <1>6, Starts DEF AuditInv

\* The first call of the two pages with a period.
LEMMA PeriodStarts ==
  ASSUME Frame, {"view", "rows", "applied"} \subseteq DOMAIN ui, IsRows(ui.rows), ui.view = "ready",
         ui.applied = Everything, calls = LoadPeriod(<<>>, Everything)
  PROVE  Periods /\ ToSet(calls) = {Request("load", Everything)}
<1> DEFINE d == Cancel(<<>>, "load")
           r == Request("load", Everything)
<1>1. Calls(<<>>) /\ ~Has(<<>>, {"load"}) /\ Single(<<>>, {"load"})
  BY NoneOpen DEF Calls, Has, Single
<1>2. Calls(d) /\ Len(d) = 0 /\ ToSet(d) = {} /\ Single(d, {"load"}) /\ ~Has(d, {"load"})
  BY <1>1, NoneOpen, Cancels
<1>3. Whole(r) /\ r.op = "load" /\ r.arg = Everything /\ ~r.ok
  BY WholeRequest
<1>4. calls = Append(d, r)
  BY DEF LoadPeriod
<1> HIDE DEF d, r
<1>5. /\ ToSet(calls) = {r} /\ Single(calls, {"load"})
  <2>1. /\ ToSet(calls) = ToSet(d) \cup {r}
        /\ \A ops : Single(d, ops) /\ (r.op \notin ops \/ ~Has(d, ops)) => Single(calls, ops)
    BY <1>2, <1>3, <1>4, Sends
  <2> QED
    BY <1>2, <2>1
<1>6. Len(d) + 1 <= MaxCalls
  BY <1>2, MaxCallsNat
<1>7. Recent(calls, {"load"}, ui.view, ui.rows.by, ui.applied, parted)
  BY <1>2, <1>3, <1>4, <1>6, RecentAsks
<1> QED
  BY <1>5, <1>7 DEF Periods, r

LEMMA DashboardStarts ==
  ASSUME Init, page = "dashboard"
  PROVE  DashboardInv
<1>1. ui = DashboardUI /\ db = OverviewDB /\ calls = LoadPeriod(<<>>, Everything)
  BY DEF Init
<1>2. /\ DOMAIN ui = {"view", "rows", "applied", "alerts", "readIds"} /\ IsRows(ui.rows)
      /\ ui.view = "ready" /\ ui.applied = Everything /\ ui.alerts = {} /\ ui.readIds = {}
      /\ db.read = {}
  BY <1>1 DEF DashboardUI, OverviewDB, IsRows
<1>3. Periods /\ ToSet(calls) = {Request("load", Everything)}
  BY <1>1, <1>2, Starts, PeriodStarts
<1> QED
  BY <1>2, <1>3, WholeRequest DEF DashboardInv

LEMMA ReportsStarts ==
  ASSUME Init, page = "reports"
  PROVE  ReportsInv
<1>1. ui = ReportsUI /\ calls = LoadPeriod(<<>>, Everything)
  BY DEF Init
<1>2. /\ DOMAIN ui = {"view", "rows", "applied", "exporting"} /\ IsRows(ui.rows)
      /\ ui.view = "ready" /\ ui.applied = Everything
  BY <1>1 DEF ReportsUI, IsRows
<1>3. Periods
  BY <1>1, <1>2, Starts, PeriodStarts
<1> QED
  BY <1>2, <1>3 DEF ReportsInv

LEMMA UsersStarts ==
  ASSUME Init, page = "users"
  PROVE  UsersInv
<1>1. PICK link \in DeepLinks : db = UsersDB /\ UsersMounted(link)
  BY DEF Init
<1> DEFINE p == Request("policies", NULL)
           r == FetchUserDetail(link)
           cs == <<Request("load", Everything), p>>
<1>2. /\ DOMAIN ui = {"view", "rows", "applied", "policies", "drawer", "detail", "modal", "syncing"}
      /\ IsRows(ui.rows) /\ ui.view = "loading" /\ ui.applied = Everything
      /\ ui.drawer = link /\ ui.detail = NULL
  BY <1>1 DEF UsersMounted, UsersUI, Mock, IsRows
<1>3. Whole(p) /\ p.op = "policies" /\ ~p.ok /\ Whole(r) /\ r.op = "detail" /\ ~r.ok
  BY WholeRequest DEF FetchUserDetail
<1>4. cs = Append(Loading, p) /\ calls = DrawerEffect(cs, link)
  BY <1>1 DEF UsersMounted, Loading
<1> HIDE DEF p, r, cs
<1>5. /\ Calls(cs) /\ Len(cs) = 2 /\ Single(cs, {"detail"})
      /\ Has(cs, {"load"}) /\ ~Has(cs, {"detail"})
      /\ ToSet(cs) = {Request("load", Everything), p}
  <2>1. /\ Calls(Loading) /\ Len(Loading) = 1 /\ ToSet(Loading) = {Request("load", Everything)}
        /\ Single(Loading, {"detail"})
    BY LoadingFirst
  <2>2. /\ Calls(cs) /\ Len(cs) = Len(Loading) + 1 /\ ToSet(cs) = ToSet(Loading) \cup {p}
        /\ \A ops : Single(Loading, ops) /\ (p.op \notin ops \/ ~Has(Loading, ops)) => Single(cs, ops)
    BY <1>3, <1>4, <2>1, Sends
  <2>3. p.op \notin {"detail"}
    BY <1>3
  <2>4. ToSet(cs) = {Request("load", Everything), p}
    BY <2>1, <2>2
  <2> QED
    BY <1>3, <2>1, <2>2, <2>3, <2>4, WholeRequest DEF Has
<1>6. Listed(cs, "loading", ui.rows.by, Everything, FALSE)
  <2>1. Listed(Loading, "loading", ui.rows.by, Everything, FALSE)
    BY LoadingFirst
  <2>2. Len(Loading) + 1 <= MaxCalls /\ p.op \notin {"load", "list"}
    BY <1>3, LoadingFirst, MaxCallsNat
  <2> QED
    BY <1>3, <1>4, <2>1, <2>2, ListedSends
<1>7. Kept(cs, UserEdits, "loading", ui.rows.of, {}, db.users)
  <2>1. Kept(Loading, UserEdits, "loading", ui.rows.of, {}, db.users)
    BY LoadingFirst
  <2> QED
    BY <1>3, <1>4, <2>1, LoadingFirst, KeptSends
<1>8. /\ Calls(calls) /\ Single(calls, {"detail"})
      /\ \A c \in ToSet(calls) : c.op = "detail" => c.arg = link /\ link # NULL
      /\ \A c \in ToSet(calls) : c.op # "detail" => c \in ToSet(cs)
      /\ Kept(calls, UserEdits, "loading", ui.rows.of, {}, db.users)
  BY <1>4, <1>5, <1>7, DrawerMoves
<1>9. Listed(calls, "loading", ui.rows.by, Everything, FALSE)
  <2> DEFINE left == Cancel(cs, "detail")
  <2>1. /\ Calls(left) /\ Len(left) = 2 /\ ToSet(left) = {c \in ToSet(cs) : c.op # "detail"}
    BY <1>5, Cancels
  <2>2. Listed(left, "loading", ui.rows.by, Everything, FALSE)
    <3>1. "detail" \notin {"load", "list"}
      OBVIOUS
    <3> QED
      BY <1>5, <1>6, <3>1, ListedCancels
  <2>3. calls = IF link = NULL THEN left ELSE Append(left, r)
    BY <1>4 DEF DrawerEffect, r
  <2> HIDE DEF left
  <2>4. CASE link = NULL
    BY <2>2, <2>3, <2>4
  <2>5. CASE link # NULL
    <3>1. calls = Append(left, r)
      BY <2>3, <2>5
    <3>2. /\ Calls(calls) /\ Len(calls) = Len(left) + 1 /\ ToSet(calls) = ToSet(left) \cup {r}
          /\ \A ops : Single(left, ops) /\ (r.op \notin ops \/ ~Has(left, ops)) => Single(calls, ops)
          /\ \A ops, f : (IF r.op \in ops THEN r.arg = f ELSE LastAsks(left, ops, f)) => LastAsks(calls, ops, f)
      BY <1>3, <2>1, <3>1, Sends
    <3>3. Single(calls, {"load"})
      BY <1>3, <2>2, <3>2 DEF Listed
    <3>4. LastAsks(calls, {"list"}, Everything)
      BY <1>3, <2>2, <3>2 DEF Listed
    <3>5. Has(calls, {"load"})
      BY <2>2, <3>2 DEF Listed, Has
    <3>6. Len(calls) <= MaxCalls + 1
      BY <2>1, <3>2, MaxCallsNat
    <3>7. \A c \in ToSet(calls) : Sound(c) /\ (c.op = "load" => c.arg = Everything)
      <4>1. \A c \in ToSet(left) : Sound(c) /\ (c.op = "load" => c.arg = Everything)
        BY <2>2 DEF Listed
      <4>2. Sound(r) /\ r.op # "load"
        BY <1>3 DEF Sound
      <4> QED
        BY <3>2, <4>1, <4>2
    <3> QED
      BY <3>2, <3>3, <3>4, <3>5, <3>6, <3>7 DEF Listed
  <2> QED
    BY <2>4, <2>5
<1>10. ~Has(calls, {"sync"})
  BY <1>3, <1>5, <1>8, WholeRequest DEF Has
<1> QED
  BY <1>2, <1>8, <1>9, <1>10, Starts DEF UsersInv

LEMMA NasStarts ==
  ASSUME Init, page = "nas"
  PROVE  NasInv
<1>1. ui = NasUI /\ db \in NasDB /\ calls = Loading
  BY DEF Init
<1>2. /\ DOMAIN ui = {"view", "rows", "applied", "drawer", "ports", "secrets", "visible", "modal"}
      /\ IsRows(ui.rows) /\ ui.rows.of = <<>> /\ ui.view = "loading" /\ ui.applied = Everything
      /\ DOMAIN ui.secrets = Items /\ (\A x \in Items : ui.secrets[x] = NULL)
      /\ ui.visible = {} /\ ui.drawer = NULL
  BY <1>1 DEF NasUI, None, IsRows
<1>3. DOMAIN db.nas \subseteq Items /\ \A x \in DOMAIN db.nas : db.nas[x] \in Nat
  <2>1. PICK X \in {Items, {2}} : db = [nas |-> [x \in X |-> 0]]
    BY <1>1 DEF NasDB
  <2>2. X \subseteq Items /\ db.nas = [x \in X |-> 0]
    BY <2>1, TablesAssumption DEF Items
  <2> QED
    BY <2>2
<1>4. /\ ToSet(calls) = {Request("load", Everything)} /\ \A ops : Single(calls, ops)
      /\ Listed(calls, "loading", ui.rows.by, Everything, FALSE)
      /\ Kept(calls, NasEdits, "loading", ui.rows.of, {}, NasRows)
  BY <1>1, LoadingFirst
<1>5. \A c \in ToSet(calls) : NasCall(c) /\ c.op = "load"
  BY <1>4, WholeRequest DEF NasCall
<1>6. ~Has(calls, {"ports"}) /\ DOMAIN ui.rows.of \subseteq Items
  BY <1>2, <1>5 DEF Has
<1>7. NasSecrets(calls, ui.secrets, db.nas)
  BY <1>2, <1>3, <1>4, <1>5 DEF NasSecrets
<1> QED
  BY <1>2, <1>3, <1>4, <1>5, <1>6, <1>7, Starts DEF NasInv

LEMMA EndpointsStarts ==
  ASSUME Init, page = "endpoints"
  PROVE  EndpointsInv
<1>1. ui = EndpointsUI /\ calls = Loading
  BY DEF Init
<1>2. /\ DOMAIN ui = {"view", "rows", "applied", "modal"} /\ IsRows(ui.rows)
      /\ ui.rows.of = <<>> /\ ui.view = "ready" /\ ui.applied = Everything /\ ui.modal = NULL
  BY <1>1 DEF EndpointsUI, None, IsRows
<1>3. /\ Calls(calls) /\ Len(calls) = 1 /\ ToSet(calls) = {Request("load", Everything)}
      /\ Single(calls, {"load"}) /\ LastAsks(calls, EpReads, Everything)
  BY <1>1, LoadingFirst DEF EpReads
<1>4. \A c \in ToSet(calls) : c.op = "load" /\ ~c.ok
  BY <1>3, WholeRequest
<1>5. Has(calls, EpReads) /\ ~Has(calls, {"remove"})
  BY <1>3, <1>4 DEF Has, EpReads
<1>6. Len(calls) <= MaxCalls /\ \A c \in ToSet(calls) : Sound(c)
  BY <1>3, <1>4, MaxCallsNat DEF Sound
<1>7. Recent(calls, EpReads, "ready", ui.rows.by, ui.applied, parted)
  BY <1>2, <1>3, <1>5, <1>6 DEF Recent
<1>8. EpKept(calls, ui.rows.of, db.endpoints)
  <2>1. GoodRows(<<>>, Removing(calls), db.endpoints)
    BY DEF GoodRows
  <2>2. Kept(calls, EpEdits, "ready", <<>>, Removing(calls), db.endpoints)
    BY <1>1, <2>1, LoadingFirst
  <2> QED
    BY <1>2, <1>4, <1>5, <2>2 DEF EpKept
<1> QED
  BY <1>2, <1>3, <1>7, <1>8, Starts DEF EndpointsInv

LEMMA SettingsStarts ==
  ASSUME Init, page = "settings"
  PROVE  SettingsInv
<1> DEFINE r == FetchSettings
           s == FetchAlertRules
<1>1. ui = SettingsUI /\ db \in SettingsDB /\ calls = <<r, s>>
  BY DEF Init, SettingsMounted
<1>2. /\ DOMAIN ui = {"view", "cfg", "on", "rule", "port", "orig", "core"}
      /\ ui.cfg = NULL /\ ui.rule = NULL
  BY <1>1 DEF SettingsUI
<1>3. DOMAIN db = {"cfg", "rule"} /\ IsCfg(db.cfg)
  BY <1>1 DEF SettingsDB, IsCfg
<1>4. Whole(r) /\ r.op = "settings" /\ ~r.ok /\ Whole(s) /\ s.op = "rules" /\ ~s.ok
  BY WholeRequest DEF FetchSettings, FetchAlertRules
<1> HIDE DEF r, s
<1>5. Calls(calls) /\ Len(calls) = 2 /\ ToSet(calls) = {r, s}
  <2>1. Calls(<<r>>) /\ Len(<<r>>) = 1 /\ ToSet(<<r>>) = {r} /\ calls = Append(<<r>>, s)
    BY <1>1, <1>4, FirstCall
  <2>2. Calls(calls) /\ Len(calls) = Len(<<r>>) + 1 /\ ToSet(calls) = ToSet(<<r>>) \cup {s}
    BY <1>4, <2>1, Sends
  <2> QED
    BY <2>1, <2>2
<1>6. Len(calls) <= MaxCalls
  BY <1>5, MaxCallsNat
<1>7. \A c \in ToSet(calls) : SettingsCall(c) /\ c.op \in {"settings", "rules"} /\ ~c.ok
  BY <1>4, <1>5 DEF SettingsCall
<1>8. SettingsKnown
  BY <1>2, <1>7 DEF SettingsKnown, SettingsEdits, Has
<1> QED
  BY <1>2, <1>3, <1>5, <1>6, <1>7, <1>8, Starts DEF SettingsInv

LEMMA AdminsStarts ==
  ASSUME Init, page = "admins"
  PROVE  AdminsInv
<1> DEFINE r == FetchAdmins
<1>1. ui = AdminUI /\ db \in AdminDB /\ calls = <<r>>
  BY DEF Init
<1>2. /\ DOMAIN ui = {"view", "rows", "modal", "grant"} /\ IsRows(ui.rows)
      /\ ui.modal = NULL /\ ui.grant = NULL
  BY <1>1 DEF AdminUI, IsRows
<1>3. IsTable(db.admins)
  <2>1. PICK X \in {{Me}, Items} : db = [admins |-> [x \in X |-> "operator"]]
    BY <1>1 DEF AdminDB
  <2>2. db.admins = [x \in X |-> "operator"]
    BY <2>1
  <2> QED
    BY <2>2 DEF IsTable
<1>4. Whole(r) /\ r.op = "list" /\ r.arg = Everything /\ r.pc = "sent" /\ ~r.ok
  BY WholeRequest DEF FetchAdmins
<1> HIDE DEF r
<1>5. Calls(calls) /\ Len(calls) = 1 /\ ToSet(calls) = {r} /\ \A ops : Single(calls, ops)
  BY <1>1, <1>4, FirstCall
<1>6. Has(calls, {"list"}) /\ ~Has(calls, {"users"}) /\ Len(calls) <= MaxCalls
  BY <1>4, <1>5, MaxCallsNat DEF Has
<1>7. \A c \in ToSet(calls) : AdminCall(c) /\ c.op = "list" /\ c.pc = "sent" /\ ~c.ok
  BY <1>4, <1>5 DEF AdminCall
<1>8. AdminsKnown(calls, ui.rows, db.admins)
  BY <1>5, <1>6, <1>7 DEF AdminsKnown
<1> QED
  BY <1>2, <1>3, <1>5, <1>6, <1>7, <1>8, Starts DEF AdminsInv, AdminDialogs

LEMMA PoliciesStarts ==
  ASSUME Init, page = "policies"
  PROVE  PoliciesInv
<1> DEFINE r == Request("list", NULL)
<1>1. ui = PoliciesUI /\ db = PoliciesDB /\ calls = <<r>>
  <2>1. FetchPolicies(<<>>) = <<r>>
    BY DEF FetchPolicies
  <2> QED
    BY <2>1 DEF Init
<1>2. /\ DOMAIN ui = {"rows", "order", "enabled", "editing", "drawer", "confirm", "deleting"}
      /\ ui.rows = 1..2 /\ ui.order = <<1, 2>> /\ ui.editing = NULL
  BY <1>1 DEF PoliciesUI, MockIds
<1>3. /\ DOMAIN db = {"policies", "last"} /\ db.last = 4
      /\ db.policies = [id \in 3..4 |-> [on |-> TRUE, priority |-> 5 - id]]
  BY <1>1 DEF PoliciesDB
<1>4. IsOrder(ui.order, db.last) /\ ui.rows = ToSet(ui.order)
  <2>1. Len(<<1, 2>>) = 2 /\ <<1, 2>> \in Seq(Nat) /\ DOMAIN <<1, 2>> = 1..2
    OBVIOUS
  <2>2. <<1, 2>>[1] = 1 /\ <<1, 2>>[2] = 2
    OBVIOUS
  <2>3. ToSet(<<1, 2>>) = 1..2
    BY <2>1, <2>2 DEF ToSet
  <2>4. \A i, j \in 1..2 : <<1, 2>>[i] = <<1, 2>>[j] => i = j
    OBVIOUS
  <2> QED
    BY <1>2, <1>3, <2>1, <2>3, <2>4 DEF IsOrder
<1>5. PolicyTable(db.policies, db.last)
  <2>1. \A id \in DOMAIN db.policies :
          id \in 3..4 /\ db.policies[id] = [on |-> TRUE, priority |-> 5 - id]
    BY <1>3
  <2>2. \A id \in DOMAIN db.policies :
          DOMAIN db.policies[id] = {"on", "priority"} /\ db.policies[id].on \in BOOLEAN
    <3>1. \A n : LET new == [on |-> TRUE, priority |-> n] IN
                 DOMAIN new = {"on", "priority"} /\ new.on = TRUE
      OBVIOUS
    <3> QED
      BY <2>1, <3>1, Zenon
  <2>3. \A id \in DOMAIN db.policies : id \in Nat /\ id <= db.last
    BY <1>3, <2>1
  <2>4. db.last \in Nat
    BY <1>3
  <2> QED
    BY <2>2, <2>3, <2>4, Zenon DEF PolicyTable
<1>6. Whole(r) /\ r.op = "list" /\ r.pc = "sent" /\ ~r.ok
  BY WholeRequest
<1> HIDE DEF r
<1>7. Calls(calls) /\ Len(calls) = 1 /\ ToSet(calls) = {r} /\ calls # <<>>
  BY <1>1, <1>6, FirstCall
<1>8. Len(calls) <= MaxCalls /\ PolicyCall(r, db.last)
  BY <1>6, <1>7, MaxCallsNat DEF PolicyCall
<1>9. NoneMissed(calls, ui.rows, ui.editing, Ids)
  <2>1. NULL \notin Ids
    BY <1>3, NullAssumption DEF Ids
  <2> QED
    BY <1>2, <1>6, <1>7, <2>1 DEF NoneMissed
<1>10. PoliciesKnown(calls, ui.order, ui.enabled, db.policies)
  BY <1>6, <1>7 DEF PoliciesKnown, Asked
<1> QED
  BY <1>2, <1>3, <1>4, <1>5, <1>7, <1>8, <1>9, <1>10, Starts DEF PoliciesInv

-----------------------------------------------------------------------------
(* The console. *)

\* One page is mounted, and its invariant holds.
IInv ==
  \/ SessionsInv
  \/ UsersInv
  \/ PoliciesInv
  \/ NasInv
  \/ EndpointsInv
  \/ AuthLogsInv
  \/ AuditInv
  \/ DashboardInv
  \/ ReportsInv
  \/ SettingsInv
  \/ AdminsInv

LEMMA Initially == Init => IInv
<1> SUFFICES ASSUME Init
             PROVE  IInv
  OBVIOUS
<1>1. page \in Pages
  BY DEF Init
<1> QED
  BY <1>1, SessionsStarts, UsersStarts, PoliciesStarts, NasStarts, EndpointsStarts, AuthLogsStarts,
     AuditStarts, DashboardStarts, ReportsStarts, SettingsStarts, AdminsStarts DEF Pages, IInv

LEMMA Inductive == IInv /\ [Next]_vars => IInv'
<1> SUFFICES ASSUME IInv, [Next]_vars
             PROVE  IInv'
  OBVIOUS
<1>1. CASE SessionsInv
  BY <1>1, SessionsSteps DEF IInv
<1>2. CASE UsersInv
  BY <1>2, UsersSteps DEF IInv
<1>3. CASE PoliciesInv
  BY <1>3, PoliciesSteps DEF IInv
<1>4. CASE NasInv
  BY <1>4, NasSteps DEF IInv
<1>5. CASE EndpointsInv
  BY <1>5, EndpointsSteps DEF IInv
<1>6. CASE AuthLogsInv
  BY <1>6, AuthLogsSteps DEF IInv
<1>7. CASE AuditInv
  BY <1>7, AuditSteps DEF IInv
<1>8. CASE DashboardInv
  BY <1>8, DashboardSteps DEF IInv
<1>9. CASE ReportsInv
  BY <1>9, ReportsSteps DEF IInv
<1>10. CASE SettingsInv
  BY <1>10, SettingsSteps DEF IInv
<1>11. CASE AdminsInv
  BY <1>11, AdminsSteps DEF IInv
<1> QED
  BY <1>1, <1>2, <1>3, <1>4, <1>5, <1>6, <1>7, <1>8, <1>9, <1>10, <1>11 DEF IInv

\* In every behaviour of the console, the mounted page's invariant holds.
THEOREM Invariance == Spec => []IInv
  BY Initially, Inductive, PTL DEF Spec

LEMMA Typed ==
  ASSUME page \in Pages, Frame, Calls(calls), Len(calls) <= MaxCalls + 1, Single(calls, {"load"})
  PROVE  TypeOK
<1> DEFINE S == {i \in DOMAIN calls : calls[i].op = "load"}
<1>1. Cardinality(S) <= 1
  <2>1. CASE S = {}
    BY <2>1, FS_EmptySet
  <2>2. ASSUME NEW i \in S
        PROVE  Cardinality(S) <= 1
    <3>1. S = {i}
      BY <2>2 DEF Single
    <3>2. Cardinality({i}) = 1
      BY FS_Singleton
    <3> HIDE DEF S
    <3> QED
      BY <3>1, <3>2
  <2> QED
    BY <2>1, <2>2
<1>2. \A i \in DOMAIN calls : calls[i].pc \in {"sent", "answered"} /\ calls[i].ok \in BOOLEAN
  BY SentCalls DEF Calls, Whole
<1> QED
  BY <1>1, <1>2 DEF TypeOK, Frame

LEMMA Types == IInv => TypeOK
<1> SUFFICES ASSUME IInv
             PROVE  page \in Pages /\ Frame /\ Calls(calls) /\ Len(calls) <= MaxCalls + 1
                    /\ Single(calls, {"load"})
  BY Typed
<1>1. ASSUME NEW view, NEW by, NEW applied, NEW aside, Listed(calls, view, by, applied, aside)
      PROVE  Calls(calls) /\ Len(calls) <= MaxCalls + 1 /\ Single(calls, {"load"})
  <2>1. Calls(calls) /\ Single(calls, {"load"})
        /\ Len(calls) <= MaxCalls + (IF view = "loading" THEN 1 ELSE 0)
    BY <1>1 DEF Listed
  <2>2. Len(calls) \in Nat
    BY <2>1 DEF Calls
  <2> QED
    BY <2>1, <2>2, MaxCallsNat
<1>2. ASSUME Calls(calls), Len(calls) <= MaxCalls
      PROVE  Len(calls) <= MaxCalls + 1
  <2>1. Len(calls) \in Nat
    BY <1>2 DEF Calls
  <2> QED
    BY <1>2, <2>1, MaxCallsNat
<1>3. ASSUME \A c \in ToSet(calls) : c.op # "load"
      PROVE  Single(calls, {"load"})
  BY <1>3 DEF Single, ToSet
<1>4. CASE SessionsInv \/ UsersInv \/ NasInv \/ AuthLogsInv
  BY <1>1, <1>4 DEF SessionsInv, UsersInv, NasInv, AuthLogsInv, Pages
<1>5. CASE AuditInv
  <2>1. /\ page = "audit" /\ Frame /\ Calls(calls) /\ Len(calls) <= MaxCalls
        /\ \A c \in ToSet(calls) : c.op # "load"
    BY <1>5 DEF AuditInv, Recent
  <2> QED
    BY <1>2, <1>3, <2>1 DEF Pages
<1>6. CASE EndpointsInv
  BY <1>2, <1>6 DEF EndpointsInv, Recent, Pages
<1>7. CASE DashboardInv \/ ReportsInv
  BY <1>2, <1>7 DEF DashboardInv, ReportsInv, Periods, Recent, Pages
<1>8. CASE SettingsInv
  BY <1>2, <1>3, <1>8 DEF SettingsInv, SettingsCall, Pages
<1>9. CASE AdminsInv
  BY <1>2, <1>3, <1>9 DEF AdminsInv, AdminCall, Pages
<1>10. CASE PoliciesInv
  BY <1>2, <1>3, <1>10 DEF PoliciesInv, PolicyCall, Pages
<1> QED
  BY <1>4, <1>5, <1>6, <1>7, <1>8, <1>9, <1>10 DEF IInv

\* The effect that loads a page has at most one call open, and with the room that the
\* clicks leave no answer makes more calls than its successors have place for: setView and
\* the effects' cleanups on every page.
THEOREM TypeCorrect == Spec => []TypeOK
  BY Invariance, Types, PTL

LEMMA OpenIsHas == \A ops : Open(ops) <=> Has(calls, ops)
  BY DEF Open, Has, ToSet

LEMMA ShownAsChosen == IInv => FilterHolds
<1> SUFFICES ASSUME IInv
             PROVE  FilterHolds
  OBVIOUS
<1>1. ASSUME ~Open(ReadsOpen)
      PROVE  ~Has(calls, {"list"}) /\ ~Has(calls, {"load"}) /\ ~Has(calls, {"list", "load"})
             /\ ~Has(calls, EpReads)
  BY <1>1, OpenIsHas DEF Has, ReadsOpen, EpReads
<1>2. ASSUME page \in Filtered, ui.view = "ready", ~Open(ReadsOpen), ~parted
      PROVE  ui.rows.by = ui.applied
  <2>1. CASE SessionsInv \/ UsersInv \/ NasInv \/ AuthLogsInv
    <3>1. Listed(calls, ui.view, ui.rows.by, ui.applied, parted)
      BY <2>1 DEF SessionsInv, UsersInv, NasInv, AuthLogsInv
    <3> QED
      BY <1>1, <1>2, <3>1 DEF Listed
  <2>2. CASE AuditInv
    <3>1. Recent(calls, {"list"}, ui.view, ui.rows.by, ui.applied, parted)
      BY <2>2 DEF AuditInv
    <3> QED
      BY <1>1, <1>2, <3>1 DEF Recent
  <2>3. CASE EndpointsInv
    <3>1. Recent(calls, EpReads, "ready", ui.rows.by, ui.applied, parted)
      BY <2>3 DEF EndpointsInv
    <3> QED
      BY <1>1, <1>2, <3>1 DEF Recent
  <2>4. CASE DashboardInv \/ ReportsInv
    <3>1. Recent(calls, {"load"}, ui.view, ui.rows.by, ui.applied, parted)
      BY <2>4 DEF DashboardInv, ReportsInv, Periods
    <3> QED
      BY <1>1, <1>2, <3>1 DEF Recent
  <2>5. CASE SettingsInv \/ AdminsInv \/ PoliciesInv
    BY <1>2, <2>5 DEF SettingsInv, AdminsInv, PoliciesInv, Filtered
  <2> QED
    BY <2>1, <2>2, <2>3, <2>4, <2>5 DEF IInv
<1>3. DrawersMatch
  <2>1. CASE UsersInv
    BY <2>1 DEF UsersInv, DrawersMatch
  <2>2. CASE NasInv
    BY <2>2, OpenIsHas DEF NasInv, DrawersMatch
  <2>3. CASE page \notin {"users", "nas"}
    BY <2>3 DEF DrawersMatch
  <2> QED
    BY <2>1, <2>2, <2>3 DEF IInv, SessionsInv, PoliciesInv, EndpointsInv, AuthLogsInv, AuditInv,
       DashboardInv, ReportsInv, Periods, SettingsInv, AdminsInv
<1> QED
  BY <1>2, <1>3 DEF FilterHolds

\* When nothing is being read the rows answer the filter that is shown, as long as nothing
\* has parted them: a listing answered before an older one, a reload or tick for every row, a
\* timer, a clear button or a failed reading that leaves other rows (FilterHolds lists them).
\* What an effect's cleanup has dropped never shows, and in any order of the answers a drawer
\* shows nothing of another account or device: applyFilters, resetFilters, the effects on
\* view, period and drawer.
THEOREM FilterCorrect == Spec => []FilterHolds
  BY Invariance, ShownAsChosen, PTL

LEMMA NoCalls ==
  ASSUME calls = <<>>
  PROVE  ToSet(calls) = {} /\ \A ops : ~Has(calls, ops) /\ ~Acted(calls, ops)
  BY NoneOpen DEF Has, Acted

LEMMA ShownAsServed == IInv => EditorAgrees
<1> SUFFICES ASSUME IInv
             PROVE  EditorAgrees
  OBVIOUS
<1>1. ASSUME UsersInv, calls = <<>>, ~marred, ui.view = "ready"
      PROVE  \A x \in Shown : ui.rows.of[x] = db.users[x]
  <2>1. Kept(calls, UserEdits, ui.view, ui.rows.of, {}, db.users)
    BY <1>1 DEF UsersInv
  <2> QED
    BY <1>1, <2>1, NoCalls DEF Kept, GoodRows, Shown
<1>2. ASSUME PoliciesInv, calls = <<>>, ~marred
      PROVE  PoliciesAgree
  <2>1. Agrees(ui.order, ui.enabled, db.policies)
    BY <1>2 DEF PoliciesInv, PoliciesKnown
  <2> QED
    BY <2>1 DEF Agrees, ByPriority, OnAs, PoliciesAgree, InOrder, Ids
<1>3. ASSUME NasInv, calls = <<>>, ~marred
      PROVE  NasAgree
  <2>1. /\ Kept(calls, NasEdits, ui.view, ui.rows.of, {}, NasRows)
        /\ NasSecrets(calls, ui.secrets, db.nas)
        /\ \A x \in ui.visible : ui.secrets[x] # NULL
    BY <1>3 DEF NasInv
  <2>2. ui.view = "ready" => \A x \in Shown : x \in DOMAIN db.nas
    BY <1>3, <2>1, NoCalls DEF Kept, GoodRows, Shown, NasRows
  <2>3. \A x \in ui.visible \cap DOMAIN db.nas : ui.secrets[x] = db.nas[x]
    BY <1>3, <2>1, NoCalls DEF NasSecrets
  <2> QED
    BY <2>2, <2>3 DEF NasAgree
<1>4. ASSUME EndpointsInv, calls = <<>>, ~marred
      PROVE  EndpointsAgree
  <2>1. Kept(calls, EpEdits, "ready", ui.rows.of, Removing(calls), db.endpoints)
    BY <1>4 DEF EndpointsInv, EpKept
  <2>2. Removing(calls) = {}
    BY <1>4, NoCalls DEF Removing
  <2> QED
    BY <1>4, <2>1, <2>2, NoCalls DEF Kept, GoodRows, Shown, EndpointsAgree
<1>5. ASSUME DashboardInv, calls = <<>>, ~marred
      PROVE  AlertsAgree
  BY <1>5, NoCalls DEF DashboardInv, AlertsAgree, ReadInPage
<1>6. ASSUME SettingsInv, calls = <<>>, ~marred
      PROVE  SettingsAgree
  BY <1>6, NoCalls DEF SettingsInv, SettingsKnown, SettingsAgree
<1>7. ASSUME AdminsInv, calls = <<>>, ~marred
      PROVE  AdminsAgree
  BY <1>7, NoCalls DEF AdminsInv, AdminsKnown, AdminsAgree
<1>8. CrashNeedsStaleEdit
  <2> SUFFICES ASSUME PoliciesInv, Throws, ~parted
               PROVE  ui.editing \notin Ids \cup {NULL}
    BY DEF CrashNeedsStaleEdit, IInv, SessionsInv, UsersInv, NasInv, EndpointsInv, AuthLogsInv,
           AuditInv, DashboardInv, ReportsInv, Periods, SettingsInv, AdminsInv
  <2>1. ui.rows = ToSet(ui.order) /\ (ui.editing \in Ids => ui.editing \in ui.rows)
    BY DEF PoliciesInv, NoneMissed
  <2> QED
    BY <2>1 DEF Throws
<1>9. /\ page = "users" => UsersInv
      /\ page = "policies" => PoliciesInv
      /\ page = "nas" => NasInv
      /\ page = "endpoints" => EndpointsInv
      /\ page = "dashboard" => DashboardInv
      /\ page = "settings" => SettingsInv
      /\ page = "admins" => AdminsInv
  <2>1. /\ SessionsInv => page = "sessions"
        /\ UsersInv => page = "users"
        /\ PoliciesInv => page = "policies"
        /\ NasInv => page = "nas"
        /\ EndpointsInv => page = "endpoints"
        /\ AuthLogsInv => page = "authlogs"
        /\ AuditInv => page = "audit"
        /\ DashboardInv => page = "dashboard"
        /\ ReportsInv => page = "reports"
        /\ SettingsInv => page = "settings"
        /\ AdminsInv => page = "admins"
    BY DEF SessionsInv, UsersInv, PoliciesInv, NasInv, EndpointsInv, AuthLogsInv, AuditInv,
           DashboardInv, ReportsInv, SettingsInv, AdminsInv
  <2> QED
    BY <2>1 DEF IInv
<1> QED
  BY <1>1, <1>2, <1>3, <1>4, <1>5, <1>6, <1>7, <1>8, <1>9 DEF EditorAgrees

\* When no call is open, what a page shows of the service is what the service has, after any
\* changes that were made one at a time, were taken or refused, or were lost before they
\* arrived.  Excused (marred) are lost answers and lost listings, changes sent while calls were
\* open, crossing listings, changes made elsewhere, fetched secrets and alerts that could not
\* be marked as read (EditorAgrees lists them).  Of the settings, what the next save sends is
\* the service's even after a refusal, which the page does not undo.  And the policies' page
\* fails to render only because the policy last edited is gone, or after crossing listings:
\* the answers to every edit, the reloads after them and the rollbacks.
THEOREM EditorCorrect == Spec => []EditorAgrees
  BY Invariance, ShownAsServed, PTL

-----------------------------------------------------------------------------
(* What a page waits for.                                                   *)

LEMMA HasSent ==
  ASSUME NEW cs, Calls(cs), NEW r, Whole(r)
  PROVE  \A ops : r.op \in ops \/ Has(cs, ops) => Has(Append(cs, r), ops)
<1>1. ToSet(Append(cs, r)) = ToSet(cs) \cup {r}
  BY Sends
<1> QED
  BY <1>1 DEF Has

LEMMA HasAsked ==
  ASSUME NEW cs, Calls(cs), NEW op, NEW arg
  PROVE  \A ops : op \in ops \/ Has(cs, ops) => Has(Append(cs, Request(op, arg)), ops)
<1> DEFINE r == Request(op, arg)
<1>1. Whole(r) /\ r.op = op
  BY WholeRequest
<1> HIDE DEF r
<1>2. \A ops : r.op \in ops \/ Has(cs, ops) => Has(Append(cs, r), ops)
  BY <1>1, HasSent
<1> QED
  BY <1>1, <1>2 DEF r

LEMMA HasEnded ==
  ASSUME NEW cs, Calls(cs), NEW i \in DOMAIN cs
  PROVE  Calls(RemoveAt(cs, i)) /\ \A ops : Has(cs, ops) /\ cs[i].op \notin ops => Has(RemoveAt(cs, i), ops)
<1>1. Calls(RemoveAt(cs, i)) /\ ToSet(cs) \subseteq ToSet(RemoveAt(cs, i)) \cup {cs[i]}
  BY Ends
<1> QED
  BY <1>1 DEF Has

\* A call that is not the last of its kind can end.
LEMMA HasLater ==
  ASSUME NEW cs, Calls(cs), NEW i \in DOMAIN cs, NEW j \in DOMAIN cs, j # i, NEW ops, cs[j].op \in ops
  PROVE  Has(RemoveAt(cs, i), ops)
<1> DEFINE d == RemoveAt(cs, i)
           k == IF j < i THEN j ELSE j - 1
<1>1. cs \in Seq(ToSet(cs)) /\ DOMAIN cs = 1..Len(cs) /\ Len(cs) \in Nat
  BY DEF Calls
<1>2. /\ d \in Seq(ToSet(cs)) /\ Len(d) = Len(cs) - 1
      /\ \A l \in 1..(Len(cs) - 1) : d[l] = cs[IF l < i THEN l ELSE l + 1]
  BY <1>1, Removed
<1> HIDE DEF d
<1>3. i \in 1..Len(cs) /\ j \in 1..Len(cs)
  BY <1>1
<1>4. k \in 1..(Len(cs) - 1) /\ (IF k < i THEN k ELSE k + 1) = j
  BY <1>1, <1>3
<1> HIDE DEF k
<1>5. k \in DOMAIN d /\ d[k] = cs[j]
  BY <1>1, <1>2, <1>4
<1> QED
  BY <1>5 DEF Has, ToSet, d

LEMMA HasCancelled ==
  ASSUME NEW cs, Calls(cs), NEW op, Single(cs, {op})
  PROVE  Calls(Cancel(cs, op)) /\ \A ops : Has(cs, ops) /\ op \notin ops => Has(Cancel(cs, op), ops)
<1>1. Calls(Cancel(cs, op)) /\ ToSet(Cancel(cs, op)) = {c \in ToSet(cs) : c.op # op}
  BY Cancels
<1> QED
  BY <1>1 DEF Has

LEMMA HasViewed ==
  ASSUME NEW cs, Calls(cs), Single(cs, {"load"}), NEW to
  PROVE  \A ops : Has(cs, ops) /\ "load" \notin ops => Has(SetView(cs, to), ops)
<1> DEFINE d == Cancel(cs, "load")
           r == Request("load", Everything)
<1>1. Calls(d) /\ \A ops : Has(cs, ops) /\ "load" \notin ops => Has(d, ops)
  BY HasCancelled
<1>2. Whole(r)
  BY WholeRequest
<1>3. SetView(cs, to) \in {cs, d, Append(d, r)}
  BY DEF SetView
<1> HIDE DEF d, r
<1>4. \A ops : Has(d, ops) => Has(Append(d, r), ops)
  BY <1>1, <1>2, HasSent
<1> QED
  BY <1>1, <1>3, <1>4

\* A listing is asked for, and the view is changed.
LEMMA HasRefetched ==
  ASSUME NEW cs, Calls(cs), Single(cs, {"load"}), NEW f, NEW to
  PROVE  \A ops : Has(cs, ops) /\ "load" \notin ops => Has(SetView(Append(cs, Request("list", f)), to), ops)
<1> DEFINE r == Request("list", f)
           d == Append(cs, r)
<1>1. Whole(r) /\ r.op = "list"
  BY WholeRequest
<1> HIDE DEF r
<1>2. /\ Calls(d)
      /\ \A ops : Single(cs, ops) /\ (r.op \notin ops \/ ~Has(cs, ops)) => Single(d, ops)
  BY <1>1, Sends
<1>3. Single(d, {"load"})
  BY <1>1, <1>2
<1>4. \A ops : Has(cs, ops) => Has(d, ops)
  BY <1>1, HasSent
<1> HIDE DEF d
<1>5. \A ops : Has(d, ops) /\ "load" \notin ops => Has(SetView(d, to), ops)
  BY <1>2, <1>3, HasViewed
<1> QED
  BY <1>4, <1>5 DEF d, r

\* The service and the network leave what is open, and the page.
LEMMA HasServed ==
  ASSUME Calls(calls), NEW i \in DOMAIN calls,
         Lose(i) \/ \E ok, answer, after : Answered(i, ok, answer, after)
  PROVE  ui' = ui /\ \A ops : Has(calls, ops) => Has(calls', ops)
<1>1. PICK ok, answer : /\ ui' = ui
                        /\ calls' = [calls EXCEPT ![i] = [@ EXCEPT !.pc = "answered", !.ok = ok, !.answer = answer]]
  BY DEF Lose, Answered
<1>2. calls[i] \in ToSet(calls) /\ DOMAIN calls[i] = {"op", "arg", "pc", "ok", "answer"}
  BY SentCalls DEF Calls, Whole
<1> DEFINE a == [calls[i] EXCEPT !.pc = "answered", !.ok = ok, !.answer = answer]
<1>3. a.op = calls[i].op
  BY <1>2
<1>4. calls' = [calls EXCEPT ![i] = a]
  BY <1>1
<1> HIDE DEF a
<1>5. DOMAIN calls' = DOMAIN calls /\ \A j \in DOMAIN calls : calls'[j].op = calls[j].op
  <2>1. DOMAIN calls' = DOMAIN calls /\ \A j \in DOMAIN calls : calls'[j] = IF j = i THEN a ELSE calls[j]
    BY <1>4
  <2> QED
    BY <1>3, <2>1
<1> QED
  BY <1>1, <1>5 DEF Has, ToSet

LEMMA AuditAwaits ==
  ASSUME AuditInv, AuditInv', [Next]_vars, ui.view = "loading" => Has(calls, {"list"})
  PROVE  ui'.view = "loading" => Has(calls', {"list"})
<1>0. /\ page = "audit" /\ Calls(calls) /\ Calls(calls') /\ \A c \in ToSet(calls') : c.op = "list"
      /\ DOMAIN ui = {"view", "rows", "applied"}
  BY DEF AuditInv, Recent
<1>1. CASE UNCHANGED vars
  BY <1>1 DEF vars
<1>2. CASE AuditClick
  <2>1. PICK f : calls' = Append(calls, LoadAudit(f))
    BY <1>2 DEF AuditClick, ChooseAction, RetryAudit
  <2> DEFINE r == LoadAudit(f)
  <2>2. Whole(r) /\ r.op = "list"
    BY WholeRequest DEF LoadAudit
  <2>3. calls' = Append(calls, r)
    BY <2>1
  <2> HIDE DEF r
  <2> QED
    BY <1>0, <2>2, <2>3, HasSent
<1>3. ASSUME NEW i \in DOMAIN calls, ServeLogs(i) \/ Lose(i)
      PROVE  ui' = ui /\ \A ops : Has(calls, ops) => Has(calls', ops)
  BY <1>0, <1>3, HasServed DEF ServeLogs
<1>4. ASSUME NEW i \in DOMAIN calls, ReceiveAudit(i)
      PROVE  ui'.view # "loading"
  BY <1>0, <1>4 DEF ReceiveAudit
<1> QED
  BY <1>0, <1>1, <1>2, <1>3, <1>4 DEF Next, User, Serve, Receive, Timer, Elsewhere

LEMMA ReportsAwaits ==
  ASSUME ReportsInv, [Next]_vars, ui.exporting => Has(calls, {"export"})
  PROVE  ui'.exporting => Has(calls', {"export"})
<1>0. /\ page = "reports" /\ Calls(calls) /\ Single(calls, {"load"})
      /\ DOMAIN ui = {"view", "rows", "applied", "exporting"}
  BY DEF ReportsInv, Periods, Recent
<1>1. CASE UNCHANGED vars
  BY <1>1 DEF vars
<1>2. CASE ChoosePeriod
  <2>1. PICK p : ui' = [ui EXCEPT !.applied = p] /\ calls' = LoadPeriod(calls, p)
    BY <1>2 DEF ChoosePeriod
  <2>2. ui'.exporting = ui.exporting
    BY <1>0, <2>1
  <2> DEFINE d == Cancel(calls, "load")
             r == Request("load", p)
  <2>3. Calls(d) /\ (Has(calls, {"export"}) => Has(d, {"export"}))
    BY <1>0, HasCancelled
  <2>4. Whole(r) /\ calls' = Append(d, r)
    BY <2>1, WholeRequest DEF LoadPeriod
  <2> HIDE DEF d, r
  <2> QED
    BY <2>2, <2>3, <2>4, HasSent
<1>3. CASE ExportReport
  <2> DEFINE r == Request("export", ui.applied)
  <2>1. Whole(r) /\ r.op = "export" /\ calls' = Append(calls, r)
    BY <1>3, WholeRequest DEF ExportReport
  <2> HIDE DEF r
  <2> QED
    BY <1>0, <2>1, HasSent
<1>4. ASSUME NEW i \in DOMAIN calls, ServeOverview(i) \/ Lose(i)
      PROVE  ui' = ui /\ \A ops : Has(calls, ops) => Has(calls', ops)
  BY <1>0, <1>4, HasServed DEF ServeOverview, Refuse
<1>5. ASSUME NEW i \in DOMAIN calls, ReportsReceive(i)
      PROVE  ui'.exporting => Has(calls', {"export"})
  <2>1. CASE ReceiveExport(i)
    BY <1>0, <2>1 DEF ReceiveExport
  <2>2. CASE ReceivePeriod(i)
    <3>1. calls[i].op = "load" /\ calls' = RemoveAt(calls, i) /\ ui'.exporting = ui.exporting
      BY <1>0, <2>2 DEF ReceivePeriod
    <3> QED
      BY <1>0, <3>1, HasEnded
  <2> QED
    BY <1>5, <2>1, <2>2 DEF ReportsReceive
<1> QED
  BY <1>0, <1>1, <1>2, <1>3, <1>4, <1>5 DEF Next, User, Serve, Receive, Timer, Elsewhere

\* A form that is busy waits for its own call; the last one, if an earlier form sent one.
LEMMA AdminsAwaits ==
  ASSUME AdminsInv, [Next]_vars, ui.grant # NULL /\ ui.grant.busy => Has(calls, {"grant"})
  PROVE  ui'.grant # NULL /\ ui'.grant.busy => Has(calls', {"grant"})
<1>0. /\ page = "admins" /\ Calls(calls) /\ Single(calls, {"users"})
      /\ DOMAIN ui = {"view", "rows", "modal", "grant"} /\ AdminDialogs
      /\ Has(calls, {"users"}) => ui.grant # NULL
  BY DEF AdminsInv
<1>1. CASE UNCHANGED vars
  BY <1>1 DEF vars
<1>2. CASE ChangeRole \/ RevokeAdmin \/ CancelAdmin
  BY <1>0, <1>2 DEF ChangeRole, RevokeAdmin, CancelAdmin
<1>3. CASE ConfirmAdmin
  <2>1. /\ calls' = Append(calls, ui.modal) /\ ui'.grant = ui.grant /\ Whole(ui.modal)
    BY <1>0, <1>3 DEF ConfirmAdmin, AdminDialogs
  <2> QED
    BY <1>0, <2>1, HasSent
<1>4. CASE OpenGrant
  <2>1. ui'.grant = [users |-> {}, busy |-> FALSE]
    BY <1>0, <1>4 DEF OpenGrant
  <2>2. ~ui'.grant.busy
    BY <2>1
  <2> QED
    BY <2>2
<1>5. CASE CloseGrant
  BY <1>0, <1>5 DEF CloseGrant
<1>6. CASE Grant
  <2>1. PICK x, role : calls' = Append(calls, Request("grant", [id |-> x, role |-> role]))
    BY <1>6 DEF Grant
  <2> DEFINE r == Request("grant", [id |-> x, role |-> role])
  <2>2. Whole(r) /\ r.op = "grant"
    BY WholeRequest
  <2>3. calls' = Append(calls, r)
    BY <2>1
  <2> HIDE DEF r
  <2> QED
    BY <1>0, <2>2, <2>3, HasSent
<1>7. ASSUME NEW i \in DOMAIN calls, ServeAdmins(i) \/ Lose(i)
      PROVE  ui' = ui /\ \A ops : Has(calls, ops) => Has(calls', ops)
  BY <1>0, <1>7, HasServed DEF ServeAdmins, Refuse
<1>8. ASSUME NEW i \in DOMAIN calls, AdminsReceive(i)
      PROVE  ui'.grant # NULL /\ ui'.grant.busy => Has(calls', {"grant"})
  <2>1. CASE ReceiveAdmins(i) \/ ReceiveAdminEdit(i)
    <3>1. calls[i].op \notin {"grant"} /\ calls' = RemoveAt(calls, i) /\ ui'.grant = ui.grant
      BY <1>0, <2>1 DEF ReceiveAdmins, ReceiveAdminEdit
    <3> QED
      BY <1>0, <3>1, HasEnded
  <2>2. CASE ReceiveCandidates(i)
    <3>1. calls[i].op = "users" /\ calls' = RemoveAt(calls, i)
          /\ ui' = IF calls[i].ok THEN [ui EXCEPT !.grant.users = Items] ELSE ui
      BY <2>2 DEF ReceiveCandidates
    <3>2. ui.grant # NULL
      BY <1>0, <3>1, SentCalls DEF Has
    <3>3. ui.grant \in [users : SUBSET Items, busy : BOOLEAN]
      BY <1>0, <3>2 DEF AdminDialogs
    <3>4. ui'.grant.busy = ui.grant.busy
      BY <1>0, <3>1, <3>3
    <3> QED
      BY <1>0, <3>1, <3>2, <3>4, HasEnded
  <2>3. CASE ReceiveGrant(i) /\ calls[i].ok
    BY <1>0, <2>3 DEF ReceiveGrant
  <2>4. CASE ReceiveGrant(i) /\ ~calls[i].ok
    <3>1. /\ calls' = RemoveAt(calls, i)
          /\ ui' = IF ui.grant = NULL \/ Superseded(i) THEN ui ELSE [ui EXCEPT !.grant.busy = FALSE]
      BY <2>4 DEF ReceiveGrant
    <3>2. CASE ui.grant # NULL /\ ~Superseded(i)
      <4>1. ui.grant \in [users : SUBSET Items, busy : BOOLEAN]
        BY <1>0, <3>2 DEF AdminDialogs
      <4>2. ui' = [ui EXCEPT !.grant.busy = FALSE]
        BY <3>1, <3>2
      <4>3. ~ui'.grant.busy
        BY <1>0, <4>1, <4>2
      <4> QED
        BY <4>3
    <3>3. CASE ui.grant # NULL /\ Superseded(i)
      <4>1. PICK j \in (i + 1)..Len(calls) : calls[j].op = "grant"
        BY <3>3 DEF Superseded
      <4>2. DOMAIN calls = 1..Len(calls) /\ Len(calls) \in Nat
        BY <1>0 DEF Calls
      <4>3. j \in DOMAIN calls /\ j # i
        BY <4>1, <4>2
      <4> QED
        BY <1>0, <3>1, <4>1, <4>3, HasLater
    <3> QED
      BY <3>1, <3>2, <3>3
  <2> QED
    BY <1>8, <2>1, <2>2, <2>3, <2>4 DEF AdminsReceive
<1>9. CASE AdminsElsewhere
  BY <1>9 DEF AdminsElsewhere, Change
<1> QED
  BY <1>0, <1>1, <1>2, <1>3, <1>4, <1>5, <1>6, <1>7, <1>8, <1>9
     DEF Next, User, Serve, Receive, Timer, Elsewhere, AdminsClick

LEMMA HasDrawn ==
  ASSUME NEW cs, Calls(cs), Single(cs, {"detail"}), NEW account
  PROVE  /\ Calls(DrawerEffect(cs, account))
         /\ \A ops : Has(cs, ops) /\ "detail" \notin ops => Has(DrawerEffect(cs, account), ops)
<1> DEFINE d == Cancel(cs, "detail")
           r == FetchUserDetail(account)
<1>1. Calls(d) /\ \A ops : Has(cs, ops) /\ "detail" \notin ops => Has(d, ops)
  BY HasCancelled
<1>2. Whole(r)
  BY WholeRequest DEF FetchUserDetail
<1>3. DrawerEffect(cs, account) \in {d, Append(d, r)}
  BY DEF DrawerEffect
<1> HIDE DEF d, r
<1>4. Calls(Append(d, r)) /\ \A ops : Has(d, ops) => Has(Append(d, r), ops)
  BY <1>1, <1>2, HasSent, Sends
<1> QED
  BY <1>1, <1>3, <1>4

LEMMA UsersAwaits ==
  ASSUME UsersInv, [Next]_vars, ui.syncing => Has(calls, {"sync"})
  PROVE  ui'.syncing => Has(calls', {"sync"})
<1>0. /\ page = "users" /\ Calls(calls) /\ Single(calls, {"load"}) /\ Single(calls, {"detail"})
      /\ DOMAIN ui = {"view", "rows", "applied", "policies", "drawer", "detail", "modal", "syncing"}
  BY DEF UsersInv, Listed
<1>1. CASE UNCHANGED vars
  BY <1>1 DEF vars
<1>2. CASE ApplyUserFilters \/ ResetUserFilters \/ RetryUsers
  <2>1. PICK f : calls' = SetView(Append(calls, Request("list", f)), "loading")
    BY <1>2 DEF ApplyUserFilters, ResetUserFilters, RetryUsers, Refetch
  <2>2. ui'.syncing = ui.syncing
    BY <1>0, <1>2 DEF ApplyUserFilters, ResetUserFilters, RetryUsers
  <2>3. Has(calls, {"sync"}) => Has(calls', {"sync"})
    BY <1>0, <2>1, HasRefetched
  <2> QED
    BY <2>2, <2>3
<1>3. CASE OpenUser \/ CloseUser
  <2>1. PICK x : calls' = DrawerEffect(calls, x)
    BY <1>3 DEF OpenUser, CloseUser
  <2>2. ui'.syncing = ui.syncing
    BY <1>0, <1>3 DEF OpenUser, CloseUser
  <2> QED
    BY <1>0, <2>1, <2>2, HasDrawn
<1>4. CASE OpenDialog \/ CancelDialog
  BY <1>0, <1>4 DEF OpenDialog, CancelDialog
<1>5. CASE ConfirmDialog
  <2>1. ui'.syncing = ui.syncing
    BY <1>0, <1>5 DEF ConfirmDialog
  <2>2. calls' = calls \/ \E r : Whole(r) /\ calls' = Append(calls, r)
    <3>1. /\ \A accounts, on : /\ Whole(UpdateUserStatus(accounts, on))
                               /\ Whole([UpdateUserStatus(accounts, on) EXCEPT !.op = "disable"])
          /\ \A accounts, policy : Whole(AssignUserPolicy(accounts, policy))
          /\ Whole(Request("list", Everything))
      BY DEF UpdateUserStatus, AssignUserPolicy, Whole, Request
    <3> QED
      BY <1>5, <3>1 DEF ConfirmDialog, ReloadUsers
  <2>3. ASSUME NEW r, Whole(r), calls' = Append(calls, r)
        PROVE  Has(calls, {"sync"}) => Has(calls', {"sync"})
    BY <1>0, <2>3, HasSent
  <2> QED
    BY <2>1, <2>2, <2>3
<1>6. CASE StartSync
  <2> DEFINE r == Request("sync", NULL)
  <2>1. Whole(r) /\ r.op = "sync" /\ calls' = Append(calls, r)
    BY <1>6, WholeRequest DEF StartSync
  <2> HIDE DEF r
  <2> QED
    BY <1>0, <2>1, HasSent
<1>7. ASSUME NEW i \in DOMAIN calls, ServeUsers(i) \/ Lose(i)
      PROVE  ui' = ui /\ \A ops : Has(calls, ops) => Has(calls', ops)
  BY <1>0, <1>7, HasServed DEF ServeUsers, Refuse
<1>8. ASSUME NEW i \in DOMAIN calls, UsersReceive(i)
      PROVE  ui'.syncing => Has(calls', {"sync"})
  <2> DEFINE d == RemoveAt(calls, i)
             r == Request("list", Everything)
  <2>1. /\ Calls(d) /\ Single(d, {"load"}) /\ Single(d, {"detail"}) /\ Whole(r)
        /\ Has(calls, {"sync"}) /\ calls[i].op \notin {"sync"} => Has(d, {"sync"})
    BY <1>0, Ends, HasEnded, WholeRequest
  <2>2. CASE ReceiveRows(i)
    <3>1. calls[i].op \notin {"sync"} /\ ui'.syncing = ui.syncing /\ \E to : calls' = SetView(d, to)
      BY <1>0, <2>2 DEF ReceiveRows
    <3> HIDE DEF d
    <3> QED
      BY <2>1, <3>1, HasViewed
  <2>3. CASE ReceiveDetail(i) \/ ReceivePolicies(i)
    <3>1. calls[i].op \notin {"sync"} /\ ui'.syncing = ui.syncing /\ calls' = d
      BY <1>0, <2>3 DEF ReceiveDetail, ReceivePolicies
    <3> QED
      BY <2>1, <3>1
  <2>4. CASE ReceiveUserEdit(i)
    <3>1. /\ calls[i].op \notin {"sync"} /\ ui'.syncing = ui.syncing
          /\ calls' \in {d, Append(DrawerEffect(d, NULL), r), Append(d, r)}
      BY <1>0, <2>4 DEF ReceiveUserEdit, ReloadUsers
    <3> HIDE DEF d, r
    <3>2. Calls(DrawerEffect(d, NULL)) /\ (Has(d, {"sync"}) => Has(DrawerEffect(d, NULL), {"sync"}))
      BY <2>1, HasDrawn
    <3>3. /\ Has(d, {"sync"}) => Has(Append(d, r), {"sync"})
          /\ Has(DrawerEffect(d, NULL), {"sync"}) => Has(Append(DrawerEffect(d, NULL), r), {"sync"})
      BY <2>1, <3>2, HasSent
    <3> QED
      BY <2>1, <3>1, <3>2, <3>3
  <2>5. CASE ReceiveSync(i)
    BY <1>0, <2>5 DEF ReceiveSync
  <2> QED
    BY <1>8, <2>2, <2>3, <2>4, <2>5 DEF UsersReceive
<1> QED
  BY <1>0, <1>1, <1>2, <1>3, <1>4, <1>5, <1>6, <1>7, <1>8
     DEF Next, User, Serve, Receive, Timer, Elsewhere, UsersClick

NasForms == {"create", "update"}

NasWaits(modal, cs) ==
  modal # NULL => "busy" \in DOMAIN modal /\ (modal.busy => Has(cs, NasForms))

LEMMA NasAwaits ==
  ASSUME NasInv, [Next]_vars, NasWaits(ui.modal, calls)
  PROVE  NasWaits(ui'.modal, calls')
<1>0. /\ page = "nas" /\ Calls(calls) /\ Single(calls, {"load"}) /\ Single(calls, {"ports"})
      /\ DOMAIN ui = {"view", "rows", "applied", "drawer", "ports", "secrets", "visible", "modal"}
  BY DEF NasInv, Listed
<1>1. CASE UNCHANGED vars
  BY <1>1 DEF vars
\* A step that leaves the dialog, and the calls of the forms.
<1>2. ASSUME ui'.modal = ui.modal, Has(calls, NasForms) => Has(calls', NasForms)
      PROVE  NasWaits(ui'.modal, calls')
  BY <1>2 DEF NasWaits
<1>3. CASE ApplyNasFilters \/ ResetNasFilters \/ NasRetry
  <2>1. PICK f : calls' = SetView(Append(calls, Request("list", f)), "loading")
    BY <1>3 DEF ApplyNasFilters, ResetNasFilters, NasRetry, ReloadNas, Refetch
  <2>2. ui'.modal = ui.modal
    BY <1>0, <1>3 DEF ApplyNasFilters, ResetNasFilters, NasRetry
  <2>3. Has(calls, NasForms) => Has(calls', NasForms)
    BY <1>0, <2>1, HasRefetched DEF NasForms
  <2> QED
    BY <1>2, <2>2, <2>3
<1>4. CASE OpenNas \/ ToggleSecret \/ ClearNasFilters
  <2>1. ui'.modal = ui.modal
    BY <1>0, <1>4 DEF OpenNas, ToggleSecret, ClearNasFilters
  <2>2. calls' = calls \/ \E op, x : calls' = Append(calls, Request(op, x))
    BY <1>4 DEF OpenNas, ToggleSecret, ClearNasFilters
  <2>3. ASSUME NEW op, NEW x, calls' = Append(calls, Request(op, x))
        PROVE  Has(calls, NasForms) => Has(calls', NasForms)
    BY <1>0, <2>3, HasAsked
  <2> QED
    BY <1>2, <2>1, <2>2, <2>3
<1>5. CASE CloseNas
  <2>1. ui'.modal = ui.modal /\ calls' = Cancel(calls, "ports")
    BY <1>0, <1>5 DEF CloseNas
  <2>2. Has(calls, NasForms) => Has(calls', NasForms)
    BY <1>0, <2>1, HasCancelled DEF NasForms
  <2> QED
    BY <1>2, <2>1, <2>2
<1>6. CASE OpenNasDialog \/ CloseNasDialog
  <2>1. ui'.modal = NULL \/ \E op, x : ui'.modal = [op |-> op, arg |-> x, busy |-> FALSE]
    BY <1>0, <1>6 DEF OpenNasDialog, CloseNasDialog, Dialog
  <2>2. ASSUME NEW op, NEW x, ui'.modal = [op |-> op, arg |-> x, busy |-> FALSE]
        PROVE  NasWaits(ui'.modal, calls')
    <3>1. DOMAIN ui'.modal = {"op", "arg", "busy"} /\ ~ui'.modal.busy
      BY <2>2
    <3> QED
      BY <3>1 DEF NasWaits
  <2> QED
    BY <2>1, <2>2 DEF NasWaits
<1>7. CASE SubmitNas
  <2>1. CASE ui.modal.op = "delete"
    BY <1>0, <1>7, <2>1 DEF SubmitNas, NasWaits
  <2>2. CASE ui.modal.op # "delete"
    <3>1. ui'.modal = [ui.modal EXCEPT !.busy = TRUE] /\ DOMAIN ui'.modal = DOMAIN ui.modal /\ ui.modal # NULL
      BY <1>0, <1>7, <2>2 DEF SubmitNas
    <3>2. PICK op \in NasForms : \E x : calls' = Append(calls, Request(op, x))
      BY <1>7, <2>2 DEF SubmitNas, NasForms
    <3>3. Has(calls', NasForms)
      BY <1>0, <3>2, HasAsked
    <3> QED
      BY <3>1, <3>3 DEF NasWaits
  <2> QED
    BY <2>1, <2>2
<1>8. ASSUME NEW i \in DOMAIN calls, ServeNas(i) \/ Lose(i)
      PROVE  NasWaits(ui'.modal, calls')
  <2>1. ui' = ui /\ \A ops : Has(calls, ops) => Has(calls', ops)
    BY <1>0, <1>8, HasServed DEF ServeNas, Refuse
  <2> QED
    BY <1>2, <2>1
<1>9. ASSUME NEW i \in DOMAIN calls, NasReceive(i)
      PROVE  NasWaits(ui'.modal, calls')
  <2> DEFINE d == RemoveAt(calls, i)
  <2>1. /\ Calls(d) /\ Single(d, {"load"})
        /\ Has(calls, NasForms) /\ calls[i].op \notin NasForms => Has(d, NasForms)
    BY <1>0, Ends, HasEnded
  <2>2. CASE ReceiveRows(i)
    <3>1. calls[i].op \notin NasForms /\ ui'.modal = ui.modal /\ \E to : calls' = SetView(d, to)
      BY <1>0, <2>2 DEF ReceiveRows, NasForms
    <3> HIDE DEF d
    <3>2. Has(d, NasForms) => Has(calls', NasForms)
      BY <2>1, <3>1, HasViewed DEF NasForms
    <3> QED
      BY <1>2, <2>1, <3>1, <3>2
  <2>3. CASE ReceivePorts(i) \/ ReceiveSecret(i)
    <3>1. calls[i].op \notin NasForms /\ ui'.modal = ui.modal /\ calls' = d
      BY <1>0, <2>3 DEF ReceivePorts, ReceiveSecret, NasForms
    <3> QED
      BY <1>2, <2>1, <3>1
  <2>4. CASE ReceiveNasEdit(i) /\ calls[i].ok
    <3>1. /\ ui'.modal = IF calls[i].op = "delete" THEN ui.modal ELSE NULL
          /\ calls[i].op \in {"create", "update", "delete"}
          /\ calls' = SetView(Append(d, Request("list", Everything)), "loading")
      BY <1>0, <2>4 DEF ReceiveNasEdit, ReloadNas
    <3> HIDE DEF d
    <3>2. Has(d, NasForms) => Has(calls', NasForms)
      BY <2>1, <3>1, HasRefetched DEF NasForms
    <3>3. CASE calls[i].op = "delete"
      BY <1>2, <2>1, <3>1, <3>2, <3>3 DEF NasForms
    <3> QED
      BY <3>1, <3>3 DEF NasWaits
  <2>5. CASE ReceiveNasEdit(i) /\ ~calls[i].ok
    <3>1. /\ calls' = d /\ calls[i].op \in {"create", "update", "delete"}
          /\ ui' = IF SameForm(i) THEN [ui EXCEPT !.modal.busy = FALSE] ELSE ui
      BY <2>5 DEF ReceiveNasEdit
    <3>2. CASE SameForm(i)
      <4>1. ui'.modal = [ui.modal EXCEPT !.busy = FALSE] /\ ui.modal # NULL
        BY <1>0, <3>1, <3>2 DEF SameForm
      <4>2. "busy" \in DOMAIN ui'.modal /\ ~ui'.modal.busy
        BY <4>1 DEF NasWaits
      <4> QED
        BY <4>2 DEF NasWaits
    <3>3. CASE ~SameForm(i) /\ ui.modal # NULL /\ calls[i].op \in NasForms
      <4>1. PICK j \in (i + 1)..Len(calls) : calls[j].op \in NasForms
        BY <3>3 DEF SameForm, FormCall, NasForms
      <4>2. DOMAIN calls = 1..Len(calls) /\ Len(calls) \in Nat
        BY <1>0 DEF Calls
      <4>3. j \in DOMAIN calls /\ j # i
        BY <4>1, <4>2
      <4>4. Has(calls', NasForms)
        BY <1>0, <3>1, <4>1, <4>3, HasLater
      <4> QED
        BY <1>2, <3>1, <3>3, <4>4
    <3>4. CASE ~SameForm(i) /\ calls[i].op \notin NasForms
      BY <1>2, <2>1, <3>1, <3>4
    <3>5. CASE ~SameForm(i) /\ ui.modal = NULL
      BY <3>1, <3>5 DEF NasWaits
    <3> QED
      BY <3>2, <3>3, <3>4, <3>5
  <2> QED
    BY <1>9, <2>2, <2>3, <2>4, <2>5 DEF NasReceive
<1> QED
  BY <1>0, <1>1, <1>3, <1>4, <1>5, <1>6, <1>7, <1>8, <1>9
     DEF Next, User, Serve, Receive, Timer, Elsewhere, NasClick

\* Every busy flag has the call open that resets it; a table that loads has the effect's call
\* open by the invariants of its page.
Awaited ==
  /\ page = "users" /\ ui.syncing => Has(calls, {"sync"})
  /\ page = "reports" /\ ui.exporting => Has(calls, {"export"})
  /\ page = "admins" /\ ui.grant # NULL /\ ui.grant.busy => Has(calls, {"grant"})
  /\ page = "nas" => NasWaits(ui.modal, calls)
  /\ page = "audit" /\ ui.view = "loading" => Has(calls, {"list"})

LEMMA AwaitedFirst == Init => Awaited
<1> SUFFICES ASSUME Init
             PROVE  Awaited
  OBVIOUS
<1>1. page = "users" => ~ui.syncing
  BY DEF Init, UsersMounted, UsersUI
<1>2. page = "reports" => ~ui.exporting
  BY DEF Init, ReportsUI
<1>3. page = "admins" => ui.grant = NULL
  BY DEF Init, AdminUI
<1>4. page = "nas" => ui.modal = NULL
  BY DEF Init, NasUI
<1>5. page = "audit" => Has(calls, {"list"})
  <2> DEFINE r == LoadAudit(Everything)
  <2>1. Whole(r) /\ r.op = "list" /\ r.pc = "sent" /\ ~r.ok
    BY WholeRequest DEF LoadAudit
  <2>2. page = "audit" => calls = <<r>>
    BY DEF Init
  <2> HIDE DEF r
  <2> QED
    BY <2>1, <2>2, FirstCall DEF Has
<1> QED
  BY <1>1, <1>2, <1>3, <1>4, <1>5 DEF Awaited, NasWaits

LEMMA StillAwaited == IInv /\ Awaited /\ [Next]_vars => Awaited'
<1> SUFFICES ASSUME IInv, Awaited, [Next]_vars
             PROVE  Awaited'
  OBVIOUS
<1>1. CASE UsersInv
  <2>1. page = "users" /\ page' = "users"
    BY <1>1, UsersSteps DEF UsersInv
  <2>2. ui.syncing => Has(calls, {"sync"})
    BY <2>1 DEF Awaited
  <2> QED
    BY <1>1, <2>1, <2>2, UsersAwaits DEF Awaited
<1>2. CASE ReportsInv
  <2>1. page = "reports" /\ page' = "reports"
    BY <1>2, ReportsSteps DEF ReportsInv
  <2>2. ui.exporting => Has(calls, {"export"})
    BY <2>1 DEF Awaited
  <2> QED
    BY <1>2, <2>1, <2>2, ReportsAwaits DEF Awaited
<1>3. CASE AdminsInv
  <2>1. page = "admins" /\ page' = "admins"
    BY <1>3, AdminsSteps DEF AdminsInv
  <2>2. ui.grant # NULL /\ ui.grant.busy => Has(calls, {"grant"})
    BY <2>1 DEF Awaited
  <2> QED
    BY <1>3, <2>1, <2>2, AdminsAwaits DEF Awaited
<1>4. CASE NasInv
  <2>1. page = "nas" /\ page' = "nas"
    BY <1>4, NasSteps DEF NasInv
  <2>2. NasWaits(ui.modal, calls)
    BY <2>1 DEF Awaited
  <2>3. NasWaits(ui'.modal, calls')
    BY <1>4, <2>2, NasAwaits
  <2> QED
    BY <2>1, <2>3 DEF Awaited, NasWaits
<1>5. CASE AuditInv
  <2>1. page = "audit" /\ page' = "audit" /\ AuditInv'
    BY <1>5, AuditSteps DEF AuditInv
  <2>2. ui.view = "loading" => Has(calls, {"list"})
    BY <2>1 DEF Awaited
  <2> QED
    BY <1>5, <2>1, <2>2, AuditAwaits DEF Awaited
<1>6. CASE SessionsInv \/ PoliciesInv \/ EndpointsInv \/ AuthLogsInv \/ DashboardInv \/ SettingsInv
  <2>1. page' \notin {"users", "reports", "admins", "nas", "audit"}
    BY <1>6, SessionsSteps, PoliciesSteps, EndpointsSteps, AuthLogsSteps, DashboardSteps, SettingsSteps
       DEF SessionsInv, PoliciesInv, EndpointsInv, AuthLogsInv, DashboardInv, SettingsInv
  <2> QED
    BY <2>1 DEF Awaited
<1> QED
  BY <1>1, <1>2, <1>3, <1>4, <1>5, <1>6 DEF IInv

LEMMA AwaitedMeans == IInv /\ Awaited => BusyAwaits
<1> SUFFICES ASSUME IInv, Awaited
             PROVE  BusyAwaits
  OBVIOUS
<1>1. page \in {"sessions", "users", "nas", "authlogs"} /\ ui.view = "loading" => Has(calls, {"load"})
  <2>1. CASE SessionsInv \/ UsersInv \/ NasInv \/ AuthLogsInv
    BY <2>1 DEF SessionsInv, UsersInv, NasInv, AuthLogsInv, Listed
  <2>2. CASE page \notin {"sessions", "users", "nas", "authlogs"}
    BY <2>2
  <2> QED
    BY <2>1, <2>2 DEF IInv, PoliciesInv, EndpointsInv, AuditInv, DashboardInv, ReportsInv, Periods,
       SettingsInv, AdminsInv
<1> QED
  BY <1>1, OpenIsHas DEF Awaited, BusyAwaits, NasWaits, NasForms

\* Whatever keeps a page busy has a call open whose end ends it: neither a form that another
\* one supersedes, nor a drawer's cleanup, nor the answer to another dialog leaves a skeleton
\* or a disabled button with nothing to wait for (setBusy, setSyncing, setExporting and
\* setView around the pages' awaits).
THEOREM BusyCorrect == Spec => []BusyAwaits
<1>1. Init => Awaited
  BY AwaitedFirst
<1>2. IInv /\ Awaited /\ [Next]_vars => Awaited'
  BY StillAwaited
<1>3. IInv /\ Awaited => BusyAwaits
  BY AwaitedMeans
<1> QED
  BY <1>1, <1>2, <1>3, Invariance, PTL DEF Spec
=============================================================================
