-------------------------- MODULE CodexHarnessProofs --------------------------
(***************************************************************************)
(* Theorems about CodexHarness, for every value of its constants.  Its     *)
(* handlers of signals are recursive functions, on the length of a list or *)
(* of the signals that wait; what they do is proved from the least length  *)
(* for which they would not.                                               *)
(***************************************************************************)
EXTENDS CodexHarness, CrewConfigProofs

-----------------------------------------------------------------------------
(* Recursive functions                                                     *)

\* HandleAll is the last value of a function that satisfies its recursion.
LEMMA HandleAllRecursion ==
  ASSUME NEW list, NEW signals, Len(signals) \in Nat
  PROVE  \E after :
           /\ after = [k \in 0..Len(signals) |->
                         IF k = 0 THEN list ELSE Handle(after[k - 1], signals[k])]
           /\ HandleAll(list, signals) = after[Len(signals)]
  <1> DEFINE L == Len(signals)
             Is(g, n) == g = [k \in 0..n |->
                           IF k = 0 THEN list ELSE Handle(g[k - 1], signals[k])]
             S == {n \in 0..L : \E g : Is(g, n)}
             after == CHOOSE g : Is(g, L)
  <1>1. HandleAll(list, signals) = after[L]
    BY DEF HandleAll
  <1>2. 0 \in S
    <2> DEFINE g == [k \in 0..0 |-> list]
    <2>1. Is(g, 0)
      OBVIOUS
    <2> HIDE DEF Is, g
    <2> QED
      BY <2>1
  <1>3. ASSUME NEW k \in 1..L, k - 1 \in S
        PROVE  k \in S
    <2>1. PICK g : Is(g, k - 1)
      BY <1>3
    <2> DEFINE h == [j \in 0..k |-> IF j = k THEN Handle(g[k - 1], signals[k]) ELSE g[j]]
    <2>2. \A j \in 0..(k - 1) :
            g[j] = IF j = 0 THEN list ELSE Handle(g[j - 1], signals[j])
      BY <2>1
    <2>3. \A j \in 0..(k - 1) : h[j] = g[j] /\ j # k
      OBVIOUS
    <2>4. h[k] = Handle(g[k - 1], signals[k]) /\ k # 0
      OBVIOUS
    <2>5. ASSUME NEW j \in 0..k
          PROVE  h[j] = IF j = 0 THEN list ELSE Handle(h[j - 1], signals[j])
      <3>1. CASE j = k
        BY <2>3, <2>4, <3>1
      <3>2. CASE j # k
        <4>1. j \in 0..(k - 1)
          BY <3>2
        <4>2. j # 0 => j - 1 \in 0..(k - 1)
          BY <4>1
        <4> QED
          BY <2>2, <2>3, <4>1, <4>2
      <3> QED
        BY <3>1, <3>2
    <2>6. h = [j \in 0..k |-> h[j]]
      OBVIOUS
    <2> HIDE DEF h
    <2>7. Is(h, k)
      BY <2>5, <2>6
    <2> HIDE DEF Is
    <2> QED
      BY <2>7
  <1>4. L \in S
    <2>1. L \in Nat /\ L \in 0..L
      OBVIOUS
    <2> HIDE DEF S, L
    <2> QED
      BY <1>2, <1>3, <2>1, UpTo
  <1>5. Is(after, L)
    <2> HIDE DEF Is
    <2> QED
      BY <1>4
  <1> QED
    BY <1>1, <1>5

\* RemoveSession is the last value of a function that satisfies its recursion.
LEMMA RemoveSessionRecursion ==
  ASSUME NEW list, NEW id, Len(list) \in Nat
  PROVE  \E kept :
           /\ kept = [k \in 0..Len(list) |->
                        IF k = 0 THEN <<>>
                        ELSE IF list[k].session_id # id THEN Append(kept[k - 1], list[k])
                        ELSE kept[k - 1]]
           /\ RemoveSession(list, id) = kept[Len(list)]
  <1> DEFINE L == Len(list)
             Value(g, k) == IF k = 0 THEN <<>>
                            ELSE IF list[k].session_id # id THEN Append(g[k - 1], list[k])
                            ELSE g[k - 1]
             Is(g, n) == g = [k \in 0..n |-> Value(g, k)]
             S == {n \in 0..L : \E g : Is(g, n)}
             kept == CHOOSE g : Is(g, L)
  <1>1. RemoveSession(list, id) = kept[L]
    BY DEF RemoveSession
  <1>2. 0 \in S
    <2> DEFINE g == [k \in 0..0 |-> <<>>]
    <2>1. Is(g, 0)
      OBVIOUS
    <2> HIDE DEF Is, g
    <2> QED
      BY <2>1
  <1>3. ASSUME NEW k \in 1..L, k - 1 \in S
        PROVE  k \in S
    <2>1. PICK g : Is(g, k - 1)
      BY <1>3
    <2> DEFINE h == [j \in 0..k |-> IF j = k THEN Value(g, k) ELSE g[j]]
    <2>2. \A j \in 0..(k - 1) : g[j] = Value(g, j)
      BY <2>1
    <2>3. \A j \in 0..(k - 1) : h[j] = g[j] /\ j # k
      OBVIOUS
    <2>4. h[k] = Value(g, k) /\ k # 0
      OBVIOUS
    <2>5. ASSUME NEW j \in 0..k
          PROVE  h[j] = Value(h, j)
      <3>1. CASE j = k
        BY <2>3, <2>4, <3>1
      <3>2. CASE j # k
        <4>1. j \in 0..(k - 1)
          BY <3>2
        <4>2. j # 0 => j - 1 \in 0..(k - 1)
          BY <4>1
        <4> QED
          BY <2>2, <2>3, <4>1, <4>2
      <3> QED
        BY <3>1, <3>2
    <2>6. h = [j \in 0..k |-> h[j]]
      OBVIOUS
    <2> HIDE DEF h
    <2>7. Is(h, k)
      BY <2>5, <2>6
    <2> HIDE DEF Is
    <2> QED
      BY <2>7
  <1>4. L \in S
    <2>1. L \in Nat /\ L \in 0..L
      OBVIOUS
    <2> HIDE DEF S, L
    <2> QED
      BY <1>2, <1>3, <2>1, UpTo
  <1>5. Is(kept, L)
    <2> HIDE DEF Is
    <2> QED
      BY <1>4
  <1> QED
    BY <1>1, <1>5

\* r holds the entries of list[1..n] that are not of id, in their order; from
\* says where they stood.
IsRemaining(r, from, list, id, n) ==
  /\ from \in [1..Len(r) -> 1..n]
  /\ \A i, j \in 1..Len(r) : i < j => from[i] < from[j]
  /\ \A i \in 1..Len(r) : r[i] = list[from[i]] /\ list[from[i]].session_id # id
  /\ \A m \in 1..n : list[m].session_id # id => \E i \in 1..Len(r) : from[i] = m

LEMMA RemoveSessionKeepsOthers ==
  ASSUME NEW E, NEW list \in Seq(E), NEW id
  PROVE  /\ RemoveSession(list, id) \in Seq(E)
         /\ \E from : IsRemaining(RemoveSession(list, id), from, list, id, Len(list))
  <1> DEFINE L == Len(list)
  <1>1. L \in Nat /\ DOMAIN list = 1..L /\ \A k \in 1..L : list[k] \in E
    OBVIOUS
  <1>2. PICK kept :
          /\ kept = [k \in 0..L |->
                       IF k = 0 THEN <<>>
                       ELSE IF list[k].session_id # id THEN Append(kept[k - 1], list[k])
                       ELSE kept[k - 1]]
          /\ RemoveSession(list, id) = kept[L]
    BY <1>1, RemoveSessionRecursion
  <1> DEFINE S == {n \in 0..L : kept[n] \in Seq(E)
                                /\ \E from : IsRemaining(kept[n], from, list, id, n)}
  <1> HIDE DEF L
  <1>3. 0 \in S
    <2> DEFINE f == [i \in {} |-> 0]
    <2>1. kept[0] = <<>>
      BY <1>1, <1>2
    <2>2. Len(<<>>) = 0 /\ 1..0 = {}
      OBVIOUS
    <2>3. f \in [1..0 -> 1..0]
      BY <2>2
    <2>4. IsRemaining(<<>>, f, list, id, 0)
      BY <2>2, <2>3 DEF IsRemaining
    <2>5. <<>> \in Seq(E) /\ 0 \in 0..L
      BY <1>1
    <2> HIDE DEF f
    <2>6. /\ kept[0] \in Seq(E)
          /\ \E from : IsRemaining(kept[0], from, list, id, 0)
      BY <2>1, <2>4, <2>5
    <2> QED
      BY <2>5, <2>6
  <1>4. ASSUME NEW k \in 1..L, k - 1 \in S
        PROVE  k \in S
    <2>1. k \in 0..L /\ k - 1 \in 0..L /\ k # 0 /\ k \in Nat
      BY <1>1
    <2>2. PICK r, from : /\ r = kept[k - 1] /\ r \in Seq(E)
                         /\ IsRemaining(r, from, list, id, k - 1)
      BY <1>4
    <2>3. PICK n \in Nat : n = Len(r)
      BY <2>2
    <2>4. list[k] \in E
      BY <1>1
    <2>5. CASE list[k].session_id = id
      <3>1. kept[k] = r
        BY <1>2, <2>1, <2>2, <2>5
      <3>2. IsRemaining(r, from, list, id, k)
        <4>1. from \in [1..Len(r) -> 1..k]
          BY <2>1, <2>2 DEF IsRemaining
        <4>2. \A m \in 1..k : m = k \/ m \in 1..(k - 1)
          BY <2>1
        <4> QED
          BY <2>2, <2>5, <4>1, <4>2 DEF IsRemaining
      <3> QED
        BY <2>1, <2>2, <3>1, <3>2
    <2>6. CASE list[k].session_id # id
      <3> DEFINE q == Append(r, list[k])
                 to == [i \in 1..(n + 1) |-> IF i = n + 1 THEN k ELSE from[i]]
      <3>1. kept[k] = q
        BY <1>2, <2>1, <2>2, <2>6
      <3>2. /\ q \in Seq(E) /\ Len(q) = n + 1
            /\ q[n + 1] = list[k] /\ \A i \in 1..n : q[i] = r[i]
        BY <2>2, <2>3, <2>4
      <3> HIDE DEF q
      <3>3. /\ from \in [1..n -> 1..(k - 1)]
            /\ \A i, j \in 1..n : i < j => from[i] < from[j]
            /\ \A i \in 1..n : r[i] = list[from[i]] /\ list[from[i]].session_id # id
            /\ \A m \in 1..(k - 1) : list[m].session_id # id => \E i \in 1..n : from[i] = m
        BY <2>2, <2>3 DEF IsRemaining
      <3>4. \A i \in 1..(n + 1) : i = n + 1 \/ i \in 1..n
        OBVIOUS
      <3>5. to[n + 1] = k /\ \A i \in 1..n : to[i] = from[i] /\ from[i] \in 1..(k - 1)
        BY <3>3
      <3>6. to \in [1..(n + 1) -> 1..k]
        BY <2>1, <3>3
      <3> HIDE DEF to
      <3>7. \A i, j \in 1..(n + 1) : i < j => to[i] < to[j]
        <4>1. ASSUME NEW i \in 1..(n + 1), NEW j \in 1..(n + 1), i < j
              PROVE  to[i] < to[j]
          <5>1. i \in 1..n
            BY <4>1
          <5>2. CASE j = n + 1
            BY <2>1, <3>5, <5>1, <5>2
          <5>3. CASE j \in 1..n
            BY <3>3, <3>5, <4>1, <5>1, <5>3
          <5> QED
            BY <3>4, <5>2, <5>3
        <4> QED
          BY <4>1
      <3>8. \A i \in 1..(n + 1) : q[i] = list[to[i]] /\ list[to[i]].session_id # id
        BY <2>6, <3>2, <3>3, <3>4, <3>5
      <3>9. \A m \in 1..k : list[m].session_id # id => \E i \in 1..(n + 1) : to[i] = m
        <4>1. ASSUME NEW m \in 1..k, list[m].session_id # id
              PROVE  \E i \in 1..(n + 1) : to[i] = m
          <5>1. CASE m = k
            BY <3>5, <5>1
          <5>2. CASE m \in 1..(k - 1)
            <6>1. PICK i \in 1..n : from[i] = m
              BY <3>3, <4>1, <5>2
            <6>2. i \in 1..(n + 1)
              OBVIOUS
            <6> QED
              BY <3>5, <6>1, <6>2
          <5> QED
            BY <2>1, <5>1, <5>2
        <4> QED
          BY <4>1
      <3>10. IsRemaining(q, to, list, id, k)
        BY <3>2, <3>6, <3>7, <3>8, <3>9 DEF IsRemaining
      <3> QED
        BY <2>1, <3>1, <3>2, <3>10
    <2> QED
      BY <2>5, <2>6
  <1>5. L \in S
    <2>1. L \in 0..L
      BY <1>1
    <2> HIDE DEF S
    <2> QED
      BY <1>1, <1>3, <1>4, <2>1, UpTo
  <1> QED
    BY <1>2, <1>5 DEF L

-----------------------------------------------------------------------------
(* The handlers of the signals                                             *)

\* Lists of entries of E, one per session.
Lists(E) ==
  {list \in Seq(E) : \A i, j \in DOMAIN list :
     list[i].session_id = list[j].session_id => i = j}

\* The signals about the sessions of E.
SignalsOver(E) ==
  {Registration(e) : e \in E}
    \cup {StatusUpdate(e.session_id, "Completed") : e \in E}
    \cup {Removal(e.session_id) : e \in E}

\* A set of entries of which each may complete.
Entries(E) ==
  \A e \in E : /\ [e EXCEPT !.status = "Completed"] \in E
               /\ [e EXCEPT !.status = "Completed"].session_id = e.session_id

\* What the three handlers make of a list.
LEMMA RegisterSessionReplaces ==
  ASSUME NEW E, NEW list \in Lists(E), NEW entry \in E
  PROVE  /\ RegisterSession(list, entry) \in Lists(E)
         /\ \A i \in DOMAIN list :
              /\ i \in DOMAIN RegisterSession(list, entry)
              /\ list[i].session_id = entry.session_id =>
                   /\ RegisterSession(list, entry)[i] = entry
                   /\ DOMAIN RegisterSession(list, entry) = DOMAIN list
              /\ list[i].session_id # entry.session_id =>
                   RegisterSession(list, entry)[i] = list[i]
         /\ (\A i \in DOMAIN list : list[i].session_id # entry.session_id) =>
              /\ DOMAIN RegisterSession(list, entry) = 1..(Len(list) + 1)
              /\ RegisterSession(list, entry)[Len(list) + 1] = entry
  <1>1. /\ list \in Seq(E) /\ Len(list) \in Nat /\ DOMAIN list = 1..Len(list)
        /\ \A i, j \in DOMAIN list :
             list[i].session_id = list[j].session_id => i = j
        /\ \A i \in 1..Len(list) : list[i] \in E
    BY DEF Lists
  <1>2. CASE \E i \in DOMAIN list : list[i].session_id = entry.session_id
    <2> DEFINE r == [i \in 1..Len(list) |->
                       IF list[i].session_id = entry.session_id THEN entry ELSE list[i]]
    <2>1. RegisterSession(list, entry) = r
      BY <1>1, <1>2 DEF RegisterSession
    <2>2. r \in [1..Len(list) -> E]
      BY <1>1
    <2>3. r \in Seq(E) /\ DOMAIN r = 1..Len(list)
      BY <1>1, <2>2, SeqDef
    <2>4. \A i \in 1..Len(list) :
            r[i].session_id = list[i].session_id
      OBVIOUS
    <2>5. r \in Lists(E)
      <3> HIDE DEF r
      <3> QED
        BY <1>1, <2>3, <2>4 DEF Lists
    <2> QED
      BY <1>1, <1>2, <2>1, <2>3, <2>5
  <1>3. CASE \A i \in DOMAIN list : list[i].session_id # entry.session_id
    <2> DEFINE r == Append(list, entry)
    <2>1. RegisterSession(list, entry) = r
      BY <1>3 DEF RegisterSession
    <2>2. /\ r \in Seq(E) /\ Len(r) = Len(list) + 1
          /\ r[Len(list) + 1] = entry
          /\ \A i \in 1..Len(list) : r[i] = list[i]
      BY <1>1
    <2> HIDE DEF r
    <2>3. DOMAIN r = 1..(Len(list) + 1)
      BY <2>2
    <2>4. \A i \in 1..(Len(list) + 1) : i = Len(list) + 1 \/ i \in 1..Len(list)
      BY <1>1
    <2>5. r \in Lists(E)
      BY <1>1, <1>3, <2>2, <2>3, <2>4 DEF Lists
    <2>6. \A i \in DOMAIN list : i \in 1..(Len(list) + 1)
      BY <1>1
    <2> QED
      BY <1>1, <1>3, <2>1, <2>2, <2>3, <2>5, <2>6
  <1> QED
    BY <1>2, <1>3

LEMMA UpdateSessionStatusUpdates ==
  ASSUME NEW E, Entries(E), NEW list \in Lists(E), NEW id
  PROVE  /\ UpdateSessionStatus(list, id, "Completed") \in Lists(E)
         /\ DOMAIN UpdateSessionStatus(list, id, "Completed") = DOMAIN list
         /\ \A i \in DOMAIN list :
              UpdateSessionStatus(list, id, "Completed")[i] =
                IF list[i].session_id = id
                THEN [list[i] EXCEPT !.status = "Completed"] ELSE list[i]
  <1> DEFINE r == UpdateSessionStatus(list, id, "Completed")
  <1>1. /\ list \in Seq(E) /\ Len(list) \in Nat /\ DOMAIN list = 1..Len(list)
        /\ \A i, j \in DOMAIN list :
             list[i].session_id = list[j].session_id => i = j
        /\ \A i \in 1..Len(list) : list[i] \in E
    BY DEF Lists
  <1>2. /\ DOMAIN r = 1..Len(list)
        /\ \A i \in 1..Len(list) :
             r[i] = IF list[i].session_id = id
                    THEN [list[i] EXCEPT !.status = "Completed"] ELSE list[i]
        /\ r = [i \in 1..Len(list) |-> r[i]]
    BY <1>1 DEF UpdateSessionStatus
  <1>3. \A i \in 1..Len(list) : r[i] \in E /\ r[i].session_id = list[i].session_id
    BY <1>1, <1>2 DEF Entries
  <1> HIDE DEF r
  <1>4. r \in Seq(E)
    BY <1>1, <1>2, <1>3, SeqDef
  <1>5. r \in Lists(E)
    BY <1>1, <1>2, <1>3, <1>4 DEF Lists
  <1> QED
    BY <1>1, <1>2, <1>5 DEF r

LEMMA RemoveSessionLists ==
  ASSUME NEW E, NEW list \in Lists(E), NEW id
  PROVE  RemoveSession(list, id) \in Lists(E)
  <1>1. /\ list \in Seq(E) /\ DOMAIN list = 1..Len(list) /\ Len(list) \in Nat
        /\ \A i, j \in DOMAIN list :
             list[i].session_id = list[j].session_id => i = j
    BY DEF Lists
  <1>2. PICK r, from : /\ r = RemoveSession(list, id) /\ r \in Seq(E)
                       /\ IsRemaining(r, from, list, id, Len(list))
    BY <1>1, RemoveSessionKeepsOthers
  <1>3. DOMAIN r = 1..Len(r) /\ Len(r) \in Nat
    BY <1>2
  <1>4. ASSUME NEW i \in 1..Len(r), NEW j \in 1..Len(r),
               r[i].session_id = r[j].session_id
        PROVE  i = j
    <2>1. from[i] = from[j]
      BY <1>1, <1>2, <1>4 DEF IsRemaining
    <2>2. from[i] \in 1..Len(list)
      BY <1>2 DEF IsRemaining
    <2>3. ~(i < j) /\ ~(j < i)
      BY <1>2, <2>1, <2>2 DEF IsRemaining
    <2> QED
      BY <1>3, <2>3
  <1> QED
    BY <1>2, <1>3, <1>4 DEF Lists

LEMMA HandleLists ==
  ASSUME NEW E, Entries(E), NEW list \in Lists(E), NEW signal \in SignalsOver(E)
  PROVE  Handle(list, signal) \in Lists(E)
  <1>1. CASE signal \in {Registration(e) : e \in E}
    <2>1. PICK e \in E : signal = Registration(e)
      BY <1>1
    <2>2. signal.kind = "register" /\ signal.entry = e
      BY <2>1 DEF Registration
    <2> QED
      BY <2>2, RegisterSessionReplaces DEF Handle
  <1>2. CASE signal \in {StatusUpdate(e.session_id, "Completed") : e \in E}
    <2>1. signal.kind = "update" /\ signal.status = "Completed"
      BY <1>2 DEF StatusUpdate
    <2> QED
      BY <2>1, UpdateSessionStatusUpdates DEF Handle
  <1>3. CASE signal \in {Removal(e.session_id) : e \in E}
    <2>1. signal.kind = "remove"
      BY <1>3 DEF Removal
    <2> QED
      BY <2>1, RemoveSessionLists DEF Handle
  <1> QED
    BY <1>1, <1>2, <1>3 DEF SignalsOver

LEMMA HandleAllLists ==
  ASSUME NEW E, Entries(E), NEW list \in Lists(E), NEW signals \in Seq(SignalsOver(E))
  PROVE  HandleAll(list, signals) \in Lists(E)
  <1> DEFINE L == Len(signals)
  <1>1. L \in Nat /\ \A k \in 1..L : signals[k] \in SignalsOver(E)
    OBVIOUS
  <1>2. PICK after : /\ after = [k \in 0..L |->
                          IF k = 0 THEN list ELSE Handle(after[k - 1], signals[k])]
                     /\ HandleAll(list, signals) = after[L]
    BY <1>1, HandleAllRecursion
  <1> HIDE DEF L
  <1> DEFINE S == {k \in 0..L : after[k] \in Lists(E)}
  <1>3. 0 \in S
    BY <1>1, <1>2
  <1>4. ASSUME NEW k \in 1..L, k - 1 \in S
        PROVE  k \in S
    <2>1. after[k] = Handle(after[k - 1], signals[k])
      BY <1>1, <1>2
    <2> QED
      BY <1>1, <1>4, <2>1, HandleLists
  <1>5. L \in 0..L
    BY <1>1
  <1> HIDE DEF S
  <1>6. L \in S
    BY <1>1, <1>3, <1>4, <1>5, UpTo
  <1> QED
    BY <1>2, <1>6 DEF S

-----------------------------------------------------------------------------
(* Launchers                                                               *)

Fields == {"mode", "step", "key", "input", "choice", "token", "asked",
           "session", "started"}
Steps == {"begin", "configured", "started", "ensured", "queried", "open",
          "done", "exited"}

\* What every launcher is made of.
LaunchersAreRecords ==
  /\ DOMAIN launcher = Launchers
  /\ DOMAIN started = Launchers
  /\ \A l \in Launchers :
       /\ DOMAIN launcher[l] = Fields
       /\ launcher[l].step \in Steps
       /\ launcher[l].key \in BOOLEAN
       /\ launcher[l].token \in BOOLEAN
       /\ launcher[l].started \in BOOLEAN

\* Only the fields of record change, and only of one launcher.
LEMMA BecomesChanges ==
  ASSUME DOMAIN launcher = Launchers, \A k \in Launchers : DOMAIN launcher[k] = Fields,
         NEW l \in Launchers, NEW record, DOMAIN record \subseteq Fields,
         Becomes(l, record)
  PROVE  /\ DOMAIN launcher' = Launchers
         /\ \A k \in Launchers : DOMAIN launcher'[k] = Fields
         /\ \A k \in Launchers : k # l => launcher'[k] = launcher[k]
         /\ \A f \in DOMAIN record : launcher'[l][f] = record[f]
         /\ \A f \in Fields : f \notin DOMAIN record => launcher'[l][f] = launcher[l][f]
  <1> DEFINE r == [field \in Fields |->
                     IF field \in DOMAIN record THEN record[field] ELSE launcher[l][field]]
  <1>1. launcher' = [launcher EXCEPT ![l] = r]
    BY DEF Becomes
  <1>2. /\ DOMAIN r = Fields
        /\ \A f \in DOMAIN record : r[f] = record[f]
        /\ \A f \in Fields : f \notin DOMAIN record => r[f] = launcher[l][f]
    OBVIOUS
  <1> HIDE DEF r
  <1>3. /\ DOMAIN launcher' = Launchers
        /\ launcher'[l] = r
        /\ \A k \in Launchers : k # l => launcher'[k] = launcher[k]
    BY <1>1
  <1> QED
    BY <1>2, <1>3

\* A step of launcher l that changes no other launcher, and of l no other
\* field than fs.
Changes(l, fs) ==
  /\ LaunchersAreRecords'
  /\ \A k \in Launchers : k # l => launcher'[k] = launcher[k]
  /\ \A f \in Fields : f \notin fs => launcher'[l][f] = launcher[l][f]

LEMMA BecomesKeepsRecords ==
  ASSUME LaunchersAreRecords, NEW l \in Launchers, NEW record,
         DOMAIN record \subseteq Fields \ {"key"}, Becomes(l, record),
         DOMAIN started' = Launchers,
         "step" \in DOMAIN record => record["step"] \in Steps,
         "token" \in DOMAIN record => record["token"] \in BOOLEAN,
         "started" \in DOMAIN record => record["started"] \in BOOLEAN
  PROVE  /\ Changes(l, DOMAIN record)
         /\ \A f \in DOMAIN record : launcher'[l][f] = record[f]
  <1>1. /\ DOMAIN launcher' = Launchers
        /\ \A k \in Launchers : DOMAIN launcher'[k] = Fields
        /\ \A k \in Launchers : k # l => launcher'[k] = launcher[k]
        /\ \A f \in DOMAIN record : launcher'[l][f] = record[f]
        /\ \A f \in Fields : f \notin DOMAIN record => launcher'[l][f] = launcher[l][f]
    BY BecomesChanges DEF LaunchersAreRecords
  <1>2. /\ launcher[l]["step"] \in Steps
        /\ launcher[l]["key"] \in BOOLEAN
        /\ launcher[l]["token"] \in BOOLEAN
        /\ launcher[l]["started"] \in BOOLEAN
    BY DEF LaunchersAreRecords
  <1>3. {"step", "key", "token", "started"} \subseteq Fields
    BY DEF Fields
  <1>4. /\ launcher'[l]["step"] \in Steps
        /\ launcher'[l]["key"] \in BOOLEAN
        /\ launcher'[l]["token"] \in BOOLEAN
        /\ launcher'[l]["started"] \in BOOLEAN
    <2>1. launcher'[l]["step"] \in Steps
      BY <1>1, <1>2, <1>3
    <2>2. launcher'[l]["key"] \in BOOLEAN
      BY <1>1, <1>2, <1>3
    <2>3. launcher'[l]["token"] \in BOOLEAN
      BY <1>1, <1>2, <1>3
    <2>4. launcher'[l]["started"] \in BOOLEAN
      BY <1>1, <1>2, <1>3
    <2> QED
      BY <2>1, <2>2, <2>3, <2>4
  <1>5. LaunchersAreRecords'
    BY <1>1, <1>4 DEF LaunchersAreRecords
  <1> QED
    BY <1>1, <1>5 DEF Changes

\* What each of the launchers' actions does to its launcher.
LEMMA ConfigureChanges ==
  ASSUME LaunchersAreRecords, NEW l \in Launchers, Configure(l)
  PROVE  /\ Changes(l, {"step", "input", "choice"})
         /\ launcher[l].step = "begin"
         /\ launcher[l].mode # "list"
         /\ launcher'[l].step \in {"configured", "exited"}
         /\ launcher'[l].step = "configured" => launcher'[l].input # NONE
         /\ UNCHANGED <<registryVars, workerVars, started, taken>>
  <1>1. PICK input, choice :
          Becomes(l, [step |-> IF input = NONE THEN "exited" ELSE "configured",
                      input |-> input, choice |-> choice])
    BY DEF Configure
  <1> DEFINE r == [step |-> IF input = NONE THEN "exited" ELSE "configured",
                   input |-> input, choice |-> choice]
  <1>2. /\ DOMAIN r = {"step", "input", "choice"}
        /\ r["step"] = IF input = NONE THEN "exited" ELSE "configured"
        /\ r["input"] = input
    OBVIOUS
  <1>3. Becomes(l, r)
    BY <1>1
  <1>4. launcher[l].step = "begin" /\ launcher[l].mode # "list"
        /\ UNCHANGED <<registryVars, workerVars, started, taken>>
    BY DEF Configure, At
  <1> HIDE DEF r
  <1>5. Changes(l, DOMAIN r) /\ \A f \in DOMAIN r : launcher'[l][f] = r[f]
    <2>1. DOMAIN r \subseteq Fields \ {"key"} /\ r["step"] \in Steps
          /\ "token" \notin DOMAIN r /\ "started" \notin DOMAIN r
      BY <1>2 DEF Fields, Steps
    <2>2. DOMAIN started' = Launchers
      BY <1>4 DEF LaunchersAreRecords
    <2> QED
      BY <1>3, <2>1, <2>2, BecomesKeepsRecords
  <1>6. /\ launcher'[l].step = IF input = NONE THEN "exited" ELSE "configured"
        /\ launcher'[l].input = input
    BY <1>2, <1>5
  <1> QED
    BY <1>2, <1>4, <1>5, <1>6

LEMMA CliStartsChanges ==
  ASSUME LaunchersAreRecords, NEW l \in Launchers, CliStarts(l)
  PROVE  /\ Changes(l, {"step"})
         /\ launcher[l].step = "configured"
         /\ launcher[l].mode \in Cli
         /\ launcher'[l].step \in {"started", "exited"}
         /\ \/ started' = [started EXCEPT ![l] = launcher[l].input]
            \/ started' = started /\ launcher'[l].step = "exited"
         /\ UNCHANGED <<registryVars, workerVars, taken>>
  <1>1. PICK reached \in BOOLEAN, ok \in BOOLEAN :
          /\ ok => reached
          /\ started' = IF reached THEN [started EXCEPT ![l] = launcher[l].input]
                        ELSE started
          /\ Becomes(l, [step |-> IF ok THEN "started" ELSE "exited"])
    BY DEF CliStarts
  <1> DEFINE r == [step |-> IF ok THEN "started" ELSE "exited"]
  <1>2. DOMAIN r = {"step"} /\ r["step"] = IF ok THEN "started" ELSE "exited"
    OBVIOUS
  <1>3. Becomes(l, r)
    BY <1>1
  <1>4. /\ launcher[l].step = "configured" /\ launcher[l].mode \in Cli
        /\ UNCHANGED <<registryVars, workerVars, taken>>
    BY DEF CliStarts, At
  <1> HIDE DEF r
  <1>5. Changes(l, DOMAIN r) /\ \A f \in DOMAIN r : launcher'[l][f] = r[f]
    <2>1. DOMAIN r \subseteq Fields \ {"key"} /\ r["step"] \in Steps
          /\ "token" \notin DOMAIN r /\ "started" \notin DOMAIN r
      BY <1>2 DEF Fields, Steps
    <2>2. DOMAIN started' = Launchers
      BY <1>1 DEF LaunchersAreRecords
    <2> QED
      BY <1>3, <2>1, <2>2, BecomesKeepsRecords
  <1>6. launcher'[l].step = IF ok THEN "started" ELSE "exited"
    BY <1>2, <1>5
  <1>7. \/ started' = [started EXCEPT ![l] = launcher[l].input]
        \/ started' = started /\ launcher'[l].step = "exited"
    BY <1>1, <1>6
  <1> QED
    BY <1>2, <1>4, <1>5, <1>6, <1>7

LEMMA EnsureHarnessChanges ==
  ASSUME LaunchersAreRecords, NEW l \in Launchers, EnsureHarness(l)
  PROVE  /\ Changes(l, {"step"})
         /\ \/ launcher[l].step = "configured" /\ launcher[l].mode \in Tui
            \/ launcher[l].step = "started" /\ launcher[l].mode \in Cli
            \/ launcher[l].step = "begin" /\ launcher[l].mode = "list"
         /\ launcher'[l].step \in {"exited", "done", "ensured"}
         /\ launcher'[l].step = "done" => launcher[l].mode = "list"
         /\ launcher'[l].step = "ensured" => launcher[l].mode # "list"
         /\ pc' = pc \/ (pc = "absent" /\ pc' = "new")
         /\ UNCHANGED <<sessions, credentials, inbox, run, checks, workerVars,
                        started, taken>>
  <1>1. PICK reached \in BOOLEAN, ok \in BOOLEAN :
          /\ IF reached THEN StartHarness ELSE pc' = pc
          /\ Becomes(l, [step |-> CASE ~ok -> "exited"
                                    [] launcher[l].mode = "list" -> "done"
                                    [] OTHER -> "ensured"])
    BY DEF EnsureHarness
  <1> DEFINE step == CASE ~ok -> "exited"
                       [] launcher[l].mode = "list" -> "done"
                       [] OTHER -> "ensured"
             r == [step |-> step]
  <1>2. DOMAIN r = {"step"} /\ r["step"] = step
    OBVIOUS
  <1>3. Becomes(l, r)
    BY <1>1
  <1>4. /\ step \in {"exited", "done", "ensured"}
        /\ step = "done" => launcher[l].mode = "list"
        /\ step = "ensured" => launcher[l].mode # "list"
    <2>1. CASE ok
      BY <2>1
    <2>2. CASE ~ok
      BY <2>2
    <2> QED
      BY <2>1, <2>2
  <1>5. /\ \/ launcher[l].step = "configured" /\ launcher[l].mode \in Tui
           \/ launcher[l].step = "started" /\ launcher[l].mode \in Cli
           \/ launcher[l].step = "begin" /\ launcher[l].mode = "list"
        /\ UNCHANGED <<sessions, credentials, inbox, run, checks, workerVars,
                       started, taken>>
    BY DEF EnsureHarness, At
  <1> HIDE DEF step
  <1> HIDE DEF r
  <1>6. Changes(l, DOMAIN r) /\ \A f \in DOMAIN r : launcher'[l][f] = r[f]
    <2>1. DOMAIN r \subseteq Fields \ {"key"} /\ r["step"] \in Steps
          /\ "token" \notin DOMAIN r /\ "started" \notin DOMAIN r
      BY <1>2, <1>4 DEF Fields, Steps
    <2>2. DOMAIN started' = Launchers
      BY <1>5 DEF LaunchersAreRecords
    <2> QED
      BY <1>3, <2>1, <2>2, BecomesKeepsRecords
  <1>7. launcher'[l].step = step
    BY <1>2, <1>6
  <1>8. pc' = pc \/ (pc = "absent" /\ pc' = "new")
    BY <1>1 DEF StartHarness
  <1> QED
    BY <1>2, <1>4, <1>5, <1>6, <1>7, <1>8

LEMMA QueryCredentialsChanges ==
  ASSUME LaunchersAreRecords, NEW l \in Launchers, QueryCredentials(l)
  PROVE  /\ Changes(l, {"step", "asked", "token"})
         /\ launcher[l].step = "ensured"
         /\ launcher[l].mode \in Tui
         /\ launcher'[l].step = "queried"
         /\ \/ launcher'[l].asked = "failed"
            \/ pc # "absent" /\ launcher'[l].asked = CredentialsAvailable
         /\ launcher'[l].token =
              (NeedsToken(launcher'[l].asked) /\ launcher[l].key)
         /\ UNCHANGED <<registryVars, workerVars, started, taken>>
  <1>1. PICK answer \in {"failed"} \cup
                        (IF Answerable THEN {CredentialsAvailable} ELSE {}) :
          Becomes(l, [step |-> "queried", asked |-> answer,
                      token |-> NeedsToken(answer) /\ launcher[l].key])
    BY DEF QueryCredentials
  <1> DEFINE token == NeedsToken(answer) /\ launcher[l].key
             r == [step |-> "queried", asked |-> answer, token |-> token]
  <1>2. /\ DOMAIN r = {"step", "asked", "token"}
        /\ r["step"] = "queried"
        /\ r["asked"] = answer
        /\ r["token"] = token
    OBVIOUS
  <1>3. Becomes(l, r)
    BY <1>1
  <1>4. /\ launcher[l].step = "ensured" /\ launcher[l].mode \in Tui
        /\ UNCHANGED <<registryVars, workerVars, started, taken>>
    BY DEF QueryCredentials, At
  <1>5. answer = "failed" \/ (pc # "absent" /\ answer = CredentialsAvailable)
    BY DEF Answerable
  <1>6. token \in BOOLEAN
    OBVIOUS
  <1> HIDE DEF token
  <1> HIDE DEF r
  <1>7. Changes(l, DOMAIN r) /\ \A f \in DOMAIN r : launcher'[l][f] = r[f]
    <2>1. DOMAIN r \subseteq Fields \ {"key"} /\ r["step"] \in Steps
          /\ r["token"] \in BOOLEAN /\ "started" \notin DOMAIN r
      BY <1>2, <1>6 DEF Fields, Steps
    <2>2. DOMAIN started' = Launchers
      BY <1>4 DEF LaunchersAreRecords
    <2> QED
      BY <1>3, <2>1, <2>2, BecomesKeepsRecords
  <1>8. /\ launcher'[l].step = "queried"
        /\ launcher'[l].asked = answer
        /\ launcher'[l].token = token
    BY <1>2, <1>7
  <1>9. launcher'[l].token = (NeedsToken(launcher'[l].asked) /\ launcher[l].key)
    BY <1>8 DEF token
  <1> QED
    BY <1>2, <1>4, <1>5, <1>7, <1>8, <1>9

LEMMA RegisteredChanges ==
  ASSUME LaunchersAreRecords, NEW l \in Launchers, Registered(l), started' = started
  PROVE  /\ launcher[l].mode = "tui" =>
              /\ Changes(l, {"step", "session"})
              /\ launcher'[l].step = "open"
              /\ launcher'[l].session = l
         /\ launcher[l].mode # "tui" =>
              /\ Changes(l, {"step"})
              /\ launcher'[l].step = "done"
  <1>1. DOMAIN started' = Launchers
    BY DEF LaunchersAreRecords
  <1>2. CASE launcher[l].mode = "tui"
    <2> DEFINE r == [step |-> "open", session |-> l]
    <2>1. DOMAIN r = {"step", "session"} /\ r["step"] = "open" /\ r["session"] = l
      OBVIOUS
    <2>2. Becomes(l, r)
      BY <1>2 DEF Registered
    <2> HIDE DEF r
    <2>3. DOMAIN r \subseteq Fields \ {"key"} /\ r["step"] \in Steps
          /\ "token" \notin DOMAIN r /\ "started" \notin DOMAIN r
      BY <2>1 DEF Fields, Steps
    <2>4. Changes(l, DOMAIN r) /\ \A f \in DOMAIN r : launcher'[l][f] = r[f]
      BY <1>1, <2>2, <2>3, BecomesKeepsRecords
    <2>5. launcher'[l].step = "open" /\ launcher'[l].session = l
      BY <2>1, <2>4
    <2> QED
      BY <1>2, <2>1, <2>4, <2>5
  <1>3. CASE launcher[l].mode # "tui"
    <2> DEFINE r == [step |-> "done"]
    <2>1. DOMAIN r = {"step"} /\ r["step"] = "done"
      OBVIOUS
    <2>2. Becomes(l, r)
      BY <1>3 DEF Registered
    <2> HIDE DEF r
    <2>3. DOMAIN r \subseteq Fields \ {"key"} /\ r["step"] \in Steps
          /\ "token" \notin DOMAIN r /\ "started" \notin DOMAIN r
      BY <2>1 DEF Fields, Steps
    <2>4. Changes(l, DOMAIN r) /\ \A f \in DOMAIN r : launcher'[l][f] = r[f]
      BY <1>1, <2>2, <2>3, BecomesKeepsRecords
    <2>5. launcher'[l].step = "done"
      BY <2>1, <2>4
    <2> QED
      BY <1>3, <2>1, <2>4, <2>5
  <1> QED
    BY <1>2, <1>3

LEMMA ResumeChanges ==
  ASSUME LaunchersAreRecords, NEW l \in Launchers, Resume(l)
  PROVE  /\ Changes(l, {"step", "session", "started"})
         /\ launcher[l].step = "queried"
         /\ launcher[l].mode = "resume"
         /\ launcher'[l].session \in Launchers
         /\ \/ launcher'[l].step = "exited"
            \/ launcher'[l].step = "open" /\ started[launcher'[l].session] # NONE
         /\ launcher'[l].started
         /\ UNCHANGED <<registryVars, workerVars, started, taken>>
  <1>1. PICK id \in Launchers \ {l} :
          Becomes(l, [step |-> IF started[id] # NONE THEN "open" ELSE "exited",
                      session |-> id, started |-> TRUE])
    BY DEF Resume
  <1> DEFINE step == IF started[id] # NONE THEN "open" ELSE "exited"
             r == [step |-> step, session |-> id, started |-> TRUE]
  <1>2. /\ DOMAIN r = {"step", "session", "started"}
        /\ r["step"] = step
        /\ r["session"] = id
        /\ r["started"] = TRUE
    OBVIOUS
  <1>3. Becomes(l, r)
    BY <1>1
  <1>4. /\ launcher[l].step = "queried" /\ launcher[l].mode = "resume"
        /\ UNCHANGED <<registryVars, workerVars, started, taken>>
    BY DEF Resume, At
  <1>5. step = "exited" \/ (step = "open" /\ started[id] # NONE)
    OBVIOUS
  <1> HIDE DEF step
  <1> HIDE DEF r
  <1>6. Changes(l, DOMAIN r) /\ \A f \in DOMAIN r : launcher'[l][f] = r[f]
    <2>1. DOMAIN r \subseteq Fields \ {"key"} /\ r["step"] \in Steps
          /\ "token" \notin DOMAIN r /\ r["started"] \in BOOLEAN
      BY <1>2, <1>5 DEF Fields, Steps
    <2>2. DOMAIN started' = Launchers
      BY <1>4 DEF LaunchersAreRecords
    <2> QED
      BY <1>3, <2>1, <2>2, BecomesKeepsRecords
  <1>7. launcher'[l].step = step /\ launcher'[l].session = id
    BY <1>2, <1>6
  <1>8. launcher'[l].started
    BY <1>2, <1>6
  <1> QED
    BY <1>2, <1>4, <1>5, <1>6, <1>7, <1>8

LEMMA SubmitChanges ==
  ASSUME LaunchersAreRecords, NEW l \in Launchers, Submit(l)
  PROVE  /\ Changes(l, {"started"})
         /\ launcher[l].step = "open"
         /\ ~launcher[l].started
         /\ started' = [started EXCEPT ![launcher[l].session] = launcher[l].input]
         /\ UNCHANGED <<registryVars, workerVars, taken>>
  <1> DEFINE r == [started |-> TRUE]
  <1>1. DOMAIN r = {"started"} /\ r["started"] = TRUE
    OBVIOUS
  <1>2. /\ Becomes(l, r)
        /\ launcher[l].step = "open" /\ ~launcher[l].started
        /\ started' = [started EXCEPT ![launcher[l].session] = launcher[l].input]
        /\ UNCHANGED <<registryVars, workerVars, taken>>
    BY DEF Submit
  <1> HIDE DEF r
  <1>3. DOMAIN r \subseteq Fields \ {"key"} /\ "step" \notin DOMAIN r
        /\ "token" \notin DOMAIN r /\ r["started"] \in BOOLEAN
    BY <1>1 DEF Fields
  <1>4. DOMAIN started' = Launchers
    BY <1>2 DEF LaunchersAreRecords
  <1>5. Changes(l, DOMAIN r)
    BY <1>2, <1>3, <1>4, BecomesKeepsRecords
  <1> QED
    BY <1>1, <1>2, <1>5

LEMMA SwitchToChanges ==
  ASSUME LaunchersAreRecords, NEW l \in Launchers, SwitchTo(l)
  PROVE  /\ Changes(l, {"session", "started"})
         /\ launcher[l].step = "open"
         /\ launcher'[l].session \in EverListed
         /\ launcher'[l].started
         /\ UNCHANGED <<registryVars, workerVars, started, taken>>
  <1>1. PICK id \in EverListed : Becomes(l, [session |-> id, started |-> TRUE])
    BY DEF SwitchTo
  <1> DEFINE r == [session |-> id, started |-> TRUE]
  <1>2. DOMAIN r = {"session", "started"} /\ r["session"] = id /\ r["started"] = TRUE
    OBVIOUS
  <1>3. /\ Becomes(l, r)
        /\ launcher[l].step = "open"
        /\ UNCHANGED <<registryVars, workerVars, started, taken>>
    BY <1>1 DEF SwitchTo
  <1> HIDE DEF r
  <1>4. DOMAIN r \subseteq Fields \ {"key"} /\ "step" \notin DOMAIN r
        /\ "token" \notin DOMAIN r /\ r["started"] \in BOOLEAN
    BY <1>2 DEF Fields
  <1>5. DOMAIN started' = Launchers
    BY <1>3 DEF LaunchersAreRecords
  <1>6. Changes(l, DOMAIN r) /\ \A f \in DOMAIN r : launcher'[l][f] = r[f]
    BY <1>3, <1>4, <1>5, BecomesKeepsRecords
  <1>7. launcher'[l].session = id
    BY <1>2, <1>6
  <1>8. launcher'[l].started
    BY <1>2, <1>6
  <1> QED
    BY <1>1, <1>2, <1>3, <1>6, <1>7, <1>8

-----------------------------------------------------------------------------
(* The check of the worker's credentials                                   *)

\* Where run is tells whether the check has been made, and its one result is
\* what the workflow keeps.
RunInv ==
  /\ pc \in {"absent", "new", "checking", "waiting"}
  /\ credentials \in {NONE, TRUE, FALSE}
  /\ pc = "checking" => credentials = NONE
  /\ pc = "waiting" => credentials # NONE
  /\ has_key \in BOOLEAN
  /\ checks = IF credentials = NONE THEN <<>> ELSE <<credentials>>

\* A key is kept back by a failed query, or by a result that will not change.
TokenInv ==
  \A l \in Launchers :
    launcher[l].asked # NONE /\ launcher[l].key /\ ~launcher[l].token
    => launcher[l].asked = "failed" \/ credentials = TRUE

CheckInv == LaunchersAreRecords /\ RunInv /\ TokenInv

LEMMA InitLaunchersAreRecords ==
  ASSUME Init
  PROVE  LaunchersAreRecords
  <1>1. \A m, k : /\ DOMAIN Launcher(m, k) = Fields
                  /\ Launcher(m, k).step = "begin"
                  /\ Launcher(m, k).key = k
                  /\ Launcher(m, k).token = FALSE
                  /\ Launcher(m, k).started = FALSE
    BY DEF Launcher, Fields
  <1>2. \A l \in Launchers : \E m : \E k \in BOOLEAN : launcher[l] = Launcher(m, k)
    BY DEF Init
  <1>3. DOMAIN launcher = Launchers /\ DOMAIN started = Launchers
    BY DEF Init
  <1>4. ASSUME NEW l \in Launchers
        PROVE  /\ DOMAIN launcher[l] = Fields
               /\ launcher[l].step \in Steps
               /\ launcher[l].key \in BOOLEAN
               /\ launcher[l].token \in BOOLEAN
               /\ launcher[l].started \in BOOLEAN
    <2>1. PICK m : \E k \in BOOLEAN : launcher[l] = Launcher(m, k)
      BY <1>2
    <2>2. PICK k \in BOOLEAN : launcher[l] = Launcher(m, k)
      BY <2>1
    <2>3. /\ DOMAIN launcher[l] = Fields
          /\ launcher[l].step = "begin"
          /\ launcher[l].key = k
          /\ launcher[l].token = FALSE
          /\ launcher[l].started = FALSE
      BY <1>1, <2>2
    <2> QED
      BY <2>3 DEF Steps
  <1> QED
    BY <1>3, <1>4 DEF LaunchersAreRecords

LEMMA InitChecked ==
  ASSUME Init
  PROVE  CheckInv
  <1>1. RunInv
    BY DEF Init, RunInv
  <1>2. \A m, k : Launcher(m, k).asked = NONE
    BY DEF Launcher
  <1>3. \A l \in Launchers : launcher[l].asked = NONE
    BY <1>2 DEF Init
  <1>4. TokenInv
    BY <1>3 DEF TokenInv
  <1> QED
    BY <1>1, <1>4, InitLaunchersAreRecords DEF CheckInv

\* A step that changes no launcher keeps their shape, and what their keys
\* depend on as long as a check that has found a key is not forgotten.
LEMMA LaunchersStay ==
  ASSUME CheckInv, launcher' = launcher, started' = started,
         credentials = TRUE => credentials' = TRUE
  PROVE  LaunchersAreRecords' /\ TokenInv'
  <1>1. LaunchersAreRecords'
    BY DEF CheckInv, LaunchersAreRecords
  <1>2. TokenInv'
    BY DEF CheckInv, TokenInv
  <1> QED
    BY <1>1, <1>2

LEMMA WorkflowChecked ==
  ASSUME CheckInv, Workflow \/ ReplaceWorker \/ AnySignal
  PROVE  CheckInv'
  <1> USE DEF CheckInv
  <1>1. launcher' = launcher /\ started' = started
    BY DEF Workflow, BeginRun, TakeSignals, CheckCredentials, ContinueAsNew,
           ReplaceWorker, AnySignal
  <1>2. CASE BeginRun \/ TakeSignals \/ ContinueAsNew \/ ReplaceWorker \/ AnySignal
    <2>1. credentials' = credentials /\ checks' = checks
      BY <1>2 DEF BeginRun, TakeSignals, ContinueAsNew, ReplaceWorker, AnySignal,
                  registryVars
    <2>2. \/ pc' = pc
          \/ pc = "new" /\ pc' = IF credentials = NONE THEN "checking" ELSE "waiting"
          \/ pc' = "new"
      BY <1>2 DEF BeginRun, TakeSignals, ContinueAsNew, ReplaceWorker, AnySignal,
                  registryVars
    <2>3. has_key' = has_key \/ has_key' = ~has_key
      BY <1>2 DEF BeginRun, TakeSignals, ContinueAsNew, ReplaceWorker, AnySignal,
                  workerVars
    <2>4. has_key' \in BOOLEAN
      BY <2>3 DEF RunInv
    <2>5. RunInv'
      BY <2>1, <2>2, <2>4 DEF RunInv
    <2> QED
      BY <1>1, <2>1, <2>5, LaunchersStay
  <1>3. CASE CheckCredentials
    <2>1. PICK result \in {has_key, FALSE} :
            credentials' = result /\ checks' = Append(checks, result)
      BY <1>3 DEF CheckCredentials
    <2>2. /\ credentials = NONE /\ checks = <<>> /\ pc' = "waiting"
          /\ has_key' = has_key
      BY <1>3 DEF CheckCredentials, RunInv, workerVars
    <2>3. result \in BOOLEAN /\ credentials # TRUE
      BY <2>2, HarnessAssumption DEF RunInv
    <2>4. checks' = <<result>>
      BY <2>1, <2>2
    <2>5. result # NONE
      BY <2>3, HarnessAssumption
    <2>6. has_key' \in BOOLEAN
      BY <2>2 DEF RunInv
    <2>7. RunInv'
      BY <2>1, <2>2, <2>3, <2>4, <2>5, <2>6 DEF RunInv
    <2> QED
      BY <1>1, <2>3, <2>7, LaunchersStay
  <1> QED
    BY <1>2, <1>3 DEF Workflow


\* A launcher's step that leaves its key and the answer it got alone.
LEMMA AnswerStays ==
  ASSUME CheckInv, NEW l \in Launchers, NEW fs, Changes(l, fs),
         fs \cap {"asked", "key", "token"} = {},
         credentials' = credentials
  PROVE  LaunchersAreRecords' /\ TokenInv'
  <1>1. /\ launcher'[l].asked = launcher[l].asked
        /\ launcher'[l].key = launcher[l].key
        /\ launcher'[l].token = launcher[l].token
    BY DEF Changes, Fields
  <1>2. ASSUME NEW k \in Launchers,
               launcher'[k].asked # NONE, launcher'[k].key, ~launcher'[k].token
        PROVE  launcher'[k].asked = "failed" \/ credentials' = TRUE
    <2>1. CASE k = l
      BY <1>1, <1>2, <2>1 DEF CheckInv, TokenInv
    <2>2. CASE k # l
      <3>1. launcher'[k] = launcher[k]
        BY <2>2 DEF Changes
      <3> QED
        BY <1>2, <3>1 DEF CheckInv, TokenInv
    <2> QED
      BY <2>1, <2>2
  <1>3. TokenInv'
    BY <1>2 DEF TokenInv
  <1> QED
    BY <1>3 DEF Changes

LEMMA QueryChecked ==
  ASSUME CheckInv, NEW l \in Launchers, QueryCredentials(l)
  PROVE  CheckInv'
  <1>1. /\ Changes(l, {"step", "asked", "token"})
        /\ \/ launcher'[l].asked = "failed"
           \/ launcher'[l].asked = CredentialsAvailable
        /\ launcher'[l].token = (NeedsToken(launcher'[l].asked) /\ launcher[l].key)
        /\ UNCHANGED <<registryVars, workerVars, started, taken>>
    BY QueryCredentialsChanges DEF CheckInv
  <1>2. credentials' = credentials /\ pc' = pc /\ checks' = checks /\ has_key' = has_key
    BY <1>1 DEF registryVars, workerVars
  <1>3. launcher'[l].key = launcher[l].key
    BY <1>1 DEF Changes, Fields
  <1>4. ASSUME NEW k \in Launchers,
               launcher'[k].asked # NONE, launcher'[k].key, ~launcher'[k].token
        PROVE  launcher'[k].asked = "failed" \/ credentials' = TRUE
    <2>1. CASE k = l
      <3>1. launcher'[l].asked = CredentialsAvailable /\ credentials # TRUE
            => launcher'[l].token = launcher[l].key
        BY <1>1, HarnessAssumption DEF CredentialsAvailable, NeedsToken,
             CheckInv, LaunchersAreRecords
      <3> QED
        BY <1>1, <1>2, <1>3, <1>4, <2>1, <3>1
    <2>2. CASE k # l
      <3>1. launcher'[k] = launcher[k]
        BY <1>1, <2>2 DEF Changes
      <3> QED
        BY <1>2, <1>4, <3>1 DEF CheckInv, TokenInv
    <2> QED
      BY <2>1, <2>2
  <1>5. TokenInv'
    BY <1>4 DEF TokenInv
  <1>6. RunInv'
    BY <1>2 DEF CheckInv, RunInv
  <1> QED
    BY <1>1, <1>5, <1>6 DEF CheckInv, Changes

LEMMA LaunchChecked ==
  ASSUME CheckInv, NEW l \in Launchers, Launch(l)
  PROVE  CheckInv'
  <1>0. LaunchersAreRecords
    BY DEF CheckInv
  <1>1. CASE QueryCredentials(l)
    BY <1>1, QueryChecked
  <1>2. CASE EnsureHarness(l)
    <2>1. /\ Changes(l, {"step"})
          /\ credentials' = credentials /\ checks' = checks /\ has_key' = has_key
          /\ pc' = pc \/ (pc = "absent" /\ pc' = "new")
      BY <1>0, <1>2, EnsureHarnessChanges DEF workerVars
    <2>2. LaunchersAreRecords' /\ TokenInv'
      BY <2>1, AnswerStays
    <2>3. RunInv'
      BY <2>1 DEF CheckInv, RunInv
    <2> QED
      BY <2>2, <2>3 DEF CheckInv
  <1>3. CASE ~EnsureHarness(l) /\ ~QueryCredentials(l)
    <2>1. /\ credentials' = credentials /\ pc' = pc /\ checks' = checks
          /\ has_key' = has_key
      BY <1>3 DEF Launch, Configure, CliStarts, RegisterWithHarness,
           RegistrationFails, Resume, Submit, SwitchTo, registryVars, workerVars
    <2>2. \E fs : Changes(l, fs) /\ fs \cap {"asked", "key", "token"} = {}
      <3>1. CASE Configure(l)
        BY <1>0, <3>1, ConfigureChanges
      <3>2. CASE CliStarts(l)
        BY <1>0, <3>2, CliStartsChanges
      <3>3. CASE RegisterWithHarness(l) \/ RegistrationFails(l)
        <4>1. Registered(l) /\ started' = started
          BY <3>3 DEF RegisterWithHarness, RegistrationFails
        <4> QED
          BY <1>0, <4>1, RegisteredChanges
      <3>4. CASE Resume(l)
        BY <1>0, <3>4, ResumeChanges
      <3>5. CASE Submit(l)
        BY <1>0, <3>5, SubmitChanges
      <3>6. CASE SwitchTo(l)
        BY <1>0, <3>6, SwitchToChanges
      <3> QED
        BY <1>3, <3>1, <3>2, <3>3, <3>4, <3>5, <3>6 DEF Launch
    <2>3. LaunchersAreRecords' /\ TokenInv'
      BY <2>1, <2>2, AnswerStays
    <2>4. RunInv'
      BY <2>1 DEF CheckInv, RunInv
    <2> QED
      BY <2>3, <2>4 DEF CheckInv
  <1> QED
    BY <1>1, <1>2, <1>3

LEMMA StepChecked ==
  ASSUME CheckInv, [Next]_vars
  PROVE  CheckInv'
  <1>1. CASE Next
    BY <1>1, WorkflowChecked, LaunchChecked DEF Next
  <1>2. CASE UNCHANGED vars
    <2>1. /\ launcher' = launcher /\ started' = started
          /\ credentials' = credentials /\ pc' = pc /\ checks' = checks
          /\ has_key' = has_key
      BY <1>2 DEF vars, registryVars, workerVars
    <2>2. RunInv'
      BY <2>1 DEF CheckInv, RunInv
    <2> QED
      BY <2>1, <2>2, LaunchersStay DEF CheckInv
  <1> QED
    BY <1>1, <1>2

LEMMA CheckInvHolds == Spec => []CheckInv
  BY InitChecked, StepChecked, PTL DEF Spec

\* TokenFollowsCheck: whatever the workers and executions, the harness checks
\* its credentials once (credentials_available, src/src/harness.rs:111), and a
\* TUI that has a key leaves it out of its session's input only if its query
\* failed or that check has found a key (src/src/bin/tui.rs:188).
THEOREM KeysAreKeptBackForAReason == Spec => []TokenFollowsCheck
  <1>1. ASSUME CheckInv
        PROVE  TokenFollowsCheck
    <2>1. checks = IF credentials = NONE THEN <<>> ELSE <<credentials>>
      BY <1>1 DEF CheckInv, RunInv
    <2>2. Len(checks) <= 1
      BY <2>1
    <2>3. NONE # TRUE
      BY HarnessAssumption
    <2>4. credentials = TRUE => checks = <<TRUE>>
      BY <2>1, <2>3
    <2> QED
      BY <1>1, <2>2, <2>4 DEF CheckInv, TokenInv, TokenFollowsCheck
  <1> QED
    BY <1>1, CheckInvHolds, PTL


-----------------------------------------------------------------------------
(* The sessions the registry lists                                         *)

\* The launchers whose sessions may have been registered: a TUI registers its
\* own when it opens, a client once it has started it.
Known ==
  {l \in Launchers :
     \/ launcher[l].mode = "tui" /\ launcher[l].step = "open"
     \/ launcher[l].mode \in Cli /\ launcher[l].step = "done" /\ started[l] # NONE}

\* The entries the registry can ever hold of them.
Listable ==
  UNION {{[session_id |-> l, model |-> launcher[l].input.model, status |-> status] :
            status \in {"Running", "Completed"}} : l \in Known}

\* A launcher has an input once it is configured, a client has started its
\* session before it registers it, a session runs on its launcher's input, and
\* a handle that has not started a session is a TUI's, on its own.
Own(l) ==
  /\ launcher[l].step \in {"configured", "started", "ensured", "queried", "open"} =>
       launcher[l].input # NONE
  /\ launcher[l].mode \in Cli /\ launcher[l].step \in {"started", "ensured", "done"} =>
       started[l] # NONE
  /\ started[l] # NONE =>
       started[l] = launcher[l].input /\ launcher[l].step # "begin"
  /\ launcher[l].step = "open" => launcher[l].mode \in Tui
  /\ launcher[l].step = "open" /\ ~launcher[l].started => launcher[l].session = l

\* What a handle takes to be started was registered or has been started.
Points(l) ==
  launcher[l].step = "open" /\ launcher[l].started =>
    /\ launcher[l].session \in Launchers
    /\ launcher[l].session \in Known \/ started[launcher[l].session] # NONE

\* The registry and all signals are about those sessions, as they were started.
RegistryInv ==
  /\ sessions \in Lists(Listable)
  /\ inbox \in Seq(SignalsOver(Listable))
  /\ taken \in Seq(SignalsOver(Listable))
  /\ pc = "absent" => inbox = <<>> /\ sessions = <<>>
  /\ run \in 0..MaxRuns

ListInv ==
  /\ CheckInv
  /\ \A l \in Launchers : Own(l) /\ Points(l)
  /\ RegistryInv

\* What a step never takes back.
Grows ==
  /\ Known \subseteq Known'
  /\ \A k \in Known : launcher'[k].input = launcher[k].input
  /\ \A k \in Launchers : started[k] # NONE => started'[k] # NONE

LEMMA Advance ==
  ASSUME LaunchersAreRecords, NEW l \in Launchers, NEW fs, Changes(l, fs),
         fs \subseteq Fields \ {"mode"},
         launcher[l].step = "begin" \/ "input" \notin fs,
         l \in Known => launcher'[l].step = launcher[l].step,
         \/ started' = started
         \/ /\ started' = [started EXCEPT ![l] = launcher[l].input]
            /\ launcher[l].input # NONE
  PROVE  /\ Grows
         /\ \A k \in Launchers : k # l => started'[k] = started[k]
         /\ launcher'[l].mode = launcher[l].mode
  <1>1. \A k \in Launchers : /\ started[k] # NONE => started'[k] # NONE
                             /\ k # l => started'[k] = started[k]
    BY DEF LaunchersAreRecords
  <1>2. launcher'[l].mode = launcher[l].mode
    BY DEF Changes, Fields
  <1>3. "input" \notin fs => launcher'[l].input = launcher[l].input
    BY DEF Changes, Fields
  <1>4. ASSUME NEW k \in Known
        PROVE  k \in Known' /\ launcher'[k].input = launcher[k].input
    <2>1. k \in Launchers
      BY DEF Known
    <2>2. CASE k = l
      <3>1. launcher[l].step # "begin"
        BY <2>2 DEF Known
      <3>2. launcher'[l].step = launcher[l].step
        BY <2>2
      <3>3. launcher'[k].input = launcher[k].input
        BY <1>3, <2>2, <3>1
      <3>4. k \in Known'
        BY <1>1, <1>2, <2>1, <2>2, <3>2 DEF Known
      <3> QED
        BY <3>3, <3>4
    <2>3. CASE k # l
      <3>1. launcher'[k] = launcher[k]
        BY <2>1, <2>3 DEF Changes
      <3>2. k \in Known'
        BY <1>1, <2>1, <3>1 DEF Known
      <3> QED
        BY <3>1, <3>2
    <2> QED
      BY <2>2, <2>3
  <1> QED
    BY <1>1, <1>2, <1>4 DEF Grows

\* One step of a launcher keeps its own facts, and takes nothing back.
LEMMA LauncherAdvances ==
  ASSUME LaunchersAreRecords, NEW l \in Launchers, Own(l), Launch(l)
  PROVE  /\ Grows /\ Own(l)'
         /\ \A k \in Launchers : k # l =>
              launcher'[k] = launcher[k] /\ started'[k] = started[k]
  <1>1. CASE Configure(l)
    <2>1. /\ Changes(l, {"step", "input", "choice"})
          /\ launcher[l].step = "begin"
          /\ launcher[l].mode # "list"
          /\ launcher'[l].step \in {"configured", "exited"}
          /\ launcher'[l].step = "configured" => launcher'[l].input # NONE
          /\ started' = started
      BY <1>1, ConfigureChanges
    <2>2. l \notin Known
      BY <2>1 DEF Known
    <2>3. /\ Grows /\ launcher'[l].mode = launcher[l].mode
          /\ \A k \in Launchers : k # l => started'[k] = started[k]
      BY <2>1, <2>2, Advance DEF Fields
    <2>4. started'[l] = NONE
      BY <2>1 DEF Own
    <2>5. Own(l)'
      BY <2>1, <2>4 DEF Own
    <2> QED
      BY <2>1, <2>3, <2>5 DEF Changes
  <1>2. CASE CliStarts(l)
    <2>1. /\ Changes(l, {"step"})
          /\ launcher[l].step = "configured"
          /\ launcher[l].mode \in Cli
          /\ launcher'[l].step \in {"started", "exited"}
          /\ \/ started' = [started EXCEPT ![l] = launcher[l].input]
             \/ started' = started /\ launcher'[l].step = "exited"
      BY <1>2, CliStartsChanges
    <2>2. l \notin Known /\ launcher[l].input # NONE
      BY <2>1 DEF Known, Own
    <2>3. /\ Grows /\ launcher'[l].mode = launcher[l].mode
          /\ \A k \in Launchers : k # l => started'[k] = started[k]
      BY <2>1, <2>2, Advance DEF Fields
    <2>4. launcher'[l].input = launcher[l].input
      BY <2>1 DEF Changes, Fields
    <2>5. \/ started'[l] = launcher[l].input
          \/ started'[l] = started[l] /\ launcher'[l].step = "exited"
      BY <2>1 DEF LaunchersAreRecords
    <2>6. Own(l)'
      BY <2>1, <2>2, <2>3, <2>4, <2>5 DEF Own
    <2> QED
      BY <2>1, <2>3, <2>6 DEF Changes
  <1>3. CASE EnsureHarness(l)
    <2>1. /\ Changes(l, {"step"})
          /\ \/ launcher[l].step = "configured" /\ launcher[l].mode \in Tui
             \/ launcher[l].step = "started" /\ launcher[l].mode \in Cli
             \/ launcher[l].step = "begin" /\ launcher[l].mode = "list"
          /\ launcher'[l].step \in {"exited", "done", "ensured"}
          /\ launcher'[l].step = "done" => launcher[l].mode = "list"
          /\ launcher'[l].step = "ensured" => launcher[l].mode # "list"
          /\ started' = started
      BY <1>3, EnsureHarnessChanges
    <2>2. l \notin Known
      BY <2>1 DEF Known
    <2>3. /\ Grows /\ launcher'[l].mode = launcher[l].mode
          /\ \A k \in Launchers : k # l => started'[k] = started[k]
      BY <2>1, <2>2, Advance DEF Fields
    <2>4. launcher'[l].input = launcher[l].input
      BY <2>1 DEF Changes, Fields
    <2>5. Own(l)'
      BY <2>1, <2>3, <2>4 DEF Own, Tui, Cli
    <2> QED
      BY <2>1, <2>3, <2>5 DEF Changes
  <1>4. CASE QueryCredentials(l)
    <2>1. /\ Changes(l, {"step", "asked", "token"})
          /\ launcher[l].step = "ensured"
          /\ launcher[l].mode \in Tui
          /\ launcher'[l].step = "queried"
          /\ started' = started
      BY <1>4, QueryCredentialsChanges
    <2>2. l \notin Known
      BY <2>1 DEF Known
    <2>3. /\ Grows /\ launcher'[l].mode = launcher[l].mode
          /\ \A k \in Launchers : k # l => started'[k] = started[k]
      BY <2>1, <2>2, Advance DEF Fields
    <2>4. launcher'[l].input = launcher[l].input
      BY <2>1 DEF Changes, Fields
    <2>5. Own(l)'
      BY <2>1, <2>3, <2>4 DEF Own
    <2> QED
      BY <2>1, <2>3, <2>5 DEF Changes
  <1>5. CASE Registering(l) /\ Registered(l) /\ started' = started
    <2>1. \/ launcher[l].mode = "tui" /\ launcher[l].step = "queried"
          \/ launcher[l].mode \in Cli /\ launcher[l].step = "ensured"
      BY <1>5 DEF Registering, At
    <2>2. /\ launcher[l].mode = "tui" =>
               /\ Changes(l, {"step", "session"})
               /\ launcher'[l].step = "open"
               /\ launcher'[l].session = l
          /\ launcher[l].mode # "tui" =>
               /\ Changes(l, {"step"})
               /\ launcher'[l].step = "done"
      BY <1>5, RegisteredChanges
    <2>3. l \notin Known
      BY <2>1 DEF Known, Cli
    <2>4. PICK fs : Changes(l, fs) /\ fs \subseteq {"step", "session"}
      BY <2>2
    <2>5. /\ Grows /\ launcher'[l].mode = launcher[l].mode
          /\ \A k \in Launchers : k # l => started'[k] = started[k]
      BY <1>5, <2>3, <2>4, Advance DEF Fields
    <2>6. launcher'[l].input = launcher[l].input
      BY <2>4 DEF Changes, Fields
    <2>7. Own(l)'
      BY <1>5, <2>1, <2>2, <2>5, <2>6 DEF Own, Tui, Cli
    <2> QED
      BY <2>4, <2>5, <2>7 DEF Changes
  <1>6. CASE Resume(l)
    <2>1. /\ Changes(l, {"step", "session", "started"})
          /\ launcher[l].step = "queried"
          /\ launcher[l].mode = "resume"
          /\ launcher'[l].step \in {"open", "exited"}
          /\ launcher'[l].started
          /\ started' = started
      BY <1>6, ResumeChanges
    <2>2. l \notin Known
      BY <2>1 DEF Known
    <2>3. /\ Grows /\ launcher'[l].mode = launcher[l].mode
          /\ \A k \in Launchers : k # l => started'[k] = started[k]
      BY <2>1, <2>2, Advance DEF Fields
    <2>4. launcher'[l].input = launcher[l].input
      BY <2>1 DEF Changes, Fields
    <2>5. Own(l)'
      BY <2>1, <2>3, <2>4 DEF Own, Tui, Cli
    <2> QED
      BY <2>1, <2>3, <2>5 DEF Changes
  <1>7. CASE Submit(l)
    <2>1. /\ Changes(l, {"started"})
          /\ launcher[l].step = "open"
          /\ ~launcher[l].started
          /\ started' = [started EXCEPT ![launcher[l].session] = launcher[l].input]
      BY <1>7, SubmitChanges
    <2>2. launcher[l].session = l /\ launcher[l].input # NONE
      BY <2>1 DEF Own
    <2>3. /\ launcher'[l].input = launcher[l].input
          /\ launcher'[l].step = launcher[l].step
          /\ launcher'[l].session = launcher[l].session
      BY <2>1 DEF Changes, Fields
    <2>4. started' = [started EXCEPT ![l] = launcher[l].input]
      BY <2>1, <2>2
    <2>5. /\ Grows /\ launcher'[l].mode = launcher[l].mode
          /\ \A k \in Launchers : k # l => started'[k] = started[k]
      BY <2>1, <2>2, <2>3, <2>4, Advance DEF Fields
    <2>6. started'[l] = launcher[l].input
      BY <2>4 DEF LaunchersAreRecords
    <2>7. Own(l)'
      BY <2>1, <2>2, <2>3, <2>5, <2>6 DEF Own
    <2> QED
      BY <2>1, <2>5, <2>7 DEF Changes
  <1>8. CASE SwitchTo(l)
    <2>1. /\ Changes(l, {"session", "started"})
          /\ launcher[l].step = "open"
          /\ launcher'[l].started
          /\ started' = started
      BY <1>8, SwitchToChanges
    <2>2. /\ launcher'[l].input = launcher[l].input
          /\ launcher'[l].step = launcher[l].step
      BY <2>1 DEF Changes, Fields
    <2>3. /\ Grows /\ launcher'[l].mode = launcher[l].mode
          /\ \A k \in Launchers : k # l => started'[k] = started[k]
      BY <2>1, <2>2, Advance DEF Fields
    <2>4. Own(l)'
      BY <2>1, <2>2, <2>3 DEF Own
    <2> QED
      BY <2>1, <2>3, <2>4 DEF Changes
  <1>9. RegisterWithHarness(l) \/ RegistrationFails(l) =>
          Registering(l) /\ Registered(l) /\ started' = started
    BY DEF RegisterWithHarness, RegistrationFails
  <1> QED
    BY <1>1, <1>2, <1>3, <1>4, <1>5, <1>6, <1>7, <1>8, <1>9 DEF Launch


LEMMA ListableEntries ==
  /\ Entries(Listable)
  /\ \A e \in Listable : e.session_id \in Known
  /\ \A l \in Known : \E e \in Listable : e.session_id = l
  /\ \A l \in Known : Entry(l) \in Listable
  <1> DEFINE Of(l, status) == [session_id |-> l, model |-> launcher[l].input.model,
                               status |-> status]
  <1>1. /\ \A e \in Listable : \E l \in Known : \E status \in {"Running", "Completed"} :
             e = Of(l, status)
        /\ \A l \in Known : \A status \in {"Running", "Completed"} :
             Of(l, status) \in Listable
    BY DEF Listable
  <1>2. \A l, status : /\ Of(l, status).session_id = l
                       /\ [Of(l, status) EXCEPT !.status = "Completed"] = Of(l, "Completed")
    OBVIOUS
  <1>3. \A l : Entry(l) = Of(l, "Running")
    BY DEF Entry
  <1> HIDE DEF Of
  <1>4. Entries(Listable)
    BY <1>1, <1>2 DEF Entries
  <1> QED
    BY <1>1, <1>2, <1>3, <1>4

LEMMA ListableGrows ==
  ASSUME Grows
  PROVE  Listable \subseteq Listable'
  <1>1. ASSUME NEW e \in Listable
        PROVE  e \in Listable'
    <2>1. PICK l \in Known, status \in {"Running", "Completed"} :
            e = [session_id |-> l, model |-> launcher[l].input.model, status |-> status]
      BY DEF Listable
    <2>2. l \in Known' /\ launcher'[l].input = launcher[l].input
      BY DEF Grows
    <2>3. e = [session_id |-> l, model |-> launcher'[l].input.model, status |-> status]
      BY <2>1, <2>2
    <2> QED
      BY <2>2, <2>3 DEF Listable
  <1> QED
    BY <1>1

LEMMA MoreEntries ==
  ASSUME NEW E, NEW F, E \subseteq F
  PROVE  /\ Lists(E) \subseteq Lists(F)
         /\ Seq(SignalsOver(E)) \subseteq Seq(SignalsOver(F))
  <1>1. Seq(E) \subseteq Seq(F)
    BY SeqDef
  <1>2. SignalsOver(E) \subseteq SignalsOver(F)
    BY DEF SignalsOver
  <1>3. Seq(SignalsOver(E)) \subseteq Seq(SignalsOver(F))
    BY <1>2, SeqDef
  <1> QED
    BY <1>1, <1>3 DEF Lists

\* A step that changes nothing of the registry but where run is.
LEMMA RegistryStays ==
  ASSUME RegistryInv, Grows, UNCHANGED <<sessions, inbox, run, taken>>,
         pc' = pc \/ pc' # "absent"
  PROVE  RegistryInv'
  <1>1. PICK E, F : E = Listable /\ F = Listable'
    OBVIOUS
  <1>2. E \subseteq F
    BY <1>1, ListableGrows
  <1>3. Lists(E) \subseteq Lists(F) /\ Seq(SignalsOver(E)) \subseteq Seq(SignalsOver(F))
    BY <1>2, MoreEntries
  <1>4. sessions \in Lists(E) /\ inbox \in Seq(SignalsOver(E)) /\ taken \in Seq(SignalsOver(E))
    BY <1>1 DEF RegistryInv
  <1>5. sessions' \in Lists(F) /\ inbox' \in Seq(SignalsOver(F)) /\ taken' \in Seq(SignalsOver(F))
    BY <1>3, <1>4
  <1> QED
    BY <1>1, <1>5 DEF RegistryInv

\* A step that handles the signals that wait.
LEMMA HandlingKeepsRegistry ==
  ASSUME RegistryInv, HandleSignals, UNCHANGED <<launcher, started, taken>>,
         run' \in 0..MaxRuns, pc' # "absent"
  PROVE  RegistryInv'
  <1>1. Listable' = Listable
    BY DEF Listable, Known
  <1>2. sessions' \in Lists(Listable)
    BY HandleAllLists, ListableEntries DEF RegistryInv, HandleSignals
  <1>3. inbox' = <<>> /\ inbox' \in Seq(SignalsOver(Listable))
    BY DEF HandleSignals
  <1> QED
    BY <1>1, <1>2, <1>3 DEF RegistryInv

\* A step by which the server takes a signal.
LEMMA DeliveryKeepsRegistry ==
  ASSUME RegistryInv, Grows, NEW signal, signal \in SignalsOver(Listable'),
         Deliver(signal), UNCHANGED <<sessions, pc, run>>
  PROVE  RegistryInv'
  <1>1. PICK E, F : E = Listable /\ F = Listable'
    OBVIOUS
  <1>2. E \subseteq F
    BY <1>1, ListableGrows
  <1>3. Lists(E) \subseteq Lists(F) /\ Seq(SignalsOver(E)) \subseteq Seq(SignalsOver(F))
    BY <1>2, MoreEntries
  <1>4. sessions \in Lists(E) /\ inbox \in Seq(SignalsOver(E)) /\ taken \in Seq(SignalsOver(E))
    BY <1>1 DEF RegistryInv
  <1>5. inbox \in Seq(SignalsOver(F)) /\ taken \in Seq(SignalsOver(F))
        /\ signal \in SignalsOver(F)
    BY <1>1, <1>3, <1>4
  <1>6. /\ inbox' = Append(inbox, signal) /\ taken' = Append(taken, signal)
        /\ pc # "absent" /\ pc' = pc /\ run' = run /\ sessions' = sessions
    BY DEF Deliver
  <1>7. inbox' \in Seq(SignalsOver(F)) /\ taken' \in Seq(SignalsOver(F))
    BY <1>5, <1>6
  <1>8. sessions' \in Lists(F)
    BY <1>3, <1>4, <1>6
  <1> QED
    BY <1>1, <1>6, <1>7, <1>8 DEF RegistryInv

\* The sessions of the signals are those of known launchers.
LEMMA SignalsAreOfKnown ==
  ASSUME NEW signal \in SignalsOver(Listable)
  PROVE  /\ signal.session_id \in Known
         /\ \E e \in Listable : e.session_id = signal.session_id
  <1>1. PICK e \in Listable : \/ signal = Registration(e)
                              \/ signal = StatusUpdate(e.session_id, "Completed")
                              \/ signal = Removal(e.session_id)
    BY DEF SignalsOver
  <1>2. signal.session_id = e.session_id
    BY <1>1 DEF Registration, StatusUpdate, Removal
  <1> QED
    BY <1>2, ListableEntries

LEMMA WorkflowKeepsList ==
  ASSUME ListInv, Workflow \/ ReplaceWorker \/ AnySignal
  PROVE  ListInv'
  <1>1. CheckInv'
    BY WorkflowChecked DEF ListInv
  <1>2. launcher' = launcher /\ started' = started
    BY DEF Workflow, BeginRun, TakeSignals, CheckCredentials, ContinueAsNew,
           ReplaceWorker, AnySignal
  <1>3. Known' = Known /\ Listable' = Listable /\ Grows
    BY <1>2 DEF Known, Listable, Grows
  <1>4. \A l \in Launchers : Own(l)' /\ Points(l)'
    BY <1>2, <1>3 DEF ListInv, Own, Points
  <1>5. RegistryInv'
    <2>1. CASE Workflow
      <3>1. HandleSignals /\ UNCHANGED <<launcher, started, taken>> /\ pc' # "absent"
        BY <2>1 DEF Workflow, BeginRun, TakeSignals, CheckCredentials, ContinueAsNew
      <3>2. run' = run \/ (run < MaxRuns /\ run' = run + 1)
        BY <2>1 DEF Workflow, BeginRun, TakeSignals, CheckCredentials, ContinueAsNew
      <3>3. run' \in 0..MaxRuns
        BY <3>2, HarnessAssumption DEF ListInv, RegistryInv
      <3> QED
        BY <3>1, <3>3, HandlingKeepsRegistry DEF ListInv
    <2>2. CASE ReplaceWorker
      BY <1>3, <2>2, RegistryStays DEF ListInv, ReplaceWorker, registryVars
    <2>3. CASE AnySignal
      <3>1. PICK i \in DOMAIN taken :
              \/ Deliver(Registration(Entry(taken[i].session_id)))
              \/ Deliver(Removal(taken[i].session_id))
              \/ Deliver(StatusUpdate(taken[i].session_id, "Completed"))
        BY <2>3 DEF AnySignal
      <3>2. taken[i] \in SignalsOver(Listable)
        BY DEF ListInv, RegistryInv
      <3>3. PICK l \in Known : l = taken[i].session_id
        BY <3>2, SignalsAreOfKnown
      <3>4. PICK e \in Listable : e.session_id = l
        BY <3>3, ListableEntries
      <3>5. /\ Registration(Entry(l)) \in SignalsOver(Listable)
            /\ Removal(l) \in SignalsOver(Listable)
            /\ StatusUpdate(l, "Completed") \in SignalsOver(Listable)
        <4>1. Entry(l) \in Listable
          BY ListableEntries
        <4> QED
          BY <3>4, <4>1 DEF SignalsOver
      <3>6. PICK signal \in SignalsOver(Listable) : Deliver(signal)
        BY <3>1, <3>3, <3>5
      <3>7. UNCHANGED <<sessions, pc, run>>
        BY <2>3 DEF AnySignal
      <3> QED
        BY <1>3, <3>6, <3>7, DeliveryKeepsRegistry DEF ListInv
    <2> QED
      BY <2>1, <2>2, <2>3
  <1> QED
    BY <1>1, <1>4, <1>5 DEF ListInv

LEMMA LaunchKeepsList ==
  ASSUME ListInv, NEW l \in Launchers, Launch(l)
  PROVE  ListInv'
  <1>1. CheckInv' /\ LaunchersAreRecords
    BY LaunchChecked DEF ListInv, CheckInv
  <1>2. /\ Grows /\ Own(l)'
        /\ \A k \in Launchers : k # l =>
             launcher'[k] = launcher[k] /\ started'[k] = started[k]
    BY <1>1, LauncherAdvances DEF ListInv
  <1>3. \A k \in Launchers : Own(k)'
    <2>1. ASSUME NEW k \in Launchers, k # l
          PROVE  Own(k)'
      BY <1>2, <2>1 DEF ListInv, Own
    <2> QED
      BY <1>2, <2>1
  <1>4. /\ Known \subseteq Known'
        /\ \A k \in Launchers : started[k] # NONE => started'[k] # NONE
    BY <1>2 DEF Grows
  <1>5. ASSUME NEW k \in Launchers
        PROVE  Points(k)'
    <2>1. CASE k # l
      BY <1>2, <1>4, <2>1 DEF ListInv, Points
    <2>2. CASE k = l
      <3>1. CASE Resume(l)
        BY <1>1, <1>4, <2>2, <3>1, ResumeChanges DEF Points
      <3>2. CASE SwitchTo(l)
        <4>1. launcher'[l].session \in EverListed
          BY <1>1, <3>2, SwitchToChanges
        <4>2. PICK i \in Handled : launcher'[l].session = taken[i].session_id
          BY <4>1 DEF EverListed
        <4>3. taken \in Seq(SignalsOver(Listable)) /\ Len(inbox) \in Nat
          BY DEF ListInv, RegistryInv
        <4>4. i \in 1..Len(taken)
          BY <4>3 DEF Handled
        <4>5. taken[i] \in SignalsOver(Listable)
          BY <4>3, <4>4
        <4>6. launcher'[l].session \in Known
          BY <4>2, <4>5, SignalsAreOfKnown
        <4>7. Known \subseteq Launchers
          BY DEF Known
        <4> QED
          BY <1>4, <2>2, <4>6, <4>7 DEF Points
      <3>3. CASE Submit(l)
        <4>1. /\ launcher[l].session = l /\ launcher[l].input # NONE
              /\ launcher'[l].session = launcher[l].session
              /\ started' = [started EXCEPT ![l] = launcher[l].input]
          BY <1>1, <3>3, SubmitChanges DEF ListInv, Own, Changes, Fields
        <4>2. started'[l] # NONE
          BY <1>1, <4>1 DEF LaunchersAreRecords
        <4> QED
          BY <2>2, <4>1, <4>2 DEF Points
      <3>4. CASE RegisterWithHarness(l) \/ RegistrationFails(l)
        <4>1. Registered(l) /\ started' = started
          BY <3>4 DEF RegisterWithHarness, RegistrationFails
        <4>2. \/ /\ launcher[l].mode = "tui"
                 /\ Changes(l, {"step", "session"})
                 /\ launcher'[l].step = "open"
                 /\ launcher'[l].session = l
              \/ launcher'[l].step = "done"
          BY <1>1, <4>1, RegisteredChanges
        <4>3. launcher[l].mode = "tui" /\ Changes(l, {"step", "session"}) =>
                launcher'[l].mode = "tui"
          BY DEF Changes, Fields
        <4>4. launcher'[l].step = "open" => l \in Known' /\ launcher'[l].session = l
          BY <4>2, <4>3 DEF Known
        <4> QED
          BY <2>2, <4>4 DEF Points
      <3>5. CASE Configure(l) \/ CliStarts(l) \/ EnsureHarness(l) \/ QueryCredentials(l)
        <4>1. launcher'[l].step # "open"
          BY <1>1, <3>5, ConfigureChanges, CliStartsChanges, EnsureHarnessChanges,
             QueryCredentialsChanges
        <4> QED
          BY <2>2, <4>1 DEF Points
      <3> QED
        BY <3>1, <3>2, <3>3, <3>4, <3>5 DEF Launch
    <2> QED
      BY <2>1, <2>2
  <1>6. RegistryInv'
    <2>1. CASE RegisterWithHarness(l)
      <3>1. /\ Deliver(Registration(Entry(l))) /\ Registered(l) /\ Registering(l)
            /\ UNCHANGED <<sessions, pc, run>> /\ started' = started
        BY <2>1 DEF RegisterWithHarness
      <3>2. /\ launcher[l].mode = "tui" =>
                 /\ Changes(l, {"step", "session"})
                 /\ launcher'[l].step = "open"
            /\ launcher[l].mode # "tui" =>
                 /\ Changes(l, {"step"})
                 /\ launcher'[l].step = "done"
        BY <1>1, <3>1, RegisteredChanges
      <3>3. launcher'[l].mode = launcher[l].mode /\ launcher'[l].input = launcher[l].input
        BY <3>2 DEF Changes, Fields
      <3>4. \/ launcher[l].mode = "tui"
            \/ /\ launcher[l].mode \in Cli /\ launcher[l].mode # "tui"
               /\ started[l] # NONE
        BY <3>1 DEF Registering, At, ListInv, Own, Cli
      <3>5. l \in Known'
        BY <1>4, <3>2, <3>3, <3>4 DEF Known
      <3>6. Entry(l)' \in Listable'
        <4>1. \A k \in Known' : Entry(k)' \in Listable'
          BY DEF Listable, Entry
        <4> QED
          BY <3>5, <4>1
      <3>7. Entry(l)' = Entry(l)
        BY <3>3 DEF Entry
      <3>8. Registration(Entry(l)) \in SignalsOver(Listable')
        BY <3>6, <3>7 DEF SignalsOver
      <3> QED
        BY <1>2, <3>1, <3>8, DeliveryKeepsRegistry DEF ListInv
    <2>2. CASE EnsureHarness(l)
      <3>1. UNCHANGED <<sessions, inbox, run, taken>> /\ (pc' = pc \/ pc' # "absent")
        BY <1>1, <2>2, EnsureHarnessChanges
      <3> QED
        BY <1>2, <3>1, RegistryStays DEF ListInv
    <2>3. CASE ~RegisterWithHarness(l) /\ ~EnsureHarness(l)
      <3>1. UNCHANGED <<sessions, inbox, run, taken, pc>>
        BY <2>3 DEF Launch, Configure, CliStarts, QueryCredentials,
             RegistrationFails, Resume, Submit, SwitchTo, registryVars
      <3> QED
        BY <1>2, <3>1, RegistryStays DEF ListInv
    <2> QED
      BY <2>1, <2>2, <2>3
  <1> QED
    BY <1>1, <1>3, <1>5, <1>6 DEF ListInv


LEMMA InitLists ==
  ASSUME Init
  PROVE  ListInv
  <1>1. CheckInv /\ LaunchersAreRecords
    BY InitChecked DEF CheckInv
  <1>2. \A l \in Launchers : launcher[l].step = "begin" /\ started[l] = NONE
    <2>1. \A m, k : Launcher(m, k).step = "begin"
      BY DEF Launcher
    <2> QED
      BY <2>1 DEF Init
  <1>3. \A l \in Launchers : Own(l) /\ Points(l)
    BY <1>2 DEF Own, Points
  <1>4. RegistryInv
    <2>1. <<>> \in Lists(Listable)
      BY DEF Lists
    <2>2. <<>> \in Seq(SignalsOver(Listable))
      OBVIOUS
    <2> QED
      BY <2>1, <2>2, HarnessAssumption DEF Init, RegistryInv
  <1> QED
    BY <1>1, <1>3, <1>4 DEF ListInv

LEMMA ListInvHolds == Spec => []ListInv
  <1>1. Init => ListInv
    BY InitLists
  <1>2. ListInv /\ [Next]_vars => ListInv'
    <2>1. CASE ListInv /\ Next
      BY <2>1, WorkflowKeepsList, LaunchKeepsList DEF Next
    <2>2. CASE ListInv /\ UNCHANGED vars
      <3>1. UNCHANGED <<sessions, inbox, run, taken, pc, launcher, started>>
        BY <2>2 DEF vars, registryVars, workerVars
      <3>2. Known' = Known /\ Grows
        BY <3>1 DEF Known, Grows
      <3>3. CheckInv'
        BY <2>2, StepChecked DEF ListInv
      <3>4. \A l \in Launchers : Own(l)' /\ Points(l)'
        BY <2>2, <3>1, <3>2 DEF ListInv, Own, Points
      <3>5. RegistryInv'
        BY <2>2, <3>1, <3>2, RegistryStays DEF ListInv
      <3> QED
        BY <3>3, <3>4, <3>5 DEF ListInv
    <2> QED
      BY <2>1, <2>2
  <1> QED
    BY <1>1, <1>2, PTL DEF Spec

\* What the listed entries are, of the list's type.
LEMMA ListedEntries ==
  ASSUME ListInv, NEW i \in DOMAIN sessions
  PROVE  \E l \in Known : /\ l \in Launchers
                          /\ sessions[i].session_id = l
                          /\ sessions[i].model = launcher[l].input.model
                          /\ sessions[i].status \in {"Running", "Completed"}
  <1>1. sessions \in Seq(Listable)
    BY DEF ListInv, RegistryInv, Lists
  <1>2. sessions[i] \in Listable
    BY <1>1
  <1>3. PICK l \in Known, status \in {"Running", "Completed"} :
          sessions[i] = [session_id |-> l, model |-> launcher[l].input.model,
                         status |-> status]
    BY <1>2 DEF Listable
  <1>4. /\ sessions[i].session_id = l
        /\ sessions[i].model = launcher[l].input.model
        /\ sessions[i].status = status
    BY <1>3
  <1> QED
    BY <1>4 DEF Known

\* TypeOK, and with it that the registry never lists a session twice
\* (register_session, src/src/harness.rs:53, replaces the entry that is there).
THEOREM HarnessTypes == Spec => []TypeOK
  <1>1. ASSUME ListInv
        PROVE  TypeOK
    <2>1. \A i, j \in DOMAIN sessions :
            sessions[i].session_id = sessions[j].session_id => i = j
      BY <1>1 DEF ListInv, RegistryInv, Lists
    <2>2. \A i \in DOMAIN sessions :
            /\ sessions[i].session_id \in Launchers
            /\ sessions[i].status \in {"Running", "Completed", "Failed"}
      BY <1>1, ListedEntries
    <2>3. /\ RunInv
          /\ pc = "absent" => inbox = <<>> /\ sessions = <<>>
          /\ run \in 0..MaxRuns
          /\ \A l \in Launchers : launcher[l].step \in Steps
      BY <1>1 DEF ListInv, CheckInv, RegistryInv, LaunchersAreRecords
    <2> QED
      BY <2>1, <2>2, <2>3 DEF TypeOK, RunInv, Steps
  <1> QED
    BY <1>1, ListInvHolds, PTL

\* ListedAsStarted: the model that is listed is the one the session was started
\* with, although the entry is put together by the launcher (src/src/bin/tui.rs
\* and client.rs) and the session starts before or after it; what was never
\* started, but is listed or held as started by a handle
\* (src/src/session.rs:655), is a TUI's session that waits for its first turn.
THEOREM ListingsTellTheModel == Spec => []ListedAsStarted
  <1>1. ASSUME ListInv
        PROVE  ListedAsStarted
    <2>1. ASSUME NEW l \in Known, started[l] = NONE
          PROVE  launcher[l].mode = "tui"
      BY <2>1 DEF Known
    <2>2. ASSUME NEW i \in DOMAIN sessions
          PROVE  IF started[sessions[i].session_id] = NONE
                 THEN launcher[sessions[i].session_id].mode = "tui"
                 ELSE sessions[i].model = started[sessions[i].session_id].model
      <3>1. PICK l \in Known : /\ l \in Launchers
                               /\ sessions[i].session_id = l
                               /\ sessions[i].model = launcher[l].input.model
        BY <1>1, ListedEntries
      <3>2. started[l] # NONE => started[l] = launcher[l].input
        BY <1>1, <3>1 DEF ListInv, Own
      <3> QED
        BY <2>1, <3>1, <3>2
    <2>3. ASSUME NEW l \in Launchers, launcher[l].step = "open", launcher[l].started,
                 started[launcher[l].session] = NONE
          PROVE  launcher[launcher[l].session].mode = "tui"
      BY <1>1, <2>1, <2>3 DEF ListInv, Points
    <2> QED
      BY <2>2, <2>3 DEF ListedAsStarted
  <1> QED
    BY <1>1, ListInvHolds, PTL

-----------------------------------------------------------------------------
(* The registry as a function of its signals                               *)

\* Enters, Current and RegistryIsHistory of the first n of the signals t.
SameSession(t, j, k) == t[j].session_id = t[k].session_id

EntersAt(t, n, k) ==
  /\ t[k].kind = "register"
  /\ \A m \in 1..n : m > k /\ SameSession(t, m, k) => t[m].kind # "remove"
  /\ \A j \in 1..(k - 1) : SameSession(t, j, k) /\ t[j].kind = "register" =>
       \E m \in j..k : SameSession(t, m, k) /\ t[m].kind = "remove"

Registrations(t, n, k) ==
  {m \in 1..n : SameSession(t, m, k) /\ t[m].kind = "register"}

UpdatesAfter(t, n, k, register) ==
  {m \in 1..n : m > register /\ SameSession(t, m, k) /\ t[m].kind = "update"}

CurrentAt(t, n, k) ==
  LET register == LastOf(Registrations(t, n, k))
      updates == UpdatesAfter(t, n, k, register)
  IN IF updates = {} THEN t[register].entry
     ELSE [t[register].entry EXCEPT !.status = t[LastOf(updates)].status]

\* entered tells for each entry of list which of the signals has entered it.
Explains(entered, list, t, n) ==
  /\ entered \in [DOMAIN list -> 1..n]
  /\ \A i, j \in DOMAIN list : i < j => entered[i] < entered[j]
  /\ {entered[i] : i \in DOMAIN list} = {k \in 1..n : EntersAt(t, n, k)}
  /\ \A i \in DOMAIN list : list[i] = CurrentAt(t, n, entered[i])

IsHistory(list, t, n) == \E entered : Explains(entered, list, t, n)

\* A set of numbers up to n has a greatest one.
LEMMA GreatestNumber ==
  ASSUME NEW n \in Nat, NEW T \in SUBSET (1..n), T # {}
  PROVE  \E k \in T : \A j \in T : j <= k
  <1> DEFINE U == {n - k : k \in T}
  <1>1. U \in SUBSET Nat /\ U # {}
    <2>1. \A k \in T : k \in Nat /\ k <= n
      OBVIOUS
    <2>2. \A k \in T : n - k \in Nat
      BY <2>1
    <2>3. PICK k \in T : TRUE
      OBVIOUS
    <2>4. n - k \in U
      OBVIOUS
    <2> QED
      BY <2>2, <2>4
  <1>2. PICK u \in U : \A v \in U : u <= v
    <2> HIDE DEF U
    <2> QED
      BY <1>1, LeastNumber
  <1>3. PICK k \in T : u = n - k
    BY <1>2
  <1>4. ASSUME NEW j \in T
        PROVE  j <= k
    <2>1. n - j \in U /\ j \in 1..n /\ k \in 1..n
      OBVIOUS
    <2> QED
      BY <1>2, <1>3, <2>1
  <1> QED
    BY <1>4

LEMMA LastOfIs ==
  ASSUME NEW ks \in SUBSET Nat, NEW k \in ks, \A j \in ks : j <= k
  PROVE  LastOf(ks) = k
  <1> DEFINE last == LastOf(ks)
  <1>1. last \in ks /\ \A j \in ks : j <= last
    BY DEF LastOf
  <1>2. last \in Nat /\ k \in Nat
    BY <1>1
  <1>3. last <= k /\ k <= last
    BY <1>1
  <1> HIDE DEF last
  <1>4. last = k
    BY <1>2, <1>3
  <1> QED
    BY <1>4 DEF last

\* The last registration of a session that has one.
LEMMA LastRegistration ==
  ASSUME NEW t, NEW n \in Nat, NEW k \in 1..n, t[k].kind = "register"
  PROVE  /\ LastOf(Registrations(t, n, k)) \in Registrations(t, n, k)
         /\ LastOf(Registrations(t, n, k)) \in 1..n
  <1> DEFINE T == Registrations(t, n, k)
  <1>1. T \in SUBSET (1..n) /\ k \in T
    BY DEF Registrations, SameSession
  <1> HIDE DEF T
  <1>2. PICK m \in T : \A j \in T : j <= m
    BY <1>1, GreatestNumber
  <1>3. LastOf(T) = m
    BY <1>1, <1>2, LastOfIs
  <1>4. LastOf(T) \in T /\ LastOf(T) \in 1..n
    BY <1>1, <1>2, <1>3
  <1> QED
    BY <1>4 DEF T

\* What a signal is, by its kind.
LEMMA SignalKinds ==
  ASSUME NEW E, NEW signal \in SignalsOver(E)
  PROVE  /\ signal.kind \in {"register", "update", "remove"}
         /\ signal.kind = "register" =>
              signal.entry \in E /\ signal.entry.session_id = signal.session_id
         /\ signal.kind = "update" => signal.status = "Completed"
  <1>1. CASE signal \in {Registration(e) : e \in E}
    <2>1. PICK e \in E : signal = Registration(e)
      BY <1>1
    <2>2. signal.kind = "register" /\ signal.entry = e /\ signal.session_id = e.session_id
      BY <2>1 DEF Registration
    <2> QED
      BY <2>2
  <1>2. CASE signal \in {StatusUpdate(e.session_id, "Completed") : e \in E}
    BY <1>2 DEF StatusUpdate
  <1>3. CASE signal \in {Removal(e.session_id) : e \in E}
    BY <1>3 DEF Removal
  <1> QED
    BY <1>1, <1>2, <1>3 DEF SignalsOver

\* A current entry is one of E, of the session it is current for.
LEMMA CurrentIsEntry ==
  ASSUME NEW E, Entries(E), NEW n \in Nat, NEW t,
         \A m \in 1..n : t[m] \in SignalsOver(E),
         NEW k \in 1..n, t[k].kind = "register"
  PROVE  /\ CurrentAt(t, n, k) \in E
         /\ CurrentAt(t, n, k).session_id = t[k].session_id
  <1> DEFINE register == LastOf(Registrations(t, n, k))
             updates == UpdatesAfter(t, n, k, register)
             last == LastOf(updates)
  <1>1. register \in Registrations(t, n, k) /\ register \in 1..n
    BY LastRegistration
  <1> HIDE DEF register
  <1>2. /\ t[register].entry \in E
        /\ t[register].entry.session_id = t[k].session_id
    BY <1>1, SignalKinds DEF Registrations, SameSession
  <1>3. ASSUME updates # {}
        PROVE  t[last].status = "Completed"
    <2>1. updates \in SUBSET (1..n)
      BY DEF UpdatesAfter
    <2>2. \A m \in updates : t[m].kind = "update"
      BY DEF UpdatesAfter
    <2> HIDE DEF updates
    <2>3. PICK m \in updates : \A j \in updates : j <= m
      BY <1>3, <2>1, GreatestNumber
    <2>4. LastOf(updates) = m
      BY <2>1, <2>3, LastOfIs
    <2> QED
      BY <2>1, <2>2, <2>3, <2>4, SignalKinds
  <1>4. CurrentAt(t, n, k) = IF updates = {} THEN t[register].entry
                             ELSE [t[register].entry EXCEPT !.status = t[last].status]
    BY DEF CurrentAt, register
  <1> HIDE DEF updates, last
  <1>5. \/ CurrentAt(t, n, k) = t[register].entry
        \/ CurrentAt(t, n, k) = [t[register].entry EXCEPT !.status = "Completed"]
    BY <1>3, <1>4
  <1> QED
    BY <1>2, <1>5 DEF Entries

\* A signal about another session changes nothing for this one, and only a
\* removal ends an entry.
LEMMA OthersStay ==
  ASSUME NEW t, NEW n \in Nat, NEW k \in 1..n
  PROVE  /\ ~SameSession(t, n + 1, k) \/ t[n + 1].kind # "remove" =>
              (EntersAt(t, n + 1, k) <=> EntersAt(t, n, k))
         /\ ~SameSession(t, n + 1, k) => CurrentAt(t, n + 1, k) = CurrentAt(t, n, k)
  <1>1. \A m \in 1..(n + 1) : m = n + 1 \/ m \in 1..n
    OBVIOUS
  <1>2. \A m \in 1..n : m \in 1..(n + 1)
    OBVIOUS
  <1>3. ASSUME ~SameSession(t, n + 1, k) \/ t[n + 1].kind # "remove"
        PROVE  EntersAt(t, n + 1, k) <=> EntersAt(t, n, k)
    BY <1>1, <1>2, <1>3 DEF EntersAt
  <1>4. ASSUME ~SameSession(t, n + 1, k)
        PROVE  CurrentAt(t, n + 1, k) = CurrentAt(t, n, k)
    <2>1. Registrations(t, n + 1, k) = Registrations(t, n, k)
      BY <1>1, <1>2, <1>4 DEF Registrations
    <2>2. \A r : UpdatesAfter(t, n + 1, k, r) = UpdatesAfter(t, n, k, r)
      BY <1>1, <1>2, <1>4 DEF UpdatesAfter
    <2> QED
      BY <2>1, <2>2 DEF CurrentAt
  <1> QED
    BY <1>3, <1>4

\* The current entry after a registration, and after an update.
LEMMA RegistrationIsCurrent ==
  ASSUME NEW t, NEW n \in Nat, NEW k \in 1..(n + 1),
         SameSession(t, n + 1, k), t[n + 1].kind = "register"
  PROVE  CurrentAt(t, n + 1, k) = t[n + 1].entry
  <1>1. \A m \in 1..(n + 1) : m \in Nat /\ m <= n + 1
    OBVIOUS
  <1>2. LastOf(Registrations(t, n + 1, k)) = n + 1
    <2>1. n + 1 \in Registrations(t, n + 1, k)
      BY DEF Registrations
    <2>2. Registrations(t, n + 1, k) \in SUBSET Nat
      BY DEF Registrations
    <2>3. \A m \in Registrations(t, n + 1, k) : m <= n + 1
      BY <1>1 DEF Registrations
    <2> QED
      BY <2>1, <2>2, <2>3, LastOfIs
  <1>3. UpdatesAfter(t, n + 1, k, n + 1) = {}
    BY <1>1 DEF UpdatesAfter
  <1> QED
    BY <1>2, <1>3 DEF CurrentAt

LEMMA UpdateIsCurrent ==
  ASSUME NEW E, NEW n \in Nat, NEW t, \A m \in 1..(n + 1) : t[m] \in SignalsOver(E),
         NEW k \in 1..n, t[k].kind = "register",
         SameSession(t, n + 1, k), t[n + 1].kind = "update"
  PROVE  CurrentAt(t, n + 1, k) = [CurrentAt(t, n, k) EXCEPT !.status = "Completed"]
  <1> DEFINE register == LastOf(Registrations(t, n, k))
             before == UpdatesAfter(t, n, k, register)
             after == UpdatesAfter(t, n + 1, k, register)
  <1>1. \A m \in 1..(n + 1) : m \in Nat /\ m <= n + 1 /\ (m = n + 1 \/ m \in 1..n)
    OBVIOUS
  <1>2. \A m \in 1..n : m \in 1..(n + 1) /\ m <= n
    OBVIOUS
  <1>3. Registrations(t, n + 1, k) = Registrations(t, n, k)
    BY <1>1, <1>2 DEF Registrations
  <1>4. register \in 1..n
    BY LastRegistration
  <1> HIDE DEF register
  <1>5. n + 1 \in after /\ after \in SUBSET Nat /\ \A m \in after : m <= n + 1
    <2>1. n + 1 > register /\ n + 1 \in 1..(n + 1)
      BY <1>4
    <2>2. n + 1 \in after
      BY <2>1 DEF UpdatesAfter
    <2>3. \A m \in after : m \in 1..(n + 1)
      BY DEF UpdatesAfter
    <2> HIDE DEF after
    <2> QED
      BY <1>1, <2>2, <2>3
  <1>6. LastOf(after) = n + 1 /\ after # {}
    <2> HIDE DEF after
    <2> QED
      BY <1>5, LastOfIs
  <1>7. t[n + 1].status = "Completed"
    <2>1. n + 1 \in 1..(n + 1)
      OBVIOUS
    <2> QED
      BY <2>1, SignalKinds
  <1>8. CurrentAt(t, n + 1, k) = [t[register].entry EXCEPT !.status = "Completed"]
    <2>1. CurrentAt(t, n + 1, k) =
            IF after = {} THEN t[register].entry
            ELSE [t[register].entry EXCEPT !.status = t[LastOf(after)].status]
      BY <1>3 DEF CurrentAt, register
    <2> HIDE DEF after
    <2> QED
      BY <1>6, <1>7, <2>1
  <1>9. \/ CurrentAt(t, n, k) = t[register].entry
        \/ CurrentAt(t, n, k) = [t[register].entry EXCEPT !.status = "Completed"]
    <2>1. CurrentAt(t, n, k) =
            IF before = {} THEN t[register].entry
            ELSE [t[register].entry EXCEPT !.status = t[LastOf(before)].status]
      BY DEF CurrentAt, register
    <2>2. before \in SUBSET (1..n) /\ \A m \in before : t[m].kind = "update"
      BY DEF UpdatesAfter
    <2> HIDE DEF before
    <2>3. ASSUME before # {}
          PROVE  t[LastOf(before)].status = "Completed"
      <3>1. PICK m \in before : \A j \in before : j <= m
        BY <2>2, <2>3, GreatestNumber
      <3>2. LastOf(before) = m
        BY <2>2, <3>1, LastOfIs
      <3>3. m \in 1..(n + 1)
        BY <2>2, <1>2
      <3> QED
        BY <2>2, <3>1, <3>2, <3>3, SignalKinds
    <2> QED
      BY <2>1, <2>3
  <1>10. \A e : [[e EXCEPT !.status = "Completed"] EXCEPT !.status = "Completed"]
                = [e EXCEPT !.status = "Completed"]
    OBVIOUS
  <1> QED
    BY <1>8, <1>9, <1>10

\* A registration enters an entry exactly when there is none of its session.
LEMMA RegistrationEnters ==
  ASSUME NEW t, NEW n \in Nat, t[n + 1].kind = "register"
  PROVE  EntersAt(t, n + 1, n + 1) <=>
           ~\E k \in 1..n : SameSession(t, n + 1, k) /\ EntersAt(t, n, k)
  <1>1. \A m \in 1..(n + 1) : ~(m > n + 1)
    OBVIOUS
  <1>2. ASSUME NEW k \in 1..n, SameSession(t, n + 1, k), EntersAt(t, n, k)
        PROVE  ~EntersAt(t, n + 1, n + 1)
    <2>1. SUFFICES ASSUME EntersAt(t, n + 1, n + 1)
                   PROVE  FALSE
      OBVIOUS
    <2>2. k \in 1..((n + 1) - 1) /\ SameSession(t, k, n + 1) /\ t[k].kind = "register"
      BY <1>2 DEF EntersAt, SameSession
    <2>3. PICK m \in k..(n + 1) : SameSession(t, m, n + 1) /\ t[m].kind = "remove"
      BY <2>1, <2>2 DEF EntersAt
    <2>4. m # k /\ m # n + 1
      BY <2>2, <2>3
    <2>5. m \in 1..n /\ m > k
      BY <2>3, <2>4
    <2>6. SameSession(t, m, k)
      BY <1>2, <2>3 DEF SameSession
    <2> QED
      BY <1>2, <2>3, <2>5, <2>6 DEF EntersAt
  <1>3. ASSUME ~EntersAt(t, n + 1, n + 1)
        PROVE  \E k \in 1..n : SameSession(t, n + 1, k) /\ EntersAt(t, n, k)
    <2> DEFINE T == {j \in 1..n : /\ SameSession(t, j, n + 1) /\ t[j].kind = "register"
                                  /\ ~\E m \in j..n : SameSession(t, m, n + 1)
                                                      /\ t[m].kind = "remove"}
    <2>1. \E j \in 1..((n + 1) - 1) :
            /\ SameSession(t, j, n + 1) /\ t[j].kind = "register"
            /\ ~\E m \in j..(n + 1) : SameSession(t, m, n + 1) /\ t[m].kind = "remove"
      BY <1>1, <1>3 DEF EntersAt
    <2>2. T \in SUBSET Nat /\ T # {}
      <3>1. PICK j \in 1..n :
              /\ SameSession(t, j, n + 1) /\ t[j].kind = "register"
              /\ ~\E m \in j..(n + 1) : SameSession(t, m, n + 1) /\ t[m].kind = "remove"
        BY <2>1
      <3>2. \A m \in j..n : m \in j..(n + 1)
        OBVIOUS
      <3>3. j \in T
        BY <3>1, <3>2
      <3>4. \A i \in T : i \in Nat
        OBVIOUS
      <3> QED
        BY <3>3, <3>4
    <2>3. PICK k \in T : \A j \in T : k <= j
      <3> HIDE DEF T
      <3> QED
        BY <2>2, LeastNumber
    <2>4. /\ k \in 1..n /\ SameSession(t, k, n + 1) /\ t[k].kind = "register"
          /\ \A m \in k..n : SameSession(t, m, n + 1) => t[m].kind # "remove"
      OBVIOUS
    <2>5. ASSUME NEW m \in 1..n, m > k, SameSession(t, m, k)
          PROVE  t[m].kind # "remove"
      <3>1. m \in k..n /\ SameSession(t, m, n + 1)
        BY <2>4, <2>5 DEF SameSession
      <3> QED
        BY <2>4, <3>1
    <2>6. ASSUME NEW j \in 1..(k - 1), SameSession(t, j, k), t[j].kind = "register"
          PROVE  \E m \in j..k : SameSession(t, m, k) /\ t[m].kind = "remove"
      <3>1. j \in 1..n /\ j < k /\ SameSession(t, j, n + 1)
        BY <2>4, <2>6 DEF SameSession
      <3>2. j \notin T
        <4> HIDE DEF T
        <4>1. k \in Nat /\ j \in Nat
          BY <2>4, <3>1
        <4> QED
          BY <2>3, <3>1, <4>1
      <3>3. PICK m \in j..n : SameSession(t, m, n + 1) /\ t[m].kind = "remove"
        BY <2>6, <3>1, <3>2
      <3>4. ~(m \in k..n)
        BY <2>4, <3>3
      <3>5. m \in j..k
        BY <2>4, <3>1, <3>4
      <3>6. SameSession(t, m, k)
        BY <2>4, <3>3 DEF SameSession
      <3> QED
        BY <3>3, <3>5, <3>6
    <2>7. EntersAt(t, n, k)
      BY <2>4, <2>5, <2>6 DEF EntersAt
    <2>8. SameSession(t, n + 1, k)
      BY <2>4 DEF SameSession
    <2> QED
      BY <2>4, <2>7, <2>8
  <1> QED
    BY <1>2, <1>3

\* What the handling of a signal needs to know of the list and the signals.
Listing(list, t, n, E, entered) ==
  /\ n \in Nat
  /\ Entries(E)
  /\ list \in Lists(E)
  /\ \A m \in 1..(n + 1) : t[m] \in SignalsOver(E)
  /\ Explains(entered, list, t, n)

\* The sessions of a list are those of the signals that explain it.
LEMMA ListingSessions ==
  ASSUME NEW list, NEW t, NEW n, NEW E, NEW entered, Listing(list, t, n, E, entered)
  PROVE  /\ Len(list) \in Nat /\ DOMAIN list = 1..Len(list)
         /\ \A i \in 1..Len(list) :
              /\ list[i] \in E
              /\ entered[i] \in 1..n /\ EntersAt(t, n, entered[i])
              /\ t[entered[i]].kind = "register"
              /\ list[i].session_id = t[entered[i]].session_id
         /\ \A k \in 1..n : EntersAt(t, n, k) =>
              \E i \in 1..Len(list) : entered[i] = k
  <1>1. list \in Seq(E) /\ Len(list) \in Nat /\ DOMAIN list = 1..Len(list)
    BY DEF Listing, Lists
  <1>2. /\ n \in Nat /\ Entries(E) /\ \A m \in 1..n : t[m] \in SignalsOver(E)
        /\ Explains(entered, list, t, n)
    BY DEF Listing
  <1>3. ASSUME NEW i \in 1..Len(list)
        PROVE  /\ list[i] \in E
               /\ entered[i] \in 1..n /\ EntersAt(t, n, entered[i])
               /\ t[entered[i]].kind = "register"
               /\ list[i].session_id = t[entered[i]].session_id
    <2>1. list[i] \in E
      BY <1>1
    <2>2. entered[i] \in {k \in 1..n : EntersAt(t, n, k)}
      BY <1>1, <1>2 DEF Explains
    <2>3. t[entered[i]].kind = "register"
      BY <2>2 DEF EntersAt
    <2>4. list[i] = CurrentAt(t, n, entered[i])
      BY <1>1, <1>2 DEF Explains
    <2>5. CurrentAt(t, n, entered[i]).session_id = t[entered[i]].session_id
      BY <1>2, <2>2, <2>3, CurrentIsEntry
    <2> QED
      BY <2>1, <2>2, <2>3, <2>4, <2>5
  <1>4. ASSUME NEW k \in 1..n, EntersAt(t, n, k)
        PROVE  \E i \in 1..Len(list) : entered[i] = k
    <2>1. k \in {entered[i] : i \in DOMAIN list}
      BY <1>2, <1>4 DEF Explains
    <2> QED
      BY <1>1, <2>1
  <1> QED
    BY <1>1, <1>3, <1>4

LEMMA UpdateExplained ==
  ASSUME NEW list, NEW t, NEW n, NEW E, NEW entered, Listing(list, t, n, E, entered),
         t[n + 1].kind = "update"
  PROVE  IsHistory(UpdateSessionStatus(list, t[n + 1].session_id, "Completed"), t, n + 1)
  <1> DEFINE id == t[n + 1].session_id
             L == Len(list)
             r == UpdateSessionStatus(list, id, "Completed")
  <1>1. /\ n \in Nat /\ Entries(E) /\ list \in Lists(E)
        /\ \A m \in 1..(n + 1) : t[m] \in SignalsOver(E)
        /\ Explains(entered, list, t, n)
    BY DEF Listing
  <1>2. /\ L \in Nat /\ DOMAIN list = 1..L
        /\ \A i \in 1..L : /\ entered[i] \in 1..n /\ EntersAt(t, n, entered[i])
                           /\ t[entered[i]].kind = "register"
                           /\ list[i].session_id = t[entered[i]].session_id
    BY ListingSessions
  <1>3. /\ DOMAIN r = 1..L
        /\ \A i \in 1..L : r[i] = IF list[i].session_id = id
                                  THEN [list[i] EXCEPT !.status = "Completed"]
                                  ELSE list[i]
    BY <1>1, <1>2, UpdateSessionStatusUpdates
  <1> HIDE DEF r, L
  <1>4. entered \in [1..L -> 1..(n + 1)]
    <2>1. entered \in [1..L -> 1..n] /\ \A k \in 1..n : k \in 1..(n + 1)
      BY <1>1, <1>2 DEF Explains
    <2> QED
      BY <2>1
  <1>5. \A i, j \in 1..L : i < j => entered[i] < entered[j]
    BY <1>1, <1>2 DEF Explains
  <1>6. {entered[i] : i \in 1..L} = {k \in 1..(n + 1) : EntersAt(t, n + 1, k)}
    <2>1. {entered[i] : i \in 1..L} = {k \in 1..n : EntersAt(t, n, k)}
      BY <1>1, <1>2 DEF Explains
    <2>2. \A k \in 1..n : EntersAt(t, n + 1, k) <=> EntersAt(t, n, k)
      BY <1>1, OthersStay
    <2>3. ~EntersAt(t, n + 1, n + 1)
      BY DEF EntersAt
    <2>4. \A k : k \in 1..(n + 1) <=> k = n + 1 \/ k \in 1..n
      BY <1>1
    <2>5. {k \in 1..(n + 1) : EntersAt(t, n + 1, k)} = {k \in 1..n : EntersAt(t, n, k)}
      BY <2>2, <2>3, <2>4
    <2> QED
      BY <2>1, <2>5
  <1>7. ASSUME NEW i \in 1..L
        PROVE  r[i] = CurrentAt(t, n + 1, entered[i])
    <2>1. list[i] = CurrentAt(t, n, entered[i])
      BY <1>1, <1>2 DEF Explains
    <2>2. CASE list[i].session_id = id
      <3>1. SameSession(t, n + 1, entered[i])
        BY <1>2, <2>2 DEF SameSession
      <3>2. CurrentAt(t, n + 1, entered[i])
              = [CurrentAt(t, n, entered[i]) EXCEPT !.status = "Completed"]
        BY <1>1, <1>2, <3>1, UpdateIsCurrent
      <3> QED
        BY <1>3, <2>1, <2>2, <3>2
    <2>3. CASE list[i].session_id # id
      <3>1. ~SameSession(t, n + 1, entered[i])
        BY <1>2, <2>3 DEF SameSession
      <3>2. CurrentAt(t, n + 1, entered[i]) = CurrentAt(t, n, entered[i])
        BY <1>1, <1>2, <3>1, OthersStay
      <3> QED
        BY <1>3, <2>1, <2>3, <3>2
    <2> QED
      BY <2>2, <2>3
  <1>8. Explains(entered, r, t, n + 1)
    BY <1>3, <1>4, <1>5, <1>6, <1>7 DEF Explains
  <1> QED
    BY <1>8 DEF IsHistory, r

LEMMA RegistrationExplained ==
  ASSUME NEW list, NEW t, NEW n, NEW E, NEW entered, Listing(list, t, n, E, entered),
         t[n + 1].kind = "register"
  PROVE  IsHistory(RegisterSession(list, t[n + 1].entry), t, n + 1)
  <1> DEFINE entry == t[n + 1].entry
             L == Len(list)
             r == RegisterSession(list, entry)
  <1>1. /\ n \in Nat /\ Entries(E) /\ list \in Lists(E)
        /\ \A m \in 1..(n + 1) : t[m] \in SignalsOver(E)
        /\ Explains(entered, list, t, n)
    BY DEF Listing
  <1>2. /\ L \in Nat /\ DOMAIN list = 1..L
        /\ \A i \in 1..L : /\ entered[i] \in 1..n /\ EntersAt(t, n, entered[i])
                           /\ t[entered[i]].kind = "register"
                           /\ list[i].session_id = t[entered[i]].session_id
        /\ \A k \in 1..n : EntersAt(t, n, k) => \E i \in 1..L : entered[i] = k
    BY ListingSessions
  <1>3. entry \in E /\ entry.session_id = t[n + 1].session_id
    <2>1. n + 1 \in 1..(n + 1)
      BY <1>1
    <2> QED
      BY <1>1, <2>1, SignalKinds
  <1>4. /\ \A i \in 1..L :
             /\ list[i].session_id = entry.session_id =>
                  r[i] = entry /\ DOMAIN r = 1..L
             /\ list[i].session_id # entry.session_id => r[i] = list[i]
        /\ (\A i \in 1..L : list[i].session_id # entry.session_id) =>
             DOMAIN r = 1..(L + 1) /\ r[L + 1] = entry
    BY <1>1, <1>2, <1>3, RegisterSessionReplaces
  <1> HIDE DEF r, L, entry
  <1>5. /\ entered \in [1..L -> 1..n]
        /\ \A i, j \in 1..L : i < j => entered[i] < entered[j]
        /\ {entered[i] : i \in 1..L} = {k \in 1..n : EntersAt(t, n, k)}
        /\ \A i \in 1..L : list[i] = CurrentAt(t, n, entered[i])
    BY <1>1, <1>2 DEF Explains
  <1>6. \A k \in 1..n : EntersAt(t, n + 1, k) <=> EntersAt(t, n, k)
    BY <1>1, OthersStay
  <1>7. \A k : k \in 1..(n + 1) <=> k = n + 1 \/ k \in 1..n
    BY <1>1
  <1>8. EntersAt(t, n + 1, n + 1) <=>
          ~\E k \in 1..n : SameSession(t, n + 1, k) /\ EntersAt(t, n, k)
    BY <1>1, RegistrationEnters
  <1>9. \A i \in 1..L : list[i].session_id = entry.session_id <=>
                          SameSession(t, n + 1, entered[i])
    BY <1>2, <1>3 DEF SameSession
  <1>10. \A i \in 1..L : list[i].session_id # entry.session_id =>
                           r[i] = CurrentAt(t, n + 1, entered[i])
    <2>1. ASSUME NEW i \in 1..L, list[i].session_id # entry.session_id
          PROVE  r[i] = CurrentAt(t, n + 1, entered[i])
      <3>1. CurrentAt(t, n + 1, entered[i]) = CurrentAt(t, n, entered[i])
        BY <1>1, <1>2, <1>9, <2>1, OthersStay
      <3> QED
        BY <1>4, <1>5, <2>1, <3>1
    <2> QED
      BY <2>1
  <1>11. CASE \E i \in 1..L : list[i].session_id = entry.session_id
    <2>1. DOMAIN r = 1..L
      BY <1>4, <1>11
    <2>2. ~EntersAt(t, n + 1, n + 1)
      BY <1>2, <1>8, <1>9, <1>11
    <2>3. {k \in 1..(n + 1) : EntersAt(t, n + 1, k)} = {k \in 1..n : EntersAt(t, n, k)}
      BY <1>6, <1>7, <2>2
    <2>4. entered \in [1..L -> 1..(n + 1)]
      BY <1>5, <1>7
    <2>5. ASSUME NEW i \in 1..L
          PROVE  r[i] = CurrentAt(t, n + 1, entered[i])
      <3>1. CASE list[i].session_id = entry.session_id
        <4>1. SameSession(t, n + 1, entered[i]) /\ entered[i] \in 1..(n + 1)
          BY <1>2, <1>7, <1>9, <3>1
        <4>2. CurrentAt(t, n + 1, entered[i]) = t[n + 1].entry
          BY <1>1, <4>1, RegistrationIsCurrent
        <4>3. r[i] = entry
          BY <1>4, <3>1
        <4> QED
          BY <4>2, <4>3 DEF entry
      <3> QED
        BY <1>10, <3>1
    <2>6. Explains(entered, r, t, n + 1)
      BY <1>5, <2>1, <2>3, <2>4, <2>5 DEF Explains
    <2> QED
      BY <2>6 DEF IsHistory, r, entry
  <1>12. CASE \A i \in 1..L : list[i].session_id # entry.session_id
    <2> DEFINE to == [i \in 1..(L + 1) |-> IF i = L + 1 THEN n + 1 ELSE entered[i]]
    <2>1. DOMAIN r = 1..(L + 1) /\ r[L + 1] = entry
      BY <1>4, <1>12
    <2>2. EntersAt(t, n + 1, n + 1)
      BY <1>2, <1>8, <1>9, <1>12
    <2>3. \A i : i \in 1..(L + 1) <=> i = L + 1 \/ i \in 1..L
      BY <1>2
    <2>4. /\ to[L + 1] = n + 1
          /\ \A i \in 1..L : to[i] = entered[i] /\ to[i] \in 1..n
      BY <1>2, <1>5
    <2>5. to \in [1..(L + 1) -> 1..(n + 1)]
      BY <1>2, <1>5, <1>7
    <2> HIDE DEF to
    <2>6. ASSUME NEW i \in 1..(L + 1), NEW j \in 1..(L + 1), i < j
          PROVE  to[i] < to[j]
      <3>1. i \in 1..L
        BY <1>2, <2>6
      <3>2. CASE j = L + 1
        BY <1>1, <2>4, <3>1, <3>2
      <3>3. CASE j \in 1..L
        BY <1>5, <2>4, <2>6, <3>1, <3>3
      <3> QED
        BY <2>3, <3>2, <3>3
    <2>7. ASSUME NEW k
          PROVE  k \in {to[i] : i \in 1..(L + 1)} <=>
                   k \in {m \in 1..(n + 1) : EntersAt(t, n + 1, m)}
      <3>1. k \in {to[i] : i \in 1..(L + 1)} <=>
              k = n + 1 \/ k \in {entered[i] : i \in 1..L}
        BY <2>3, <2>4
      <3>2. k \in {m \in 1..(n + 1) : EntersAt(t, n + 1, m)} <=>
              k = n + 1 \/ k \in {m \in 1..n : EntersAt(t, n, m)}
        BY <1>6, <1>7, <2>2
      <3> QED
        BY <1>5, <3>1, <3>2
    <2>8. {to[i] : i \in 1..(L + 1)} = {k \in 1..(n + 1) : EntersAt(t, n + 1, k)}
      BY <2>7
    <2>9. ASSUME NEW i \in 1..(L + 1)
          PROVE  r[i] = CurrentAt(t, n + 1, to[i])
      <3>1. CASE i = L + 1
        <4>1. SameSession(t, n + 1, n + 1) /\ n + 1 \in 1..(n + 1)
          BY <1>1 DEF SameSession
        <4>2. CurrentAt(t, n + 1, n + 1) = t[n + 1].entry
          BY <1>1, <4>1, RegistrationIsCurrent
        <4> QED
          BY <2>1, <2>4, <3>1, <4>2 DEF entry
      <3>2. CASE i \in 1..L
        BY <1>10, <1>12, <2>4, <3>2
      <3> QED
        BY <2>3, <3>1, <3>2
    <2>10. Explains(to, r, t, n + 1)
      BY <2>1, <2>5, <2>6, <2>8, <2>9 DEF Explains
    <2> QED
      BY <2>10 DEF IsHistory, r, entry
  <1> QED
    BY <1>11, <1>12

LEMMA RemovalExplained ==
  ASSUME NEW list, NEW t, NEW n, NEW E, NEW entered, Listing(list, t, n, E, entered),
         t[n + 1].kind = "remove"
  PROVE  IsHistory(RemoveSession(list, t[n + 1].session_id), t, n + 1)
  <1> DEFINE id == t[n + 1].session_id
             L == Len(list)
  <1>1. /\ n \in Nat /\ list \in Seq(E)
        /\ Explains(entered, list, t, n)
    BY DEF Listing, Lists
  <1>2. /\ L \in Nat /\ DOMAIN list = 1..L
        /\ \A i \in 1..L : /\ entered[i] \in 1..n /\ EntersAt(t, n, entered[i])
                           /\ list[i].session_id = t[entered[i]].session_id
        /\ \A k \in 1..n : EntersAt(t, n, k) => \E i \in 1..L : entered[i] = k
    BY ListingSessions
  <1>3. PICK r, from : /\ r = RemoveSession(list, id) /\ r \in Seq(E)
                       /\ IsRemaining(r, from, list, id, L)
    BY <1>1, RemoveSessionKeepsOthers
  <1> DEFINE M == Len(r)
             to == [i \in 1..M |-> entered[from[i]]]
  <1>4. M \in Nat /\ DOMAIN r = 1..M
    BY <1>3
  <1>5. /\ from \in [1..M -> 1..L]
        /\ \A i, j \in 1..M : i < j => from[i] < from[j]
        /\ \A i \in 1..M : r[i] = list[from[i]] /\ list[from[i]].session_id # id
        /\ \A m \in 1..L : list[m].session_id # id => \E i \in 1..M : from[i] = m
    BY <1>3 DEF IsRemaining
  <1>6. \A i, j \in 1..L : i < j => entered[i] < entered[j]
    BY <1>1, <1>2 DEF Explains
  <1>7. \A i \in 1..L : list[i] = CurrentAt(t, n, entered[i])
    BY <1>1, <1>2 DEF Explains
  <1> HIDE DEF M, L
  <1>8. \A i \in 1..M : to[i] = entered[from[i]] /\ from[i] \in 1..L /\ to[i] \in 1..n
    BY <1>2, <1>5
  <1>9. to \in [1..M -> 1..(n + 1)]
    <2>1. \A k \in 1..n : k \in 1..(n + 1)
      BY <1>1
    <2> QED
      BY <1>8, <2>1
  <1> HIDE DEF to, id
  <1>10. \A i \in 1..L : list[i].session_id = id <=> SameSession(t, n + 1, entered[i])
    BY <1>2 DEF SameSession, id
  <1>11. \A i, j \in 1..M : i < j => to[i] < to[j]
    BY <1>5, <1>6, <1>8
  <1>12. \A k : k \in 1..(n + 1) <=> k = n + 1 \/ k \in 1..n
    BY <1>1
  <1>13. ASSUME NEW k \in 1..(n + 1)
         PROVE  EntersAt(t, n + 1, k) <=> \E i \in 1..M : to[i] = k
    <2>1. ASSUME EntersAt(t, n + 1, k)
          PROVE  \E i \in 1..M : to[i] = k
      <3>1. k # n + 1
        BY <2>1 DEF EntersAt
      <3>2. k \in 1..n
        BY <1>12, <3>1
      <3>3. n + 1 > k /\ n + 1 \in 1..(n + 1)
        BY <1>1, <3>2
      <3>4. ~SameSession(t, n + 1, k)
        BY <2>1, <3>3 DEF EntersAt
      <3>5. EntersAt(t, n, k)
        BY <1>1, <2>1, <3>2, <3>4, OthersStay
      <3>6. PICK m \in 1..L : entered[m] = k
        BY <1>2, <3>2, <3>5
      <3>7. list[m].session_id # id
        BY <1>10, <3>4, <3>6
      <3>8. PICK i \in 1..M : from[i] = m
        BY <1>5, <3>7
      <3> QED
        BY <1>8, <3>6, <3>8
    <2>2. ASSUME NEW i \in 1..M, to[i] = k
          PROVE  EntersAt(t, n + 1, k)
      <3>1. /\ from[i] \in 1..L /\ k = entered[from[i]] /\ k \in 1..n
            /\ ~SameSession(t, n + 1, k)
        BY <1>5, <1>8, <1>10, <2>2
      <3>2. EntersAt(t, n, k)
        BY <1>2, <3>1
      <3> QED
        BY <1>1, <3>1, <3>2, OthersStay
    <2> QED
      BY <2>1, <2>2
  <1>14. {to[i] : i \in 1..M} = {k \in 1..(n + 1) : EntersAt(t, n + 1, k)}
    <2>1. \A i \in 1..M : to[i] \in 1..(n + 1)
      BY <1>8, <1>12
    <2> QED
      BY <1>13, <2>1
  <1>15. ASSUME NEW i \in 1..M
         PROVE  r[i] = CurrentAt(t, n + 1, to[i])
    <2>1. /\ from[i] \in 1..L /\ to[i] = entered[from[i]] /\ to[i] \in 1..n
          /\ ~SameSession(t, n + 1, to[i])
      BY <1>5, <1>8, <1>10
    <2>2. CurrentAt(t, n + 1, to[i]) = CurrentAt(t, n, to[i])
      BY <1>1, <2>1, OthersStay
    <2> QED
      BY <1>5, <1>7, <2>1, <2>2
  <1>16. Explains(to, r, t, n + 1)
    BY <1>4, <1>9, <1>11, <1>14, <1>15 DEF Explains
  <1> QED
    BY <1>3, <1>16 DEF IsHistory, id

LEMMA SignalExplained ==
  ASSUME NEW list, NEW t, NEW n \in Nat, NEW E, Entries(E), list \in Lists(E),
         \A m \in 1..(n + 1) : t[m] \in SignalsOver(E),
         IsHistory(list, t, n)
  PROVE  IsHistory(Handle(list, t[n + 1]), t, n + 1)
  <1>1. PICK entered : Listing(list, t, n, E, entered)
    BY DEF IsHistory, Listing
  <1>2. n + 1 \in 1..(n + 1)
    OBVIOUS
  <1>3. /\ t[n + 1].kind \in {"register", "update", "remove"}
        /\ t[n + 1].kind = "update" => t[n + 1].status = "Completed"
    BY <1>2, SignalKinds
  <1>4. CASE t[n + 1].kind = "register"
    <2>1. Handle(list, t[n + 1]) = RegisterSession(list, t[n + 1].entry)
      BY <1>4 DEF Handle
    <2> QED
      BY <1>1, <1>4, <2>1, RegistrationExplained
  <1>5. CASE t[n + 1].kind = "update"
    <2>1. Handle(list, t[n + 1])
            = UpdateSessionStatus(list, t[n + 1].session_id, "Completed")
      BY <1>3, <1>5 DEF Handle
    <2> QED
      BY <1>1, <1>5, <2>1, UpdateExplained
  <1>6. CASE t[n + 1].kind = "remove"
    <2>1. Handle(list, t[n + 1]) = RemoveSession(list, t[n + 1].session_id)
      BY <1>6 DEF Handle
    <2> QED
      BY <1>1, <1>6, <2>1, RemovalExplained
  <1> QED
    BY <1>3, <1>4, <1>5, <1>6

\* All the signals that wait, when they are the last of the history.
LEMMA SignalsExplained ==
  ASSUME NEW list, NEW E, Entries(E), list \in Lists(E),
         NEW t \in Seq(SignalsOver(E)), NEW signals \in Seq(SignalsOver(E)),
         NEW n \in Nat, Len(t) = n + Len(signals),
         \A k \in 1..Len(signals) : signals[k] = t[n + k],
         IsHistory(list, t, n)
  PROVE  IsHistory(HandleAll(list, signals), t, Len(t))
  <1> DEFINE L == Len(signals)
  <1>1. /\ L \in Nat /\ Len(t) = n + L
        /\ \A k \in 1..L : signals[k] \in SignalsOver(E) /\ signals[k] = t[n + k]
        /\ \A m \in 1..Len(t) : t[m] \in SignalsOver(E)
    OBVIOUS
  <1>2. PICK after : /\ after = [k \in 0..L |->
                          IF k = 0 THEN list ELSE Handle(after[k - 1], signals[k])]
                     /\ HandleAll(list, signals) = after[L]
    BY <1>1, HandleAllRecursion
  <1> HIDE DEF L
  <1> DEFINE S == {k \in 0..L : after[k] \in Lists(E) /\ IsHistory(after[k], t, n + k)}
  <1>3. 0 \in S
    <2>1. 0 \in 0..L /\ n + 0 = n
      BY <1>1
    <2>2. after[0] = list
      BY <1>2, <2>1
    <2>3. after[0] \in Lists(E) /\ IsHistory(after[0], t, n + 0)
      BY <2>1, <2>2
    <2> QED
      BY <2>1, <2>3
  <1>4. ASSUME NEW k \in 1..L, k - 1 \in S
        PROVE  k \in S
    <2>1. PICK m \in Nat : m = n + (k - 1)
      BY <1>1
    <2>2. /\ k \in 0..L /\ k # 0 /\ m + 1 = n + k
          /\ \A j \in 1..(m + 1) : j \in 1..Len(t)
      BY <1>1, <2>1
    <2>3. after[k - 1] \in Lists(E) /\ IsHistory(after[k - 1], t, m)
      BY <1>4, <2>1
    <2>4. after[k] = Handle(after[k - 1], t[m + 1])
      BY <1>1, <1>2, <2>2
    <2>5. t[m + 1] \in SignalsOver(E)
      BY <1>1, <2>2
    <2>6. after[k] \in Lists(E)
      BY <2>3, <2>4, <2>5, HandleLists
    <2>7. IsHistory(after[k], t, m + 1)
      BY <1>1, <2>2, <2>3, <2>4, SignalExplained
    <2> QED
      BY <2>2, <2>6, <2>7
  <1>5. L \in 0..L
    BY <1>1
  <1> HIDE DEF S
  <1>6. L \in S
    BY <1>1, <1>3, <1>4, <1>5, UpTo
  <1> QED
    BY <1>1, <1>2, <1>6 DEF S

\* A signal that still waits has no part in what its predecessors explain.
LEMMA PredecessorsExplain ==
  ASSUME NEW list, NEW n \in Nat, NEW t, NEW u,
         \A m \in 1..n : u[m] = t[m], IsHistory(list, t, n)
  PROVE  IsHistory(list, u, n)
  <1>1. PICK entered : Explains(entered, list, t, n)
    BY DEF IsHistory
  <1>2. \A k \in 1..n : \A m \in 1..n : SameSession(u, m, k) <=> SameSession(t, m, k)
    BY DEF SameSession
  <1>3. ASSUME NEW k \in 1..n
        PROVE  EntersAt(u, n, k) <=> EntersAt(t, n, k)
    <2>1. \A j \in 1..(k - 1) : j \in 1..n /\ \A m \in j..k : m \in 1..n
      OBVIOUS
    <2> QED
      BY <1>2, <2>1 DEF EntersAt
  <1>4. ASSUME NEW k \in 1..n, t[k].kind = "register"
        PROVE  CurrentAt(u, n, k) = CurrentAt(t, n, k)
    <2>1. Registrations(u, n, k) = Registrations(t, n, k)
      BY <1>2 DEF Registrations
    <2>2. \A r : UpdatesAfter(u, n, k, r) = UpdatesAfter(t, n, k, r)
      BY <1>2 DEF UpdatesAfter
    <2> DEFINE register == LastOf(Registrations(t, n, k))
               updates == UpdatesAfter(t, n, k, register)
    <2>3. u[register] = t[register]
      BY <1>4, LastRegistration
    <2>4. updates # {} => u[LastOf(updates)] = t[LastOf(updates)]
      <3>1. updates \in SUBSET (1..n) /\ 1..n \in SUBSET Nat
        BY DEF UpdatesAfter
      <3> HIDE DEF updates
      <3>2. ASSUME updates # {}
            PROVE  LastOf(updates) \in 1..n
        <4>1. PICK m \in updates : \A j \in updates : j <= m
          BY <3>1, <3>2, GreatestNumber
        <4>2. LastOf(updates) = m
          BY <3>1, <4>1, LastOfIs
        <4> QED
          BY <3>1, <4>2
      <3> QED
        BY <3>2
    <2>5. /\ CurrentAt(u, n, k) = IF updates = {} THEN u[register].entry
                                  ELSE [u[register].entry EXCEPT !.status = u[LastOf(updates)].status]
          /\ CurrentAt(t, n, k) = IF updates = {} THEN t[register].entry
                                  ELSE [t[register].entry EXCEPT !.status = t[LastOf(updates)].status]
      BY <2>1, <2>2 DEF CurrentAt
    <2> HIDE DEF register, updates
    <2> QED
      BY <2>3, <2>4, <2>5
  <1>5. {k \in 1..n : EntersAt(u, n, k)} = {k \in 1..n : EntersAt(t, n, k)}
    BY <1>3
  <1>6. ASSUME NEW i \in DOMAIN list
        PROVE  list[i] = CurrentAt(u, n, entered[i])
    <2>1. entered[i] \in {k \in 1..n : EntersAt(t, n, k)}
      BY <1>1 DEF Explains
    <2>2. entered[i] \in 1..n /\ t[entered[i]].kind = "register"
      BY <2>1 DEF EntersAt
    <2>3. CurrentAt(u, n, entered[i]) = CurrentAt(t, n, entered[i])
      BY <1>4, <2>2
    <2> QED
      BY <1>1, <2>3 DEF Explains
  <1>7. Explains(entered, list, u, n)
    BY <1>1, <1>5, <1>6 DEF Explains
  <1> QED
    BY <1>7 DEF IsHistory

\* The signals that wait are the last of the history, and the registry is what
\* those before them make of it.
HistoryInv ==
  /\ Len(inbox) <= Len(taken)
  /\ \A k \in 1..Len(inbox) : inbox[k] = taken[(Len(taken) - Len(inbox)) + k]
  /\ IsHistory(sessions, taken, Len(taken) - Len(inbox))

LEMMA InitExplained ==
  ASSUME Init
  PROVE  HistoryInv
  <1>1. sessions = <<>> /\ inbox = <<>> /\ taken = <<>>
    BY DEF Init
  <1>2. Len(<<>>) = 0 /\ 1..0 = {} /\ DOMAIN <<>> = {}
    OBVIOUS
  <1> DEFINE f == [i \in {} |-> 0]
  <1>3. f \in [DOMAIN <<>> -> 1..0]
    BY <1>2
  <1> HIDE DEF f
  <1>4. {f[i] : i \in DOMAIN <<>>} = {k \in 1..0 : EntersAt(<<>>, 0, k)}
    BY <1>2
  <1>5. Explains(f, <<>>, <<>>, 0)
    BY <1>2, <1>3, <1>4 DEF Explains
  <1>6. IsHistory(<<>>, <<>>, 0)
    BY <1>5 DEF IsHistory
  <1>7. Len(taken) - Len(inbox) = 0
    BY <1>1, <1>2
  <1> QED
    BY <1>1, <1>2, <1>6, <1>7 DEF HistoryInv

\* How much of the history has been handled.
LEMMA HandledLength ==
  ASSUME RegistryInv, HistoryInv
  PROVE  /\ inbox \in Seq(SignalsOver(Listable)) /\ taken \in Seq(SignalsOver(Listable))
         /\ Len(inbox) \in Nat /\ Len(taken) \in Nat
         /\ Len(taken) - Len(inbox) \in Nat
  <1>1. inbox \in Seq(SignalsOver(Listable)) /\ taken \in Seq(SignalsOver(Listable))
    BY DEF RegistryInv
  <1>2. Len(inbox) \in Nat /\ Len(taken) \in Nat
    BY <1>1
  <1>3. Len(inbox) <= Len(taken)
    BY DEF HistoryInv
  <1> QED
    BY <1>1, <1>2, <1>3

LEMMA HandlingExplained ==
  ASSUME RegistryInv, HistoryInv, HandleSignals, taken' = taken
  PROVE  HistoryInv'
  <1>1. PICK n \in Nat : n = Len(taken) - Len(inbox)
    BY HandledLength
  <1>2. /\ taken \in Seq(SignalsOver(Listable)) /\ inbox \in Seq(SignalsOver(Listable))
        /\ sessions \in Lists(Listable) /\ Entries(Listable)
    BY ListableEntries DEF RegistryInv
  <1>3. Len(taken) = n + Len(inbox) /\ Len(taken) \in Nat
    BY <1>1, <1>2
  <1>4. /\ \A k \in 1..Len(inbox) : inbox[k] = taken[n + k]
        /\ IsHistory(sessions, taken, n)
    BY <1>1 DEF HistoryInv
  <1>5. IsHistory(HandleAll(sessions, inbox), taken, Len(taken))
    BY <1>2, <1>3, <1>4, SignalsExplained
  <1>6. sessions' = HandleAll(sessions, inbox) /\ inbox' = <<>>
    BY DEF HandleSignals
  <1>7. Len(inbox') = 0 /\ 1..Len(inbox') = {} /\ Len(taken') - Len(inbox') = Len(taken)
    BY <1>3, <1>6
  <1>8. IsHistory(sessions', taken', Len(taken') - Len(inbox'))
    BY <1>5, <1>6, <1>7
  <1> QED
    BY <1>3, <1>7, <1>8 DEF HistoryInv

LEMMA DeliveryExplained ==
  ASSUME RegistryInv, HistoryInv, NEW signal, Deliver(signal), sessions' = sessions
  PROVE  HistoryInv'
  <1>1. PICK n \in Nat : n = Len(taken) - Len(inbox)
    BY HandledLength
  <1>2. PICK L \in Nat, M \in Nat : L = Len(inbox) /\ M = Len(taken) /\ M = n + L
    BY <1>1, HandledLength
  <1>3. /\ inbox' = Append(inbox, signal) /\ taken' = Append(taken, signal)
        /\ inbox \in Seq(SignalsOver(Listable)) /\ taken \in Seq(SignalsOver(Listable))
    BY DEF Deliver, RegistryInv
  <1>4. /\ Len(inbox') = L + 1 /\ inbox'[L + 1] = signal
        /\ \A k \in 1..L : inbox'[k] = inbox[k]
    BY <1>2, <1>3
  <1>5. /\ Len(taken') = M + 1 /\ taken'[M + 1] = signal
        /\ \A k \in 1..M : taken'[k] = taken[k]
    <2>1. M = Len(taken) /\ M \in Nat
      BY <1>2
    <2> QED
      BY <1>3, <2>1
  <1>6. /\ \A k \in 1..L : inbox[k] = taken[n + k]
        /\ IsHistory(sessions, taken, n)
    BY <1>1, <1>2 DEF HistoryInv
  <1>7. Len(taken') - Len(inbox') = n
    BY <1>2, <1>4, <1>5
  <1>8. ASSUME NEW k \in 1..(L + 1)
        PROVE  inbox'[k] = taken'[n + k]
    <2>1. CASE k = L + 1
      <3>1. n + k = M + 1
        BY <1>2, <2>1
      <3> QED
        BY <1>4, <1>5, <2>1, <3>1
    <2>2. CASE k # L + 1
      <3>1. k \in 1..L /\ n + k \in 1..M
        BY <1>2, <2>2
      <3> QED
        BY <1>4, <1>5, <1>6, <3>1
    <2> QED
      BY <2>1, <2>2
  <1>9. IsHistory(sessions, taken', n)
    <2>1. \A m \in 1..n : m \in 1..M
      BY <1>2
    <2>2. \A m \in 1..n : taken'[m] = taken[m]
      BY <1>5, <2>1
    <2> QED
      BY <1>6, <2>2, PredecessorsExplain
  <1>10. Len(inbox') <= Len(taken')
    BY <1>2, <1>4, <1>5
  <1> QED
    BY <1>4, <1>7, <1>8, <1>9, <1>10 DEF HistoryInv

LEMMA StepExplained ==
  ASSUME ListInv, HistoryInv, [Next]_vars
  PROVE  HistoryInv'
  <1>1. RegistryInv
    BY DEF ListInv
  <1>2. CASE Workflow
    <2>1. HandleSignals /\ taken' = taken
      BY <1>2 DEF Workflow, BeginRun, TakeSignals, CheckCredentials, ContinueAsNew
    <2> QED
      BY <1>1, <2>1, HandlingExplained
  <1>3. CASE AnySignal \/ \E l \in Launchers : RegisterWithHarness(l)
    <2>1. (\E signal : Deliver(signal)) /\ sessions' = sessions
      BY <1>3 DEF AnySignal, RegisterWithHarness
    <2> QED
      BY <1>1, <2>1, DeliveryExplained
  <1>4. CASE UNCHANGED <<sessions, inbox, taken>>
    BY <1>4 DEF HistoryInv
  <1>5. CASE ReplaceWorker \/ UNCHANGED vars
    <2>1. UNCHANGED <<sessions, inbox, taken>>
      BY <1>5 DEF ReplaceWorker, vars, registryVars
    <2> QED
      BY <1>4, <2>1
  <1>6. CASE \E l \in Launchers : Launch(l) /\ ~RegisterWithHarness(l)
    <2>1. UNCHANGED <<sessions, inbox, taken>>
      BY <1>6 DEF Launch, Configure, CliStarts, EnsureHarness, QueryCredentials,
           RegistrationFails, Resume, Submit, SwitchTo, registryVars
    <2> QED
      BY <1>4, <2>1
  <1> QED
    BY <1>2, <1>3, <1>5, <1>6 DEF Next

\* RegistryIsHistory: whatever the tasks and executions that have handled them
\* (src/src/harness.rs:130 carries the list over), the registry lists the
\* sessions that its signals so far have registered and not removed since, in
\* the order of their first registration, each as its last registration and
\* update say (register_session, update_session_status and remove_session,
\* src/src/harness.rs:47).
THEOREM TheRegistryIsItsHistory == Spec => []RegistryIsHistory
  <1>1. Init => HistoryInv
    BY InitExplained
  <1>2. ListInv /\ HistoryInv /\ [Next]_vars => HistoryInv'
    BY StepExplained
  <1>3. HistoryInv => RegistryIsHistory
    BY DEF HistoryInv, IsHistory, Explains, RegistryIsHistory, Handled, Enters, Current,
       EntersAt, CurrentAt, Registrations, UpdatesAfter, SameSession, Kind, Same
  <1> QED
    BY <1>1, <1>2, <1>3, ListInvHolds, PTL DEF Spec

-----------------------------------------------------------------------------
(* What a crew makes of a session                                          *)

\* A launcher's input, if it has one, is what its invocation comes to; only
\* start-crew is invoked with a crew.
CrewInv ==
  \A l \in Launchers :
    launcher[l].mode = "crew" /\ launcher[l].input # NONE =>
      /\ launcher[l].choice \in Invocations
      /\ launcher[l].choice.crew # NONE
      /\ launcher[l].input = InputOf(launcher[l].choice)

LEMMA ConfigureMakesInput ==
  ASSUME LaunchersAreRecords, NEW l \in Launchers, Configure(l)
  PROVE  \E choice \in Invocations :
           /\ launcher[l].mode = "crew" => choice.crew # NONE
           /\ launcher'[l].choice = choice
           /\ launcher'[l].input = InputOf(choice)
  <1>1. PICK choice \in Invocations :
          /\ launcher[l].mode = "crew" <=> choice.crew # NONE
          /\ Becomes(l, [step |-> IF InputOf(choice) = NONE THEN "exited"
                                  ELSE "configured",
                         input |-> InputOf(choice), choice |-> choice])
    BY DEF Configure
  <1> DEFINE step == IF InputOf(choice) = NONE THEN "exited" ELSE "configured"
             r == [step |-> step, input |-> InputOf(choice), choice |-> choice]
  <1>2. /\ DOMAIN r = {"step", "input", "choice"}
        /\ r["input"] = InputOf(choice)
        /\ r["choice"] = choice
    OBVIOUS
  <1>3. Becomes(l, r)
    BY <1>1
  <1> HIDE DEF r
  <1>4. DOMAIN r \subseteq Fields
    BY <1>2 DEF Fields
  <1>5. \A f \in DOMAIN r : launcher'[l][f] = r[f]
    BY <1>3, <1>4, BecomesChanges DEF LaunchersAreRecords
  <1>6. launcher'[l].input = InputOf(choice) /\ launcher'[l].choice = choice
    BY <1>2, <1>5
  <1> QED
    BY <1>1, <1>6

\* The other steps of a launcher leave its mode, its input and its choice.
LEMMA InputStays ==
  ASSUME LaunchersAreRecords, NEW l \in Launchers, Launch(l), ~Configure(l)
  PROVE  \E fs : Changes(l, fs) /\ fs \cap {"mode", "input", "choice"} = {}
  <1>1. CASE CliStarts(l)
    BY <1>1, CliStartsChanges
  <1>2. CASE EnsureHarness(l)
    BY <1>2, EnsureHarnessChanges
  <1>3. CASE QueryCredentials(l)
    BY <1>3, QueryCredentialsChanges
  <1>4. CASE RegisterWithHarness(l) \/ RegistrationFails(l)
    <2>1. Registered(l) /\ started' = started
      BY <1>4 DEF RegisterWithHarness, RegistrationFails
    <2> QED
      BY <2>1, RegisteredChanges
  <1>5. CASE Resume(l)
    BY <1>5, ResumeChanges
  <1>6. CASE Submit(l)
    BY <1>6, SubmitChanges
  <1>7. CASE SwitchTo(l)
    BY <1>7, SwitchToChanges
  <1> QED
    BY <1>1, <1>2, <1>3, <1>4, <1>5, <1>6, <1>7 DEF Launch

LEMMA InitCrews ==
  ASSUME Init
  PROVE  CrewInv
  <1>1. \A m, k : Launcher(m, k).input = NONE
    BY DEF Launcher
  <1>2. \A l \in Launchers : launcher[l].input = NONE
    BY <1>1 DEF Init
  <1> QED
    BY <1>2 DEF CrewInv

LEMMA StepCrews ==
  ASSUME CrewInv, LaunchersAreRecords, [Next]_vars
  PROVE  CrewInv'
  <1>1. ASSUME NEW l \in Launchers, Launch(l)
        PROVE  CrewInv'
    <2>1. SUFFICES ASSUME NEW k \in Launchers,
                          launcher'[k].mode = "crew", launcher'[k].input # NONE
                   PROVE  /\ launcher'[k].choice \in Invocations
                          /\ launcher'[k].choice.crew # NONE
                          /\ launcher'[k].input = InputOf(launcher'[k].choice)
      BY DEF CrewInv
    <2>2. CASE Configure(l)
      <3>1. Changes(l, {"step", "input", "choice"})
        BY <2>2, ConfigureChanges
      <3>2. launcher'[l].mode = launcher[l].mode
        BY <3>1 DEF Changes, Fields
      <3>3. CASE k = l
        BY <2>1, <2>2, <3>2, <3>3, ConfigureMakesInput
      <3>4. CASE k # l
        <4>1. launcher'[k] = launcher[k]
          BY <3>1, <3>4 DEF Changes
        <4> QED
          BY <2>1, <4>1 DEF CrewInv
      <3> QED
        BY <3>3, <3>4
    <2>3. CASE ~Configure(l)
      <3>1. PICK fs : Changes(l, fs) /\ fs \cap {"mode", "input", "choice"} = {}
        BY <1>1, <2>3, InputStays
      <3>2. /\ launcher'[k].mode = launcher[k].mode
            /\ launcher'[k].input = launcher[k].input
            /\ launcher'[k].choice = launcher[k].choice
        BY <3>1 DEF Changes, Fields
      <3> QED
        BY <2>1, <3>2 DEF CrewInv
    <2> QED
      BY <2>2, <2>3
  <1>2. CASE Workflow \/ ReplaceWorker \/ AnySignal \/ UNCHANGED vars
    <2>1. launcher' = launcher
      BY <1>2 DEF Workflow, BeginRun, TakeSignals, CheckCredentials, ContinueAsNew,
             ReplaceWorker, AnySignal, vars
    <2> QED
      BY <2>1 DEF CrewInv
  <1> QED
    BY <1>1, <1>2 DEF Next

\* The input an invocation with a crew comes to: the fields of ApplyCrew, over
\* config.toml and the environment.
LEMMA CrewInput ==
  ASSUME NEW choice \in Invocations, choice.crew # NONE, InputOf(choice) # NONE
  PROVE  LET crew == LoadCrew(choice.crew)
             base == ApplyEnv(BaseInput(Config.model, Config.approval_policy,
                                        Config.web_search_mode), choice.env)
         IN /\ crew # NONE
            /\ HasInputFields(base)
            /\ base.approval_policy =
                 IF choice.env.approval_policy \in {"never", "untrusted", "on-failure"}
                 THEN choice.env.approval_policy ELSE Config.approval_policy
            /\ Members(DefaultCrew) \subseteq DOMAIN base.crew_agents
            /\ InputOf(choice) = ApplyCrew(crew, choice.given, base)
  <1> DEFINE crew == LoadCrew(choice.crew)
             first == BaseInput(Config.model, Config.approval_policy,
                                Config.web_search_mode)
             base == ApplyEnv(first, choice.env)
  <1>1. InputOf(choice) = IF crew = NONE THEN NONE
                          ELSE ApplyCrew(crew, choice.given, base)
    BY DEF InputOf
  <1>2. /\ HasInputFields(first)
        /\ first.approval_policy = Config.approval_policy
        /\ Members(DefaultCrew) \subseteq DOMAIN first.crew_agents
    BY BaseInputFields
  <1> HIDE DEF first
  <1>3. /\ HasInputFields(base)
        /\ base.approval_policy =
             IF choice.env.approval_policy \in {"never", "untrusted", "on-failure"}
             THEN choice.env.approval_policy ELSE first.approval_policy
        /\ base.crew_agents = first.crew_agents
    BY <1>2, ApplyEnvFields
  <1> HIDE DEF base, crew
  <1>4. /\ crew # NONE
        /\ HasInputFields(base)
        /\ base.approval_policy =
             IF choice.env.approval_policy \in {"never", "untrusted", "on-failure"}
             THEN choice.env.approval_policy ELSE Config.approval_policy
        /\ Members(DefaultCrew) \subseteq DOMAIN base.crew_agents
        /\ InputOf(choice) = ApplyCrew(crew, choice.given, base)
    BY <1>1, <1>2, <1>3
  <1> QED
    BY <1>4 DEF base, crew, first

\* CrewIsApplied: the crew of a session is applied over config.toml and the
\* environment (apply_crew_type, src/src/config_loader.rs:304), and its
\* placeholders are replaced as if at once unless a value holds one itself
\* (interpolate, src/src/config_loader.rs:375), whatever the crews are.
THEOREM CrewsAreApplied == Spec => []CrewIsApplied
  <1>1. ASSUME ListInv, CrewInv
        PROVE  CrewIsApplied
    <2> SUFFICES ASSUME NEW l \in Launchers,
                        started[l] # NONE, launcher[l].mode = "crew"
                 PROVE  LET input == started[l]
                            choice == launcher[l].choice
                            crew == LoadCrew(choice.crew)
                            values == Values(crew, choice.given)
                            Is(text, template) ==
                              template # NONE /\ Independent(values)
                              => text = Simultaneous(template, values)
                        IN /\ Missing(crew, choice.given) = {}
                           /\ input.approval_policy =
                                IF crew.approval_policy # NONE THEN crew.approval_policy
                                ELSE IF choice.env.approval_policy \in
                                          {"never", "untrusted", "on-failure"}
                                THEN choice.env.approval_policy
                                ELSE Config.approval_policy
                           /\ crew.mode = "autonomous" =>
                                Is(input.user_message, crew.initial_prompt)
                           /\ \A a \in DOMAIN crew.agents :
                                IF a = crew.main_agent
                                THEN /\ crew.agents[a].model \in {NONE, input.model}
                                     /\ Is(input.instructions, crew.agents[a].instructions)
                                ELSE /\ input.crew_agents[a].model = crew.agents[a].model
                                     /\ Is(input.crew_agents[a].instructions,
                                           crew.agents[a].instructions)
                           /\ Members(DefaultCrew) \subseteq DOMAIN input.crew_agents
      BY DEF CrewIsApplied
    <2> DEFINE input == started[l]
               choice == launcher[l].choice
               crew == LoadCrew(choice.crew)
               values == Values(crew, choice.given)
               base == ApplyEnv(BaseInput(Config.model, Config.approval_policy,
                                          Config.web_search_mode), choice.env)
               Is(text, template) ==
                 template # NONE /\ Independent(values)
                 => text = Simultaneous(template, values)
    <2>1. input = launcher[l].input
      BY <1>1 DEF ListInv, Own
    <2>2. /\ choice \in Invocations /\ choice.crew # NONE
          /\ input = InputOf(choice) /\ input # NONE
      BY <1>1, <2>1 DEF CrewInv
    <2>3. /\ crew # NONE
          /\ HasInputFields(base)
          /\ base.approval_policy =
               IF choice.env.approval_policy \in {"never", "untrusted", "on-failure"}
               THEN choice.env.approval_policy ELSE Config.approval_policy
          /\ Members(DefaultCrew) \subseteq DOMAIN base.crew_agents
          /\ input = ApplyCrew(crew, choice.given, base)
      BY <2>2, CrewInput
    <2>4. IsCrew(crew)
      BY <2>3, CrewsAreCrews
    <2>5. IsTable(values)
      BY <2>2, <2>4, ValuesAreTexts, HarnessAssumption
    <2> HIDE DEF base, choice, crew, input
    <2>6. /\ Missing(crew, choice.given) = {}
          /\ input.approval_policy = IF crew.approval_policy # NONE
                                     THEN crew.approval_policy
                                     ELSE base.approval_policy
          /\ crew.mode = "autonomous" /\ crew.initial_prompt # NONE =>
               input.user_message = Interpolate(crew.initial_prompt, values)
          /\ crew.main_agent \in DOMAIN crew.agents =>
               /\ crew.agents[crew.main_agent].model \in {NONE, input.model}
               /\ crew.agents[crew.main_agent].instructions # NONE =>
                    input.instructions =
                      Interpolate(crew.agents[crew.main_agent].instructions, values)
          /\ \A a \in Members(crew) :
               /\ input.crew_agents[a].model = crew.agents[a].model
               /\ input.crew_agents[a].instructions =
                    Interpolated(crew.agents[a].instructions, values)
          /\ DOMAIN base.crew_agents \subseteq DOMAIN input.crew_agents
      BY <2>2, <2>3, <2>4, ApplyCrewFields
    <2> HIDE DEF values
    <2>7. ASSUME NEW template, IsTextOrNone(template), template # NONE,
                 Independent(values)
          PROVE  Interpolate(template, values) = Simultaneous(template, values)
      BY <2>5, <2>7, InterpolationIsSimultaneous DEF IsTextOrNone
    <2>8. /\ IsTextOrNone(crew.initial_prompt)
          /\ \A a \in DOMAIN crew.agents : IsTextOrNone(crew.agents[a].instructions)
      BY <2>4 DEF IsCrew
    <2>9. crew.mode = "autonomous" => Is(input.user_message, crew.initial_prompt)
      BY <2>6, <2>7, <2>8
    <2>10. ASSUME NEW a \in DOMAIN crew.agents
           PROVE  IF a = crew.main_agent
                  THEN /\ crew.agents[a].model \in {NONE, input.model}
                       /\ Is(input.instructions, crew.agents[a].instructions)
                  ELSE /\ input.crew_agents[a].model = crew.agents[a].model
                       /\ Is(input.crew_agents[a].instructions,
                             crew.agents[a].instructions)
      <3>1. CASE a = crew.main_agent
        BY <2>6, <2>7, <2>8, <3>1
      <3>2. CASE a # crew.main_agent
        <4>1. a \in Members(crew)
          BY <3>2 DEF Members
        <4> QED
          BY <2>6, <2>7, <2>8, <3>2, <4>1 DEF Interpolated
      <3> QED
        BY <3>1, <3>2
    <2>11. /\ Members(DefaultCrew) \subseteq DOMAIN input.crew_agents
           /\ input.approval_policy =
                IF crew.approval_policy # NONE THEN crew.approval_policy
                ELSE IF choice.env.approval_policy \in {"never", "untrusted", "on-failure"}
                THEN choice.env.approval_policy ELSE Config.approval_policy
      BY <2>3, <2>6
    <2> QED
      BY <2>6, <2>9, <2>10, <2>11 DEF input, choice, crew, values
  <1>2. Spec => []CrewInv
    <2>1. CheckInv => LaunchersAreRecords
      BY DEF CheckInv
    <2> QED
      BY <2>1, InitCrews, StepCrews, CheckInvHolds, PTL DEF Spec
  <1> QED
    BY <1>1, <1>2, ListInvHolds, PTL

=============================================================================
