----------------------- MODULE ScrapeEvidenceLogProofs -----------------------
(***************************************************************************)
(* ScrapeEvidence implements PriceLog: seen through the unfinished rows    *)
(* and the accepted prices of a target, every request ends in at most one  *)
(* price, judged against the last one.                                     *)
(*                                                                         *)
(* The argument: the history is only appended to, so the i-th entry of a   *)
(* target stays the i-th, and the new one is the last; the last one has    *)
(* the price that the target shows, which is what the validator used.      *)
(***************************************************************************)
EXTENDS ScrapeEvidenceProofs, FiniteSetTheorems

\* no rank is missing
Filled(S) == \A i \in 1 .. Cardinality(S) : Ranked(S, i) # {}

\* the target's price is that of its last entry
LogFollows ==
    \A t \in Targets :
      /\ Filled(Entries(t))
      /\ \/ Entries(t) = {} /\ current[t] = NoPrice
         \/ \E k \in 1 .. Len(changes) :
              Latest(k, Entries(t)) /\ current[t].price = PriceIn(k)

Pending == {TargetOf[r] : r \in Unfinished}

-----------------------------------------------------------------------------
(* Ranks                                                                    *)

\* A greatest element gets the next rank, and the others keep theirs.
LEMMA NextRank ==
    ASSUME NEW S \in SUBSET Int, IsFiniteSet(S), NEW n \in Int, \A k \in S : k < n
    PROVE  /\ Cardinality(S) \in Nat /\ Cardinality(S \union {n}) = Cardinality(S) + 1
           /\ \A i \in 1 .. Cardinality(S) : Ranked(S \union {n}, i) = Ranked(S, i)
           /\ Ranked(S \union {n}, Cardinality(S) + 1) = {n}
<1> DEFINE T == S \union {n}
           Upto(U, k) == {j \in U : j <= k}
<1>1. Cardinality(S) \in Nat BY FS_CardinalityType
<1>2. n \notin S OBVIOUS
<1>3. Cardinality(T) = Cardinality(S) + 1 BY <1>2, FS_AddElement, Zenon
<1>4. \A k \in S : Upto(T, k) = Upto(S, k) OBVIOUS
<1>5. \A k \in S : Cardinality(Upto(S, k)) \in Nat /\ Cardinality(Upto(S, k)) <= Cardinality(S)
  <2>1. \A k \in S : Upto(S, k) \in SUBSET S OBVIOUS
  <2> HIDE DEF Upto
  <2>2. ASSUME NEW U \in SUBSET S
        PROVE  Cardinality(U) \in Nat /\ Cardinality(U) <= Cardinality(S)
    <3>1. IsFiniteSet(U) /\ Cardinality(U) <= Cardinality(S) BY FS_Subset
    <3> QED BY <3>1, FS_CardinalityType
  <2> QED BY <2>1, <2>2
<1>6. Upto(T, n) = T
  <2>1. \A j \in T : j <= n OBVIOUS
  <2> HIDE DEF T
  <2> QED BY <2>1
<1>7. \A i : Ranked(S, i) = {k \in S : Cardinality(Upto(S, k)) = i}
  BY DEF Ranked
<1>8. \A i : Ranked(T, i) = {k \in T : Cardinality(Upto(T, k)) = i}
  BY DEF Ranked
<1>9. n \in T /\ \A k \in T : k \in S \/ k = n OBVIOUS
<1>10. S \subseteq T OBVIOUS
<1> HIDE DEF Upto, T
<1>11. ASSUME NEW i \in 1 .. Cardinality(S) PROVE Ranked(T, i) = Ranked(S, i)
  <2>1. Cardinality(Upto(T, n)) # i BY <1>1, <1>3, <1>6
  <2>2. ASSUME NEW k \in Ranked(T, i) PROVE k \in Ranked(S, i)
    <3>1. k \in T /\ Cardinality(Upto(T, k)) = i BY <1>8
    <3>2. k \in S BY <1>9, <2>1, <3>1
    <3> QED BY <1>4, <1>7, <3>1, <3>2
  <2>3. ASSUME NEW k \in Ranked(S, i) PROVE k \in Ranked(T, i)
    <3>1. k \in S /\ Cardinality(Upto(S, k)) = i BY <1>7
    <3> QED BY <1>4, <1>8, <1>10, <3>1
  <2> QED BY <2>2, <2>3
<1>12. Ranked(T, Cardinality(S) + 1) = {n}
  <2>1. \A k \in S : Cardinality(Upto(T, k)) # Cardinality(S) + 1 BY <1>1, <1>4, <1>5
  <2>2. n \in Ranked(T, Cardinality(S) + 1) BY <1>3, <1>6, <1>8, <1>9
  <2>3. \A k \in Ranked(T, Cardinality(S) + 1) : k = n BY <1>8, <1>9, <2>1
  <2> QED BY <2>2, <2>3
<1> QED BY <1>1, <1>3, <1>11, <1>12 DEF T

LEMMA NextFilled ==
    ASSUME NEW S \in SUBSET Int, IsFiniteSet(S), NEW n \in Int, \A k \in S : k < n, Filled(S)
    PROVE  Filled(S \union {n})
<1>1. /\ Cardinality(S) \in Nat /\ Cardinality(S \union {n}) = Cardinality(S) + 1
      /\ \A i \in 1 .. Cardinality(S) : Ranked(S \union {n}, i) = Ranked(S, i)
      /\ Ranked(S \union {n}, Cardinality(S) + 1) = {n}
  BY NextRank
<1>2. \A i \in 1 .. Cardinality(S) + 1 : i \in 1 .. Cardinality(S) \/ i = Cardinality(S) + 1
  BY <1>1
<1> QED BY <1>1, <1>2 DEF Filled

LEMMA LastRank ==
    ASSUME NEW S \in SUBSET Int, IsFiniteSet(S), NEW n, Latest(n, S)
    PROVE  Cardinality(S) \in Nat \ {0} /\ Nth(S, Cardinality(S)) = n
<1> DEFINE R == S \ {n}
<1>1. n \in Int /\ R \in SUBSET Int /\ S = R \union {n} /\ \A k \in R : k < n
  BY DEF Latest
<1>2. IsFiniteSet(R) BY FS_RemoveElement
<1> HIDE DEF R
<1>3. Cardinality(R) \in Nat /\ Cardinality(S) = Cardinality(R) + 1
      /\ Ranked(S, Cardinality(R) + 1) = {n}
  BY <1>1, <1>2, NextRank
<1>4. Ranked(S, Cardinality(S)) = {n} BY <1>3
<1> QED BY <1>3, <1>4 DEF Nth

LEMMA NthIn ==
    ASSUME NEW S, Filled(S), NEW i \in 1 .. Cardinality(S)
    PROVE  Nth(S, i) \in S
<1>1. Ranked(S, i) # {} BY DEF Filled
<1>2. Nth(S, i) \in Ranked(S, i) BY <1>1 DEF Nth
<1> QED BY <1>2 DEF Ranked

\* f is a sequence of length n
IsList(f, n) == f = [i \in 1 .. n |-> f[i]]

\* A sequence that another one goes on.
LEMMA GoesOn ==
    ASSUME NEW n \in Nat, NEW f, IsList(f, n), NEW g, IsList(g, n + 1),
           \A i \in 1 .. n : g[i] = f[i]
    PROVE  g = Append(f, g[n + 1]) /\ Len(f) = n
<1> DEFINE S == {f[i] : i \in 1 .. n} \union {g[i] : i \in 1 .. n + 1}
<1>1. f \in [1 .. n -> S] /\ g \in [1 .. n + 1 -> S] /\ g[n + 1] \in S
  BY DEF IsList
<1> HIDE DEF S
<1>2. f \in Seq(S) /\ g \in Seq(S) BY <1>1
<1>3. Len(f) = n /\ Len(g) = n + 1 BY <1>1, <1>2
<1>4. PICK a : a = Append(f, g[n + 1]) OBVIOUS
<1>5. /\ a \in Seq(S) /\ Len(a) = n + 1
      /\ \A i \in 1 .. n : a[i] = f[i]
      /\ a[n + 1] = g[n + 1]
  BY <1>1, <1>2, <1>3, <1>4, AppendProperties
<1>6. \A i \in 1 .. n + 1 : i \in 1 .. n \/ i = n + 1 OBVIOUS
<1>7. \A i \in 1 .. n + 1 : a[i] = g[i] BY <1>5, <1>6
<1>8. a = g BY <1>2, <1>3, <1>5, <1>7, SeqEqual
<1> QED BY <1>3, <1>4, <1>8

-----------------------------------------------------------------------------
(* The log as it stands                                                     *)

LEMMA EntriesTyped ==
    ASSUME IInv, NEW t
    PROVE  /\ Len(changes) \in Nat
           /\ Entries(t) \in SUBSET Int /\ IsFiniteSet(Entries(t))
           /\ \A k \in Entries(t) : k \in 1 .. Len(changes)
           /\ Cardinality(Entries(t)) \in Nat
<1>1. Len(changes) \in Nat BY LenProperties DEF IInv, HistoryFollows, HistoryOf
<1>2. IsFiniteSet(1 .. Len(changes)) BY <1>1, FS_Interval
<1>3. Entries(t) \in SUBSET (1 .. Len(changes)) BY DEF Entries
<1>4. IsFiniteSet(Entries(t)) BY <1>2, <1>3, FS_Subset
<1>5. Cardinality(Entries(t)) \in Nat BY <1>4, FS_CardinalityType
<1> QED BY <1>1, <1>3, <1>4, <1>5

LEMMA LogOf ==
    ASSUME IInv, NEW t \in Targets
    PROVE  /\ IsList(AcceptedPrices[t], Cardinality(Entries(t)))
           /\ \A i \in 1 .. Cardinality(Entries(t)) :
                AcceptedPrices[t][i] = PriceIn(Nth(Entries(t), i))
           /\ Len(AcceptedPrices[t]) = Cardinality(Entries(t))
<1>1. PICK n \in Nat : n = Cardinality(Entries(t)) BY EntriesTyped
<1>2. PICK f : f = AcceptedPrices[t] OBVIOUS
<1>3. f = [i \in 1 .. n |-> PriceIn(Nth(Entries(t), i))]
  BY <1>1, <1>2 DEF AcceptedPrices
<1>4. IsList(f, n) /\ \A i \in 1 .. n : f[i] = PriceIn(Nth(Entries(t), i))
  BY <1>3 DEF IsList
<1>5. Len(f) = n
  <2>1. PICK g : g = [i \in 1 .. n + 1 |-> IF i \in 1 .. n THEN f[i] ELSE 0] OBVIOUS
  <2>2. IsList(g, n + 1) /\ \A i \in 1 .. n : g[i] = f[i] BY <2>1 DEF IsList
  <2> QED BY <1>4, <2>2, GoesOn
<1> QED BY <1>1, <1>2, <1>4, <1>5

\* The last price of the log is the price that the target shows.
LEMMA LastIsCurrent ==
    ASSUME IInv, LogFollows, NEW t \in Targets
    PROVE  Log!LastPrice(t) = current[t].price
<1>1. PICK f, n : f = AcceptedPrices[t] /\ n = Cardinality(Entries(t)) OBVIOUS
<1>2. /\ IsList(f, n) /\ Len(f) = n /\ n \in Nat
      /\ \A i \in 1 .. n : f[i] = PriceIn(Nth(Entries(t), i))
  BY <1>1, LogOf, EntriesTyped
<1>3. CASE Entries(t) = {} /\ current[t] = NoPrice
  <2>1. n = 0 BY <1>1, <1>3, FS_EmptySet
  <2>2. f = <<>> BY <1>2, <2>1 DEF IsList
  <2> QED BY <1>1, <1>3, <2>2 DEF Log!LastPrice, NoPrice
<1>4. ASSUME NEW k \in 1 .. Len(changes), Latest(k, Entries(t)), current[t].price = PriceIn(k)
      PROVE  Log!LastPrice(t) = current[t].price
  <2>1. n \in Nat \ {0} /\ Nth(Entries(t), n) = k
    BY <1>1, <1>4, EntriesTyped, LastRank
  <2>2. f # <<>> /\ f[n] = PriceIn(k) BY <1>2, <2>1 DEF IsList
  <2> QED BY <1>1, <1>2, <1>4, <2>2 DEF Log!LastPrice
<1> QED BY <1>3, <1>4 DEF LogFollows

LEMMA InitLog == Init => Log!LogInit /\ LogFollows
<1> SUFFICES ASSUME Init PROVE Log!LogInit /\ LogFollows OBVIOUS
<1>1. \A t : Entries(t) = {} BY DEF Init, AlertInit, Entries
<1>2. Cardinality({}) = 0 BY FS_EmptySet
<1>3. \A t \in Targets : [i \in 1 .. Cardinality(Entries(t)) |-> PriceIn(Nth(Entries(t), i))] = <<>>
  BY <1>1, <1>2
<1>4. AcceptedPrices = [t \in Targets |-> <<>>] BY <1>3 DEF AcceptedPrices
<1>5. Unfinished = {} BY DEF Init, Unfinished, NoRow
<1>6. Filled({}) BY <1>2 DEF Filled
<1>7. LogFollows BY <1>1, <1>6 DEF LogFollows, Init
<1> QED BY <1>4, <1>5, <1>7 DEF Log!LogInit

-----------------------------------------------------------------------------
(* A step on the log                                                        *)

\* accepted rows stay as they are
Kept == \A r \in Results : rows[r].status = "succeeded" => rows'[r] = rows[r]

LEMMA EntryStays ==
    ASSUME IInv, Kept, NEW k \in 1 .. Len(changes), changes'[k] = changes[k]
    PROVE  PriceIn(k)' = PriceIn(k)
<1>1. changes[k].row \in Results /\ rows[changes[k].row].status = "succeeded"
  BY AcceptedRow
<1>2. rows'[changes[k].row] = rows[changes[k].row] BY <1>1 DEF Kept
<1> QED BY <1>2 DEF PriceIn

LEMMA LogStays ==
    ASSUME IInv, LogFollows, Kept, UNCHANGED <<changes, current>>
    PROVE  LogFollows' /\ UNCHANGED AcceptedPrices
<1>1. \A t : Entries(t)' = Entries(t) BY DEF Entries
<1>2. \A k \in 1 .. Len(changes) : PriceIn(k)' = PriceIn(k) BY EntryStays
<1>3. ASSUME NEW t \in Targets, NEW i \in 1 .. Cardinality(Entries(t))
      PROVE  PriceIn(Nth(Entries(t), i))' = PriceIn(Nth(Entries(t), i))
  <2>1. Nth(Entries(t), i) \in Entries(t) BY NthIn DEF LogFollows
  <2>2. Nth(Entries(t), i)' = Nth(Entries(t), i) BY <1>1 DEF Nth, Ranked
  <2> QED BY <1>2, <2>1, <2>2, EntriesTyped
<1>4. UNCHANGED AcceptedPrices BY <1>1, <1>3 DEF AcceptedPrices
<1>5. LogFollows' BY <1>1, <1>2 DEF LogFollows, Filled, Ranked, Latest
<1> QED BY <1>4, <1>5

LEMMA LogGrows ==
    ASSUME IInv, LogFollows, Kept, NEW r \in Results, NEW c \in Change, c.row = r,
           changes' = Append(changes, c),
           NEW money, money.price = rows'[r].product.price,
           current' = [current EXCEPT ![TargetOf[r]] = money]
    PROVE  /\ LogFollows'
           /\ AcceptedPrices' =
                [AcceptedPrices EXCEPT ![TargetOf[r]] = Append(@, rows'[r].product.price)]
<1>1. PICK n, t, p :
        n = Len(changes) + 1 /\ t = TargetOf[r] /\ p = rows'[r].product.price
  OBVIOUS
<1>2. /\ t \in Targets /\ Len(changes) \in Nat /\ n \in Nat /\ n \notin 1 .. Len(changes)
      /\ 1 .. n = (1 .. Len(changes)) \union {n}
  BY <1>1, EntriesTyped DEF Targets
<1>3. /\ Len(changes') = n /\ changes'[n] = c
      /\ \A k \in 1 .. Len(changes) : changes'[k] = changes[k]
  <2>1. changes \in Seq(Change) BY DEF IInv, HistoryFollows, HistoryOf
  <2> QED BY <1>1, <2>1, AppendProperties
<1>4. /\ current'[t] = money
      /\ \A u \in Targets : u # t => current'[u] = current[u]
  BY <1>1, <1>2 DEF IInv, Base, RulesTyped
<1>5. \A k \in 1 .. Len(changes) : PriceIn(k)' = PriceIn(k) BY <1>3, EntryStays
<1>6. PriceIn(n)' = p BY <1>1, <1>3 DEF PriceIn
<1>7. Entries(t)' = Entries(t) \union {n}
  BY <1>1, <1>2, <1>3 DEF Entries
<1>8. \A u : u # t => Entries(u)' = Entries(u)
  BY <1>1, <1>2, <1>3 DEF Entries
\* the other targets
<1>9. ASSUME NEW u \in Targets, u # t
      PROVE  /\ Filled(Entries(u))'
             /\ \/ Entries(u)' = {} /\ current'[u] = NoPrice
                \/ \E k \in 1 .. n : Latest(k, Entries(u)') /\ current'[u].price = PriceIn(k)'
             /\ AcceptedPrices'[u] = AcceptedPrices[u]
  <2>1. Entries(u)' = Entries(u) /\ current'[u] = current[u] BY <1>4, <1>8, <1>9
  <2>2. Filled(Entries(u))' BY <2>1 DEF LogFollows, Filled, Ranked
  <2>3. Entries(u) = {} /\ current[u] = NoPrice
          => Entries(u)' = {} /\ current'[u] = NoPrice
    BY <2>1
  <2>4. ASSUME NEW k \in 1 .. Len(changes), Latest(k, Entries(u)), current[u].price = PriceIn(k)
        PROVE  \E j \in 1 .. n : Latest(j, Entries(u)') /\ current'[u].price = PriceIn(j)'
    BY <1>2, <1>5, <2>1, <2>4
  <2>5. AcceptedPrices'[u] = AcceptedPrices[u]
    <3>1. ASSUME NEW i \in 1 .. Cardinality(Entries(u))
          PROVE  PriceIn(Nth(Entries(u), i))' = PriceIn(Nth(Entries(u), i))
      <4>1. Nth(Entries(u), i) \in Entries(u) BY <1>9, NthIn DEF LogFollows
      <4>2. Nth(Entries(u), i)' = Nth(Entries(u), i) BY <2>1 DEF Nth, Ranked
      <4> QED BY <1>5, <4>1, <4>2, EntriesTyped
    <3> QED BY <1>9, <2>1, <3>1 DEF AcceptedPrices
  <2> QED BY <1>9, <2>2, <2>3, <2>4, <2>5 DEF LogFollows
\* the target of the row
<1>10. /\ Entries(t) \in SUBSET Int /\ IsFiniteSet(Entries(t))
       /\ Cardinality(Entries(t)) \in Nat /\ \A k \in Entries(t) : k \in 1 .. Len(changes)
  BY EntriesTyped
<1>11. n \in Int /\ \A k \in Entries(t) : k < n BY <1>1, <1>2, <1>10
<1>12. /\ Cardinality(Entries(t)') = Cardinality(Entries(t)) + 1
       /\ \A i \in 1 .. Cardinality(Entries(t)) : Ranked(Entries(t)', i) = Ranked(Entries(t), i)
       /\ Ranked(Entries(t)', Cardinality(Entries(t)) + 1) = {n}
  <2>1. PICK E, F : E = Entries(t) /\ F = Entries(t)' OBVIOUS
  <2>2. /\ E \in SUBSET Int /\ IsFiniteSet(E) /\ F = E \union {n}
        /\ \A k \in E : k < n
    BY <1>7, <1>10, <1>11, <2>1
  <2>3. /\ Cardinality(E \union {n}) = Cardinality(E) + 1
        /\ \A i \in 1 .. Cardinality(E) : Ranked(E \union {n}, i) = Ranked(E, i)
        /\ Ranked(E \union {n}, Cardinality(E) + 1) = {n}
    BY <1>11, <2>2, NextRank
  <2> QED BY <2>1, <2>2, <2>3
<1>13. Filled(Entries(t)')
  BY <1>2, <1>7, <1>10, <1>11, NextFilled DEF LogFollows
<1>14. Latest(n, Entries(t)') /\ current'[t].price = PriceIn(n)' /\ n \in 1 .. n
  BY <1>1, <1>2, <1>4, <1>6, <1>7, <1>10, <1>11 DEF Latest
<1>15. AcceptedPrices'[t] = Append(AcceptedPrices[t], p)
  <2>1. PICK m \in Nat : m = Cardinality(Entries(t)) BY <1>10
  <2>2. PICK f, g : f = AcceptedPrices[t] /\ g = AcceptedPrices'[t] OBVIOUS
  <2>3. IsList(f, m) /\ \A i \in 1 .. m : f[i] = PriceIn(Nth(Entries(t), i))
    BY <1>2, <2>1, <2>2, LogOf
  <2>4. g = [i \in 1 .. m + 1 |-> PriceIn(Nth(Entries(t), i))']
    BY <1>2, <1>12, <2>1, <2>2 DEF AcceptedPrices
  <2>5. IsList(g, m + 1) /\ \A i \in 1 .. m + 1 : g[i] = PriceIn(Nth(Entries(t), i))'
    BY <2>4 DEF IsList
  <2>6. ASSUME NEW i \in 1 .. m PROVE g[i] = f[i]
    <3>1. Nth(Entries(t), i)' = Nth(Entries(t), i) BY <1>12, <2>1 DEF Nth
    <3>2. Nth(Entries(t), i) \in Entries(t) BY <1>2, <2>1, NthIn DEF LogFollows
    <3>3. PriceIn(Nth(Entries(t), i))' = PriceIn(Nth(Entries(t), i))
      BY <1>5, <1>10, <3>1, <3>2
    <3> QED BY <2>1, <2>3, <2>5, <3>3
  <2>7. g[m + 1] = p
    <3>1. Nth(Entries(t), m + 1)' = n BY <1>12, <2>1 DEF Nth
    <3>2. PriceIn(Nth(Entries(t), m + 1))' = p BY <1>6, <3>1
    <3> QED BY <2>1, <2>5, <3>2
  <2>8. g = Append(f, g[m + 1]) BY <2>3, <2>5, <2>6, GoesOn
  <2> QED BY <2>2, <2>7, <2>8
<1>16. LogFollows'
  <2> SUFFICES ASSUME NEW u \in Targets
               PROVE  /\ Filled(Entries(u))'
                      /\ \/ Entries(u)' = {} /\ current'[u] = NoPrice
                         \/ \E k \in 1 .. n :
                              Latest(k, Entries(u)') /\ current'[u].price = PriceIn(k)'
    BY <1>3 DEF LogFollows, NoPrice
  <2>1. CASE u = t
    <3>1. Filled(Entries(t))' BY <1>13
    <3> QED BY <1>14, <2>1, <3>1
  <2>2. CASE u # t BY <1>9, <2>2
  <2> QED BY <2>1, <2>2
<1>17. AcceptedPrices' = [AcceptedPrices EXCEPT ![t] = Append(@, p)]
  <2>1. /\ AcceptedPrices = [u \in Targets |-> AcceptedPrices[u]]
        /\ AcceptedPrices' = [u \in Targets |-> AcceptedPrices'[u]]
    BY DEF AcceptedPrices
  <2>2. \A u \in Targets : u # t => AcceptedPrices'[u] = AcceptedPrices[u] BY <1>9
  <2> QED BY <1>2, <1>15, <2>1, <2>2
<1> QED BY <1>1, <1>16, <1>17

-----------------------------------------------------------------------------
(* The requests                                                             *)

LEMMA SamePending ==
    ASSUME \A r \in Results : rows'[r].status \in Active <=> rows[r].status \in Active
    PROVE  UNCHANGED Pending
<1>1. Unfinished' = Unfinished BY DEF Unfinished, Active
<1> QED BY <1>1 DEF Pending

\* A row that ends was its target's only unfinished one.
LEMMA OneLess ==
    ASSUME IInv, NEW r \in Results, rows[r].status \in Active, rows'[r].status \in Ended,
           \A s \in Results \ {r} : rows'[s] = rows[s]
    PROVE  TargetOf[r] \in Pending /\ Pending' = Pending \ {TargetOf[r]}
<1>1. r \in Unfinished BY DEF Unfinished, Active
<1>2. ASSUME NEW s \in Unfinished, s # r PROVE TargetOf[s] # TargetOf[r]
  <2>1. s \in Results /\ rows[s].status \in Active BY DEF Unfinished, Active
  <2>2. s < r \/ r < s BY <1>2, <2>1, EvidenceAssumption
  <2> QED BY <2>1, <2>2 DEF IInv, InTurn, Active, Ended
<1>3. Unfinished' = Unfinished \ {r}
  <2>1. \A s \in Results : s \in Unfinished' <=> s \in Unfinished /\ s # r
    BY DEF Unfinished, Ended
  <2>2. Unfinished \subseteq Results /\ Unfinished' \subseteq Results BY DEF Unfinished
  <2> QED BY <2>1, <2>2
<1> QED BY <1>1, <1>2, <1>3 DEF Pending

-----------------------------------------------------------------------------
(* The steps                                                                *)

\* A step that accepts nothing and ends nothing.
LEMMA QuietStep ==
    ASSUME IInv, LogFollows, Kept, UNCHANGED <<changes, current>>,
           \A r \in Results : rows'[r].status \in Active <=> rows[r].status \in Active
    PROVE  LogFollows' /\ UNCHANGED Log!logVars
BY LogStays, SamePending DEF Log!logVars, Pending

LEMMA EnqueueLogged ==
    ASSUME IInv, LogFollows, NEW r \in Results, Enqueue(r)
    PROVE  LogFollows' /\ Log!LogNext
<1>1. /\ rows[r].status = "none" /\ rows'[r].status = "queued"
      /\ \A s \in Results \ {r} : rows'[s] = rows[s]
  BY DEF Enqueue, IInv, Base, RowsTyped, Row, IsRow
<1>2. TargetOf[r] \in Targets /\ TargetOf[r] \notin Pending
  BY DEF Targets, Pending, Unfinished, Enqueue
<1>3. Unfinished' = Unfinished \union {r}
  <2>1. \A s \in Results : s \in Unfinished' <=> s \in Unfinished \/ s = r
    BY <1>1 DEF Unfinished
  <2>2. Unfinished \subseteq Results /\ Unfinished' \subseteq Results BY DEF Unfinished
  <2> QED BY <2>1, <2>2
<1>4. Pending' = Pending \union {TargetOf[r]} BY <1>3 DEF Pending
<1>5. LogFollows' /\ UNCHANGED AcceptedPrices BY <1>1, LogStays DEF Kept, Enqueue
<1> QED BY <1>2, <1>4, <1>5 DEF Log!LogNext, Log!Request, Pending

LEMMA RefusalLogged ==
    ASSUME IInv, LogFollows, NEW w \in Workers, NEW r, NEW status \in {"invalid", "failed"},
           NEW kind, NEW codes, NEW product,
           Ends(w, r, status, kind, codes, product), UNCHANGED <<current, changes>>,
           product # None => /\ proc[w].pc = "judging" /\ product = Reading[proc[w].page]
                             /\ Reading[proc[w].page].failed = None,
           status = "failed" => Explained(kind, codes, proc[w].digest)
    PROVE  LogFollows' /\ Log!LogNext
<1>1. status \in Ended BY DEF Ended
<1>2. /\ r \in Results /\ rows[r].status = "running" /\ rows'[r].status = status
      /\ \A s \in Results \ {r} : rows'[s] = rows[s]
  <2>1. /\ r \in Results /\ rows[r].status = "running"
        /\ \E x : rows'[r] = x /\ x.status = status
        /\ \A s \in Results \ {r} : rows'[s] = rows[s]
    BY ONLY <1>1, EndedRow, IInv, w \in Workers, Ends(w, r, status, kind, codes, product),
            product # None => /\ proc[w].pc = "judging" /\ product = Reading[proc[w].page]
                              /\ Reading[proc[w].page].failed = None,
            status = "failed" => Explained(kind, codes, proc[w].digest)
  <2> QED BY <2>1
<1>3. TargetOf[r] \in Pending /\ Pending' = Pending \ {TargetOf[r]}
  BY <1>1, <1>2, OneLess DEF Active
<1>4. LogFollows' /\ UNCHANGED AcceptedPrices BY <1>2, LogStays DEF Kept
<1>5. TargetOf[r] \in Targets BY <1>2 DEF Targets
<1> QED BY <1>3, <1>4, <1>5 DEF Log!LogNext, Log!GiveUp, Pending

\* What the validator let pass is within the ratio of the price it replaces.
LEMMA AcceptedWithin ==
    ASSUME IInv, NEW w \in Workers, NEW r \in Results, r = proc[w].row,
           NEW product, proc[w].pc = "judging", rows[r].owner = w,
           product = Reading[proc[w].page], product.failed = None,
           Accepts(product, TargetAt(w)),
           product.price \in ShownPrices, product.price > 0,
           current[TargetOf[r]] # NoPrice =>
             /\ current[TargetOf[r]].price \in ShownPrices
             /\ current[TargetOf[r]].price > 0
    PROVE  <<current[TargetOf[r]].price, product.price>> \in WithinRatio[TargetOf[r]]
<1>1. PICK t \in Targets : t = TargetOf[r] BY DEF Targets
<1>2. PICK old, new : old = current[t].price /\ new = product.price OBVIOUS
<1>3. proc[w].previous = current[t] BY <1>1 DEF IInv, Snapshots
<1>4. current[t] \in Moneys BY DEF IInv, Base, RulesTyped
<1>5. ~ TooLargeChange(product, TargetAt(w))
      /\ TargetAt(w).previousCurrency \in {None, product.currency}
  BY AcceptedProduct
<1>6. CASE current[t] = NoPrice
  <2>1. old = 0 BY <1>2, <1>6 DEF NoPrice
  <2> QED BY <1>1, <1>2, <2>1 DEF WithinRatio
<1>7. CASE current[t] # NoPrice
  <2>1. PICK p \in Legible : current[t] = Money(Reading[p]) BY <1>4, <1>7 DEF Moneys
  <2>2. old \in Int /\ old # None BY <1>2, <2>1, ReadingAssumption DEF Money, Legible
  <2>3. old > 0 /\ old \in ShownPrices BY <1>1, <1>2, <1>7
  <2>4. proc[w].page \in Legible BY DEF Legible, IInv, Base, ProcsTyped, Attempt
  <2>5. new \in Int BY <1>2, <2>4, ReadingAssumption DEF Legible
  <2>6. PICK target : target = TargetAt(w) OBVIOUS
  <2>7. target.previous = old /\ target.ratio = TargetInfo[t].ratio
    BY <1>1, <1>2, <1>3, <1>7, <2>6 DEF TargetAt, ScrapeTarget
  <2>8. ~ 100 * Distance(new, old) > target.ratio * old
    BY <1>2, <1>5, <2>2, <2>3, <2>6, <2>7 DEF TooLargeChange
  <2>9. PICK bound : bound = TargetInfo[t].ratio * old OBVIOUS
  <2>10. bound \in Int
    <3>1. TargetInfo[t].ratio \in Int BY SettingAssumption
    <3> QED BY <2>2, <2>9, <3>1
  <2>11. Distance(new, old) \in Int BY <2>2, <2>5 DEF Distance
  <2>12. 100 * Distance(new, old) <= bound
    BY <2>7, <2>8, <2>9, <2>10, <2>11
  <2>13. 100 * Distance(new, old) <= TargetInfo[t].ratio * old BY <2>9, <2>12
  <2> QED BY <1>1, <1>2, <2>3, <2>13 DEF WithinRatio
<1> QED BY <1>6, <1>7

LEMMA CurrentIsShown ==
    ASSUME IInv, NEW t \in Targets, current[t] # NoPrice
    PROVE  current[t].price \in ShownPrices /\ current[t].price > 0
<1>1. PICK l \in Results :
        Latest(l, AcceptedIn(rows, t)) /\ current[t] = Money(rows[l].product)
  BY DEF IInv, CurrentFollows, PriceFollows
<1>2. rows[l].status = "succeeded" BY <1>1 DEF Latest, AcceptedIn
<1>3. current[t].price = rows[l].product.price BY <1>1 DEF Money
<1> QED BY <1>2, <1>3, AcceptedIsShown DEF ShownPrices

LEMMA AcceptanceLogged ==
    ASSUME IInv, LogFollows, NEW w \in Workers, NEW r, NEW product,
           proc[w].pc = "judging", r = proc[w].row, rows[r].owner = w,
           product = Reading[proc[w].page], product.failed = None,
           Accepts(product, TargetAt(w)),
           RecordSuccess(w, r, product), Set(w, Idle), UNCHANGED <<files, faults, rules>>
    PROVE  LogFollows' /\ Log!LogNext
<1> DEFINE t == TargetOf[r]
           money == [price |-> product.price, currency |-> product.currency]
<1>1. PICK status, kind, codes : status = "succeeded" /\ kind = None /\ codes = {} OBVIOUS
<1>2. /\ status \in Ended /\ status # "failed"
      /\ Ends(w, r, status, kind, codes, product)
  BY <1>1 DEF RecordSuccess, Ends, Ended
<1>3. /\ r \in Results /\ rows[r].status = "running"
      /\ \E x : /\ rows' = [rows EXCEPT ![r] = x] /\ rows'[r] = x
                /\ Row(x) /\ Proven(x, files[r])
                /\ x.status = status /\ x.product = product /\ x.after = proc[w].after
                /\ x.digest = proc[w].digest
      /\ \A s \in Results \ {r} : rows'[s] = rows[s]
      /\ ProcsTyped' /\ InTurn' /\ faults' \in Nat
      /\ \A v \in Workers : proc'[v].pc # "idle" => v # w /\ proc'[v] = proc[v]
  <2> HIDE DEF t, money
  <2>1. product # None => /\ proc[w].pc = "judging" /\ product = Reading[proc[w].page]
                          /\ Reading[proc[w].page].failed = None
    OBVIOUS
  <2>2. /\ status \in Ended /\ status # "failed"
        /\ Ends(w, r, status, kind, codes, product)
    BY <1>2
  <2> QED BY ONLY IInv, <2>1, <2>2, EndedRow
<1>4. rows'[r].status = "succeeded" /\ rows'[r].product = product BY <1>1, <1>3
<1>5. t \in Targets /\ t \in Pending /\ Pending' = Pending \ {t}
  BY <1>3, <1>4, OneLess DEF Targets, Active, Ended
<1>6. product.price \in ShownPrices /\ product.price > 0
  <2>1. PICK p \in Legible : p = proc[w].page
    BY DEF Legible, IInv, Base, ProcsTyped, Attempt
  <2>2. product.price \in Int /\ product.price # None
        /\ ParseMoney(product.evidence) \in {None, Content[p].shown}
    BY <2>1, ReadingAssumption, ShownAssumption DEF Legible
  <2>3. ~ product.price <= 0 /\ ParseMoney(product.evidence) = product.price
    BY AcceptedProduct
  <2>4. product.price = Content[p].shown BY <2>2, <2>3
  <2> QED BY <2>1, <2>2, <2>3, <2>4 DEF ShownPrices, Legible
<1>7. <<Log!LastPrice(t), product.price>> \in WithinRatio[t]
  <2>1. current[t] # NoPrice => current[t].price \in ShownPrices /\ current[t].price > 0
    BY <1>5, CurrentIsShown
  <2>2. Log!LastPrice(t) = current[t].price BY <1>5, LastIsCurrent
  <2>3. <<current[t].price, product.price>> \in WithinRatio[t]
    BY <1>3, <1>6, <2>1, AcceptedWithin
  <2> QED BY <2>2, <2>3
<1>8. PICK c : c = ChangeOf(r, product.price, product.currency, current[t], proc[w].after)
  OBVIOUS
<1>9. changes' = Append(changes, c) /\ current' = [current EXCEPT ![t] = money]
  BY <1>8 DEF RecordSuccess
<1>10. c \in Change /\ c.row = r
  <2>1. proc[w].after \in SUBSET Rules BY DEF IInv, Base, ProcsTyped, Attempt
  <2>2. product.price \in Int
    <3>1. proc[w].page \in Legible BY DEF Legible, IInv, Base, ProcsTyped, Attempt
    <3> QED BY <3>1, ReadingAssumption DEF Legible
  <2>3. current[t].price \in Int
    <3>1. current[t] \in Moneys BY <1>5 DEF IInv, Base, RulesTyped
    <3>2. NoPrice.price \in Int BY DEF NoPrice
    <3>3. \A p \in Legible : Money(Reading[p]).price \in Int
      BY ReadingAssumption DEF Legible, Money
    <3> QED BY <3>1, <3>2, <3>3 DEF Moneys
  <2> QED BY <1>3, <1>8, <2>1, <2>2, <2>3, ChangeTyped
<1>11. LogFollows' /\ AcceptedPrices' = [AcceptedPrices EXCEPT ![t] = Append(@, product.price)]
  <2>1. Kept BY <1>3 DEF Kept
  <2>2. money.price = rows'[r].product.price BY <1>4
  <2> HIDE DEF money
  <2> QED BY <1>3, <1>4, <1>9, <1>10, <2>1, <2>2, LogGrows
<1>12. Log!Observe(t, product.price)
  BY <1>5, <1>7, <1>11 DEF Log!Observe, Pending
<1> QED BY <1>5, <1>6, <1>11, <1>12 DEF Log!LogNext

LEMMA JudgeLogged ==
    ASSUME IInv, LogFollows, NEW w \in Workers, Judge(w)
    PROVE  LogFollows' /\ (Log!LogNext \/ UNCHANGED Log!logVars)
<1> DEFINE r == proc[w].row  product == Reading[proc[w].page]
<1>1. CASE product.failed # None \/ rows[r].owner # w
  <2>1. UNCHANGED <<rows, changes, current>> BY <1>1 DEF Judge, Owns
  <2> QED BY <2>1, QuietStep DEF Kept
<1>2. CASE product.failed = None /\ rows[r].owner = w /\ Accepts(product, TargetAt(w))
  <2>1. /\ proc[w].pc = "judging" /\ RecordSuccess(w, r, product) /\ Set(w, Idle)
        /\ UNCHANGED <<files, faults, rules>>
    BY <1>2 DEF Judge, Owns
  <2> QED BY <1>2, <2>1, AcceptanceLogged
<1>3. CASE product.failed = None /\ rows[r].owner = w /\ ~ Accepts(product, TargetAt(w))
  <2>1. /\ proc[w].pc = "judging" /\ RecordInvalid(w, r, product) /\ Set(w, Idle)
        /\ UNCHANGED <<files, faults, rules>>
    BY <1>3 DEF Judge, Owns
  <2>2. Ends(w, r, "invalid", PrimaryFailureKind(product, TargetAt(w)),
             IssueCodes(product, TargetAt(w)), product)
        /\ UNCHANGED <<current, changes>>
    BY <1>3, <2>1 DEF RecordInvalid, Ends
  <2> QED BY <1>3, <2>1, <2>2, RefusalLogged
<1> QED BY <1>1, <1>2, <1>3

LEMMA RecordFailureLogged ==
    ASSUME IInv, LogFollows, NEW w \in Workers, RecordFailure(w)
    PROVE  LogFollows' /\ (Log!LogNext \/ UNCHANGED Log!logVars)
<1>1. CASE rows[proc[w].row].owner = w
  <2>1. Ends(w, proc[w].row, "failed", proc[w].kind, proc[w].codes, None)
        /\ UNCHANGED <<current, changes>>
    BY <1>1 DEF RecordFailure, Ends, Owns
  <2>2. Explained(proc[w].kind, proc[w].codes, proc[w].digest)
    BY DEF RecordFailure, IInv, Base, ProcsTyped, Attempt
  <2> QED BY <2>1, <2>2, RefusalLogged
<1>2. CASE rows[proc[w].row].owner # w
  <2>1. UNCHANGED <<rows, changes, current>> BY <1>2 DEF RecordFailure, Owns
  <2> QED BY <2>1, QuietStep DEF Kept
<1> QED BY <1>1, <1>2

LEMMA NextLog == IInv /\ LogFollows /\ [Next]_vars => LogFollows' /\ [Log!LogNext]_(Log!logVars)
<1> SUFFICES ASSUME IInv, LogFollows, [Next]_vars
             PROVE  LogFollows' /\ (Log!LogNext \/ UNCHANGED Log!logVars)
  OBVIOUS
<1>1. CASE UNCHANGED <<rows, changes, current>> BY <1>1, QuietStep DEF Kept
<1>2. CASE \E r \in Results : Enqueue(r) BY <1>2, EnqueueLogged
<1>3. ASSUME NEW w \in Workers, NEW r \in Results, Claim(w, r)
      PROVE  LogFollows' /\ UNCHANGED Log!logVars
  <2>1. /\ rows[r].status \in Active /\ rows'[r].status \in Active
        /\ \A s \in Results \ {r} : rows'[s] = rows[s]
    <3>1. IsRow(rows[r]) /\ rows = [s \in Results |-> rows[s]]
      BY DEF IInv, Base, RowsTyped, Row
    <3>2. PICK x : x = [rows[r] EXCEPT !.status = "running", !.owner = w] OBVIOUS
    <3>3. rows' = [rows EXCEPT ![r] = x] BY <1>3, <3>2 DEF Claim
    <3>4. x.status = "running" BY <3>1, <3>2 DEF IsRow
    <3>5. rows[r].status \in Active BY <1>3 DEF Claim, Active
    <3> QED BY <3>1, <3>3, <3>4, <3>5 DEF Active
  <2>2. Kept BY <2>1 DEF Kept, Active
  <2>3. UNCHANGED <<changes, current>> BY <1>3 DEF Claim
  <2> QED BY <2>1, <2>2, <2>3, QuietStep
<1>4. ASSUME NEW w \in Workers,
             \/ Abandon(w) \/ Fetch(w) \/ FetchFails(w) \/ Store(w) \/ StoreFails(w)
             \/ JudgeFails(w) \/ Retain(w)
      PROVE  UNCHANGED <<rows, changes, current>>
  BY <1>4 DEF Abandon, Fetch, FetchFails, Store, StoreFails, JudgeFails, Retain
<1>5. ASSUME NEW q \in Rules, Alert(q) PROVE UNCHANGED <<rows, changes, current>>
  BY <1>5 DEF Alert, evidenceVars, CreateRule, UpdateRule, DeleteRule
<1> QED BY <1>1, <1>2, <1>3, <1>4, <1>5, JudgeLogged, RecordFailureLogged
        DEF Next, vars, evidenceVars

\* ImplementsPriceLog: through overlaps, takeovers and failures, a target's
\* accepted prices are a PriceLog, each judged against the one it replaces
\* (worker.py _process, validation.py, results.py record_success).
THEOREM Refinement == Spec => ImplementsPriceLog
<1>1. Spec => []IInv BY Invariance
<1>2. IInv /\ LogFollows /\ [Next]_vars => LogFollows' /\ [Log!LogNext]_(Log!logVars)
  BY NextLog
<1>3. Init => Log!LogInit /\ LogFollows BY InitLog
<1> QED BY <1>1, <1>2, <1>3, PTL DEF Spec, ImplementsPriceLog, Log!LogSpec

\* The accepted prices of a target follow one another within the ratio that the
\* validator permits, since those of a PriceLog do (validation.py
\* _validate_price).
THEOREM Successive == Spec => []Log!Chained
BY Refinement, Log!Chaining, PTL DEF ImplementsPriceLog
=============================================================================
