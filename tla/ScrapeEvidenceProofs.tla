------------------------- MODULE ScrapeEvidenceProofs -------------------------
(***************************************************************************)
(* Proofs about ScrapeEvidence for any rows, workers, pages, targets and   *)
(* alert rules: a snapshot belongs to what was decided on it, whether that *)
(* is a price or a failure, an approved repair reads it as recorded, and   *)
(* an alert shows exactly what the accepted prices did.                    *)
(*                                                                         *)
(* The argument: a file is only ever written when it is empty, so what a   *)
(* worker has seen of it stays true; the owner of a row is the only one    *)
(* that ends it, and the rows of a target follow one another, so the price *)
(* a worker read at its claim is still the price it replaces.              *)
(***************************************************************************)
EXTENDS ScrapeEvidence, SequenceTheorems, TLAPS

\* the shapes of a row and of a worker's attempt
IsRow(x) ==
    x = [status |-> x.status, owner |-> x.owner, digest |-> x.digest, kind |-> x.kind,
         codes |-> x.codes, product |-> x.product, after |-> x.after]
IsProc(x) ==
    x = [pc |-> x.pc, row |-> x.row, page |-> x.page, digest |-> x.digest,
         previous |-> x.previous, after |-> x.after, kind |-> x.kind, codes |-> x.codes]

Money(product) == [price |-> product.price, currency |-> product.currency]
Legible == {p \in Pages : Reading[p].failed = None}
Moneys == {NoPrice} \union {Money(Reading[p]) : p \in Legible}

Ended == {"succeeded", "invalid", "failed"}
Active == {"queued", "running"}

Row(x) ==
    /\ IsRow(x)
    /\ x.status \in Statuses
    /\ x.owner \in Workers \union {None}
    /\ x.owner # None <=> x.status = "running"
    /\ x.digest \in Pages \union {None}
    /\ x.after \subseteq Rules

RowsTyped ==
    /\ rows = [r \in Results |-> rows[r]] /\ files \in [Results -> Pages \union {None}]
    /\ \A r \in Results : Row(rows[r])

Steps == {"idle", "fetching", "storing", "judging", "failing", "reporting"}

\* the page that a failure points to fails that way
Explained(kind, codes, digest) ==
    /\ kind = "extraction" =>
         /\ digest # None /\ Reading[digest].failed # None
         /\ codes = {ExtractionCode[Reading[digest].failed]}
    /\ kind = "anti_bot" /\ digest # None => Content[digest].antiBot

\* an attempt x, with what it knows of the files fs
Attempt(x, fs) ==
    /\ IsProc(x) /\ x.pc \in Steps
    /\ x.pc # "idle" => x.row \in Results
    /\ x.pc \in {"storing", "judging", "failing"} => x.page \in Pages
    /\ x.pc \in {"idle", "fetching"} => x.digest = None
    /\ x.pc = "judging" => x.digest = x.page
    /\ x.digest \in {None, x.page}
    /\ x.digest # None => x.digest \in Pages /\ fs[x.row] = x.digest
    /\ x.pc = "failing" => /\ x.kind # "extraction"
                           /\ x.kind = "anti_bot" => Content[x.page].antiBot
    /\ x.pc = "reporting" => Explained(x.kind, x.codes, x.digest)
    /\ x.after \subseteq Rules

ProcsTyped ==
    /\ proc = [w \in Workers |-> proc[w]]
    /\ \A w \in Workers : Attempt(proc[w], files)

RulesTyped == /\ rules \in [Rules -> RuleType \union {Absent, Deleted}]
              /\ current \in [Targets -> Moneys]
              /\ faults \in Nat

\* what a row x claims of its file
Proven(x, file) ==
    /\ x.digest # None => file = x.digest
    /\ x.product # None =>
         /\ x.digest # None
         /\ x.product = Reading[x.digest]
         /\ Reading[x.digest].failed = None
    /\ x.status = "failed" => Explained(x.kind, x.codes, x.digest)

Evidence == \A r \in Results : Proven(rows[r], files[r])

Base == RowsTyped /\ ProcsTyped /\ RulesTyped /\ Evidence

\* the rows of a target follow one another
InTurn ==
    \A r, s \in Results :
      TargetOf[r] = TargetOf[s] /\ s < r /\ rows[r].status # "none" => rows[s].status \in Ended

\* what an owner read at its claim is still the target's price
Snapshots ==
    \A w \in Workers :
      proc[w].pc # "idle" /\ rows[proc[w].row].owner = w =>
        proc[w].previous = current[TargetOf[proc[w].row]]

\* What follows is said of any sequence of changes and any rows, and used
\* for those before and those after a step.
Latest(l, S) == l \in S /\ \A o \in S : o <= l

AcceptedIn(rs, t) == {r \in Results : rs[r].status = "succeeded" /\ TargetOf[r] = t}
Earlier(rs, r) == {s \in AcceptedIn(rs, TargetOf[r]) : s < r}

\* a price is that of the latest accepted row
PriceFollows(price, rs, t) ==
    \/ AcceptedIn(rs, t) = {} /\ price = NoPrice
    \/ \E l \in Results : Latest(l, AcceptedIn(rs, t)) /\ price = Money(rs[l].product)

\* a row may be accepted
Acceptable(row) ==
    /\ row.digest \in Legible /\ row.product = Reading[row.digest]
    /\ row.product.price > 0 /\ row.product.currency # "none"
    /\ ParseMoney(row.product.evidence) = row.product.price

\* what the history says of an accepted row
Tells(c, rs, r) ==
    /\ c.row = r /\ c.after = rs[r].after
    /\ \/ Earlier(rs, r) = {} /\ c.kind = "initial"
       \/ \E l \in Results :
            /\ Latest(l, Earlier(rs, r))
            /\ c = ChangeOf(r, rs[r].product.price, rs[r].product.currency,
                            Money(rs[l].product), rs[r].after)
            /\ rs[r].product.currency = rs[l].product.currency

Change == [row : Results, after : SUBSET Rules, amount : Int, previous : Int,
           kind : {"initial", "currency_changed", "unchanged", "increase", "decrease"}]

HistoryOf(rs, history) ==
    /\ history \in Seq(Change)
    /\ \A i \in 1 .. Len(history) :
         /\ rs[history[i].row].status = "succeeded"
         /\ Tells(history[i], rs, history[i].row)
    /\ \A r \in Results : rs[r].status = "succeeded" =>
         /\ Acceptable(rs[r])
         /\ \E i \in 1 .. Len(history) : history[i].row = r

CurrentFollows == \A t \in Targets : PriceFollows(current[t], rows, t)
HistoryFollows == HistoryOf(rows, changes)

IInv == Base /\ InTurn /\ Snapshots /\ CurrentFollows /\ HistoryFollows

-----------------------------------------------------------------------------
(* Histories and prices                                                     *)

\* Where nothing is accepted, the history and the prices say what they said.
LEMMA NothingAccepted ==
    ASSUME NEW rs, NEW new,
           \A r \in Results : /\ rs[r].status = "succeeded" => new[r] = rs[r]
                              /\ new[r].status = "succeeded" => rs[r].status = "succeeded"
    PROVE  /\ \A t : AcceptedIn(new, t) = AcceptedIn(rs, t)
           /\ \A price, t : PriceFollows(price, rs, t) => PriceFollows(price, new, t)
           /\ \A history : HistoryOf(rs, history) => HistoryOf(new, history)
<1>1. ASSUME NEW t PROVE AcceptedIn(new, t) = AcceptedIn(rs, t)
  BY DEF AcceptedIn
<1>2. ASSUME NEW price, NEW t, PriceFollows(price, rs, t) PROVE PriceFollows(price, new, t)
  <2>1. CASE AcceptedIn(rs, t) = {} /\ price = NoPrice BY <1>1, <2>1 DEF PriceFollows
  <2>2. ASSUME NEW l \in Results, Latest(l, AcceptedIn(rs, t)), price = Money(rs[l].product)
        PROVE  PriceFollows(price, new, t)
    <3>1. new[l] = rs[l] BY <2>2 DEF Latest, AcceptedIn
    <3> QED BY <1>1, <2>2, <3>1 DEF PriceFollows
  <2> QED BY <1>2, <2>1, <2>2 DEF PriceFollows
<1>3. ASSUME NEW c, NEW r \in Results, rs[r].status = "succeeded", Tells(c, rs, r)
      PROVE  Tells(c, new, r)
  <2>1. new[r] = rs[r] BY <1>3
  <2>2. Earlier(new, r) = Earlier(rs, r) BY <1>1 DEF Earlier
  <2>3. CASE Earlier(rs, r) = {} /\ c.kind = "initial"
    BY <1>3, <2>1, <2>2, <2>3 DEF Tells
  <2>4. ASSUME NEW l \in Results, Latest(l, Earlier(rs, r)),
               c = ChangeOf(r, rs[r].product.price, rs[r].product.currency,
                            Money(rs[l].product), rs[r].after),
               rs[r].product.currency = rs[l].product.currency
        PROVE  Tells(c, new, r)
    <3>1. new[l] = rs[l] BY <2>4 DEF Latest, Earlier, AcceptedIn
    <3> QED BY <1>3, <2>1, <2>2, <2>4, <3>1 DEF Tells
  <2> QED BY <1>3, <2>3, <2>4 DEF Tells
<1>4. ASSUME NEW history, HistoryOf(rs, history) PROVE HistoryOf(new, history)
  <2>1. history \in Seq(Change) BY <1>4 DEF HistoryOf
  <2>2. ASSUME NEW i \in 1 .. Len(history)
        PROVE  /\ new[history[i].row].status = "succeeded"
               /\ Tells(history[i], new, history[i].row)
    <3>1. history[i] \in Change BY <2>1, ElementOfSeq
    <3>2. history[i].row \in Results BY <3>1 DEF Change
    <3> QED BY <1>3, <1>4, <3>2 DEF HistoryOf
  <2>3. ASSUME NEW r \in Results, new[r].status = "succeeded"
        PROVE  Acceptable(new[r]) /\ \E i \in 1 .. Len(history) : history[i].row = r
    BY <1>4, <2>3 DEF HistoryOf
  <2> QED BY <2>1, <2>2, <2>3 DEF HistoryOf
<1> QED BY <1>1, <1>2, <1>4

LEMMA ChangeTyped ==
    ASSUME NEW r \in Results, NEW price \in Int, NEW currency, NEW before,
           before.price \in Int, NEW after \in SUBSET Rules
    PROVE  /\ ChangeOf(r, price, currency, before, after) \in Change
           /\ ChangeOf(r, price, currency, before, after).row = r
           /\ ChangeOf(r, price, currency, before, after).after = after
           /\ before.currency = "none" =>
                ChangeOf(r, price, currency, before, after).kind = "initial"
  BY DEF ChangeOf, Change

\* A row that is accepted after all others of its target has the price that
\* follows, and its change ends the history.
LEMMA OneAccepted ==
    ASSUME NEW rs, NEW new, NEW r \in Results, NEW before, NEW history,
           \A s \in Results \ {r} : new[s] = rs[s],
           rs[r].status # "succeeded", new[r].status = "succeeded", Acceptable(new[r]),
           new[r].product.price \in Int, new[r].after \subseteq Rules,
           \A s \in AcceptedIn(rs, TargetOf[r]) : s < r,
           PriceFollows(before, rs, TargetOf[r]), before.price \in Int,
           before = NoPrice \/ before.currency = new[r].product.currency,
           HistoryOf(rs, history)
    PROVE  /\ PriceFollows(Money(new[r].product), new, TargetOf[r])
           /\ \A t : t # TargetOf[r] =>
                \A price : PriceFollows(price, rs, t) => PriceFollows(price, new, t)
           /\ HistoryOf(new, Append(history,
                ChangeOf(r, new[r].product.price, new[r].product.currency,
                         before, new[r].after)))
<1> DEFINE change == ChangeOf(r, new[r].product.price, new[r].product.currency,
                              before, new[r].after)
<1>int. \A s \in Results : s \in Int BY EvidenceAssumption
<1>1. \A t : t # TargetOf[r] => AcceptedIn(new, t) = AcceptedIn(rs, t)
  BY DEF AcceptedIn
<1>2. AcceptedIn(new, TargetOf[r]) = AcceptedIn(rs, TargetOf[r]) \union {r}
  BY DEF AcceptedIn
<1>3. PriceFollows(Money(new[r].product), new, TargetOf[r])
  <2>1. \A s \in AcceptedIn(rs, TargetOf[r]) : s \in Int /\ s < r
    BY <1>int DEF AcceptedIn
  <2>2. \A s \in AcceptedIn(rs, TargetOf[r]) : s <= r
    BY <2>1, <1>int
  <2>3. Latest(r, AcceptedIn(new, TargetOf[r])) BY <1>2, <1>int, <2>2 DEF Latest
  <2> QED BY <2>3 DEF PriceFollows
<1>4. ASSUME NEW t, t # TargetOf[r], NEW price, PriceFollows(price, rs, t)
      PROVE  PriceFollows(price, new, t)
  <2>1. CASE AcceptedIn(rs, t) = {} /\ price = NoPrice BY <1>1, <1>4, <2>1 DEF PriceFollows
  <2>2. ASSUME NEW l \in Results, Latest(l, AcceptedIn(rs, t)), price = Money(rs[l].product)
        PROVE  PriceFollows(price, new, t)
    <3>1. new[l] = rs[l] BY <1>4, <2>2 DEF Latest, AcceptedIn
    <3> QED BY <1>1, <1>4, <2>2, <3>1 DEF PriceFollows
  <2> QED BY <1>4, <2>1, <2>2 DEF PriceFollows
<1>5. \A s \in Results : rs[s].status = "succeeded" =>
        s # r /\ new[s] = rs[s] /\ Earlier(new, s) = Earlier(rs, s)
  <2> SUFFICES ASSUME NEW s \in Results, rs[s].status = "succeeded"
               PROVE  s # r /\ new[s] = rs[s] /\ Earlier(new, s) = Earlier(rs, s)
    OBVIOUS
  <2>1. s # r /\ new[s] = rs[s] OBVIOUS
  <2>2. CASE TargetOf[s] # TargetOf[r] BY <1>1, <2>1, <2>2 DEF Earlier
  <2>3. CASE TargetOf[s] = TargetOf[r]
    <3>1. s < r BY <2>3 DEF AcceptedIn
    <3>2. ~ r < s BY <3>1, <1>int
    <3> QED BY <1>2, <2>1, <2>3, <3>2 DEF Earlier
  <2> QED BY <2>2, <2>3
<1>6. ASSUME NEW c, NEW s \in Results, rs[s].status = "succeeded", Tells(c, rs, s)
      PROVE  new[s].status = "succeeded" /\ Tells(c, new, s)
  <2>1. new[s] = rs[s] /\ Earlier(new, s) = Earlier(rs, s) BY <1>5, <1>6
  <2>2. CASE Earlier(rs, s) = {} /\ c.kind = "initial"
    BY <1>6, <2>1, <2>2 DEF Tells
  <2>3. ASSUME NEW l \in Results, Latest(l, Earlier(rs, s)),
               c = ChangeOf(s, rs[s].product.price, rs[s].product.currency,
                            Money(rs[l].product), rs[s].after),
               rs[s].product.currency = rs[l].product.currency
        PROVE  Tells(c, new, s)
    <3>1. new[l] = rs[l] BY <1>5, <2>3 DEF Latest, Earlier, AcceptedIn
    <3> QED BY <1>6, <2>1, <2>3, <3>1 DEF Tells
  <2> QED BY <1>6, <2>1, <2>2, <2>3 DEF Tells
<1>7. change \in Change /\ change.row = r /\ change.after = new[r].after
  BY ChangeTyped
<1>8. Tells(change, new, r)
  <2>1. Earlier(new, r) = AcceptedIn(rs, TargetOf[r])
    BY <1>2, <1>int DEF Earlier
  <2>2. CASE AcceptedIn(rs, TargetOf[r]) = {} /\ before = NoPrice
    <3>1. before.currency = "none" BY <2>2 DEF NoPrice
    <3>2. change.kind = "initial" BY <3>1, ChangeTyped
    <3> QED BY <1>7, <2>1, <2>2, <3>2 DEF Tells
  <2>3. ASSUME NEW l \in Results, Latest(l, AcceptedIn(rs, TargetOf[r])),
               before = Money(rs[l].product)
        PROVE  Tells(change, new, r)
    <3>1. new[l] = rs[l] /\ Acceptable(rs[l])
      BY <1>5, <2>3 DEF Latest, AcceptedIn, HistoryOf
    <3>2. before.currency = rs[l].product.currency BY <2>3 DEF Money
    <3>3. before.currency = new[r].product.currency
      BY <3>1, <3>2 DEF Acceptable, NoPrice
    <3> QED BY <1>7, <2>1, <2>3, <3>1, <3>2, <3>3 DEF Tells
  <2> QED BY <2>2, <2>3 DEF PriceFollows
<1>9. HistoryOf(new, Append(history, change))
  <2> HIDE DEF change
  <2>1. history \in Seq(Change) BY DEF HistoryOf
  <2>2. /\ Append(history, change) \in Seq(Change)
        /\ Len(Append(history, change)) = Len(history) + 1
        /\ \A i \in 1 .. Len(history) : Append(history, change)[i] = history[i]
        /\ Append(history, change)[Len(history) + 1] = change
    BY <1>7, <2>1, AppendProperties
  <2> DEFINE longer == Append(history, change)
  <2>len. Len(history) \in Nat BY <2>1, LenProperties
  <2> HIDE DEF longer
  <2>3. ASSUME NEW i \in 1 .. Len(longer)
        PROVE  new[longer[i].row].status = "succeeded" /\ Tells(longer[i], new, longer[i].row)
    <3>1. CASE i \in 1 .. Len(history)
      <4>1. history[i] \in Change BY <2>1, <3>1, ElementOfSeq
      <4>2. history[i].row \in Results BY <4>1 DEF Change
      <4>3. longer[i] = history[i] BY <2>2, <3>1 DEF longer
      <4> QED BY <1>6, <3>1, <4>2, <4>3 DEF HistoryOf
    <3>2. CASE i = Len(history) + 1
      <4>1. longer[i] = change BY <2>2, <3>2 DEF longer
      <4> QED BY <1>7, <1>8, <4>1
    <3> QED BY <2>2, <2>len, <3>1, <3>2 DEF longer
  <2>4. ASSUME NEW s \in Results, new[s].status = "succeeded"
        PROVE  Acceptable(new[s]) /\ \E i \in 1 .. Len(longer) : longer[i].row = s
    <3>1. CASE s = r
      <4>1. Len(history) + 1 \in 1 .. Len(longer) BY <2>2, <2>len DEF longer
      <4> QED BY <1>7, <2>2, <3>1, <4>1 DEF longer
    <3>2. CASE s # r
      <4>1. new[s] = rs[s] BY <3>2
      <4>2. PICK i \in 1 .. Len(history) : history[i].row = s
        BY <2>4, <4>1 DEF HistoryOf
      <4>3. i \in 1 .. Len(longer) /\ longer[i] = history[i] BY <2>2, <2>len DEF longer
      <4>4. Acceptable(new[s]) BY <2>4, <4>1 DEF HistoryOf
      <4> QED BY <4>2, <4>3, <4>4
    <3> QED BY <3>1, <3>2
  <2>5. longer \in Seq(Change) BY <2>2 DEF longer
  <2> QED BY <2>3, <2>4, <2>5 DEF HistoryOf, longer
<1> QED BY <1>3, <1>4, <1>9

-----------------------------------------------------------------------------
(* Parts of a step                                                          *)

\* A step of one attempt may write an empty file; rows stay as they are.
LEMMA AttemptGoesOn ==
    ASSUME IInv, NEW w \in Workers, NEW x, Set(w, x),
           UNCHANGED <<rows, current, changes, rules>>, faults' \in Nat,
           files' \in [Results -> Pages \union {None}],
           \A r \in Results : files[r] # None => files'[r] = files[r],
           Attempt(x, files'),
           x.pc # "idle" => /\ proc[w].pc # "idle"
                            /\ x.row = proc[w].row /\ x.previous = proc[w].previous
    PROVE  IInv'
<1>1. proc'[w] = x /\ \A v \in Workers \ {w} : proc'[v] = proc[v]
  BY DEF IInv, Base, ProcsTyped, Set
<1>2. RowsTyped'
  BY DEF IInv, Base, RowsTyped, Row, IsRow
<1>3. ProcsTyped'
  <2>1. ASSUME NEW v \in Workers PROVE Attempt(proc'[v], files')
    <3>1. CASE v = w BY <1>1, <3>1
    <3>2. CASE v # w
      <4>1. proc'[v] = proc[v] /\ Attempt(proc[v], files)
        BY <1>1, <3>2 DEF IInv, Base, ProcsTyped
      <4>2. proc[v].digest # None => files'[proc[v].row] = proc[v].digest
        BY <4>1, EvidenceAssumption DEF Attempt
      <4> QED BY <4>1, <4>2 DEF Attempt
    <3> QED BY <3>1, <3>2
  <2>2. proc' = [v \in Workers |-> proc'[v]]
    BY DEF IInv, Base, ProcsTyped, Set
  <2>3. \A v \in Workers : Attempt(proc[v], files)'
    BY <2>1 DEF Attempt, IsProc
  <2> QED BY <2>2, <2>3 DEF ProcsTyped
<1>4. RulesTyped' BY DEF IInv, Base, RulesTyped
<1>5. Evidence'
  BY EvidenceAssumption DEF IInv, Base, Evidence, Proven, RowsTyped, Row
<1>6. InTurn' BY DEF IInv, InTurn
<1>7. Snapshots'
  BY <1>1 DEF IInv, Snapshots
<1>8. CurrentFollows' /\ HistoryFollows'
  BY DEF IInv, CurrentFollows, HistoryFollows
<1> QED BY <1>2, <1>3, <1>4, <1>5, <1>6, <1>7, <1>8 DEF IInv, Base

\* A row that is not accepted, neither before nor after.
LEMMA RowGoesOn ==
    ASSUME IInv, NEW r \in Results, NEW x, rows' = [rows EXCEPT ![r] = x],
           UNCHANGED <<files, current, changes, rules>>, faults' \in Nat,
           rows[r].status # "succeeded", x.status # "succeeded",
           Row(x), Proven(x, files[r]), ProcsTyped', InTurn', Snapshots'
    PROVE  IInv'
<1>1. rows'[r] = x /\ \A s \in Results \ {r} : rows'[s] = rows[s]
  BY DEF IInv, Base, RowsTyped
<1>2. RowsTyped'
  <2>1. rows' = [s \in Results |-> rows'[s]] BY DEF IInv, Base, RowsTyped
  <2>2. \A s \in Results : Row(rows'[s]) BY <1>1 DEF IInv, Base, RowsTyped
  <2>3. \A s \in Results : Row(rows[s])' BY <2>2 DEF Row, IsRow
  <2> QED BY <2>1, <2>3 DEF IInv, Base, RowsTyped
<1>3. RulesTyped' BY DEF IInv, Base, RulesTyped
<1>4. Evidence'
  <2>1. \A s \in Results : Proven(rows'[s], files'[s]) BY <1>1 DEF IInv, Base, Evidence
  <2> QED BY <2>1 DEF Evidence, Proven
<1>5. \A s \in Results : /\ rows[s].status = "succeeded" => rows'[s] = rows[s]
                         /\ rows'[s].status = "succeeded" => rows[s].status = "succeeded"
  BY <1>1
<1>6. \A t \in Targets : PriceFollows(current'[t], rows', t)
  <2> DEFINE rs == rows  new == rows'  price(t) == current[t]
  <2>1. \A s \in Results : /\ rs[s].status = "succeeded" => new[s] = rs[s]
                           /\ new[s].status = "succeeded" => rs[s].status = "succeeded"
    BY <1>5
  <2>2. \A t \in Targets : PriceFollows(price(t), rs, t) BY DEF IInv, CurrentFollows
  <2> HIDE DEF rs, new, price
  <2>3. \A t \in Targets : PriceFollows(price(t), new, t) BY <2>1, <2>2, NothingAccepted
  <2> QED BY <2>3 DEF new, price
<1>7. HistoryOf(rows', changes')
  <2> DEFINE rs == rows  new == rows'  history == changes
  <2>1. \A s \in Results : /\ rs[s].status = "succeeded" => new[s] = rs[s]
                           /\ new[s].status = "succeeded" => rs[s].status = "succeeded"
    BY <1>5
  <2>2. HistoryOf(rs, history) BY DEF IInv, HistoryFollows
  <2> HIDE DEF rs, new, history
  <2>3. HistoryOf(new, history) BY <2>1, <2>2, NothingAccepted
  <2> QED BY <2>3 DEF new, history
<1>8. CurrentFollows' /\ HistoryFollows'
  BY <1>6, <1>7 DEF CurrentFollows, HistoryFollows
<1> QED BY <1>2, <1>3, <1>4, <1>8 DEF IInv, Base

-----------------------------------------------------------------------------
(* The actions                                                              *)

LEMMA InitHolds == Init => IInv
<1> SUFFICES ASSUME Init PROVE IInv OBVIOUS
<1> USE DEF Init, AlertInit
<1>1. RowsTyped BY DEF RowsTyped, Row, IsRow, NoRow, Statuses
<1>2. ProcsTyped BY DEF ProcsTyped, Attempt, IsProc, Idle, Steps
<1>3. RulesTyped BY DEF RulesTyped, Moneys
<1>4. Evidence BY DEF Evidence, Proven, NoRow
<1>5. InTurn BY DEF InTurn, NoRow
<1>6. Snapshots BY DEF Snapshots, Idle
<1>7. \A t \in Targets : AcceptedIn(rows, t) = {} BY DEF AcceptedIn, NoRow
<1>8. CurrentFollows BY <1>7 DEF CurrentFollows, PriceFollows
<1>9. HistoryFollows BY DEF HistoryFollows, HistoryOf, NoRow
<1> QED BY <1>1, <1>2, <1>3, <1>4, <1>5, <1>6, <1>8, <1>9 DEF IInv, Base

LEMMA EnqueueKeeps ==
    ASSUME IInv, NEW r \in Results, Enqueue(r) PROVE IInv'
<1>1. Row(rows[r]) /\ rows[r].status = "none" /\ rows[r].owner = None
  BY DEF Enqueue, IInv, Base, RowsTyped, Row
<1>2. PICK x : x = [rows[r] EXCEPT !.status = "queued"] OBVIOUS
<1>3. rows' = [rows EXCEPT ![r] = x] BY <1>2 DEF Enqueue
<1>4. /\ x.status = "queued" /\ x.owner = None /\ IsRow(x)
      /\ x.digest = rows[r].digest /\ x.product = rows[r].product /\ x.after = rows[r].after
  BY <1>1, <1>2 DEF Row, IsRow
<1>5. Row(x) BY <1>1, <1>4 DEF Row, Statuses
<1>6. Proven(x, files[r]) BY <1>4 DEF IInv, Base, Evidence, Proven
<1>7. rows'[r] = x /\ \A s \in Results \ {r} : rows'[s] = rows[s]
  BY <1>3 DEF IInv, Base, RowsTyped
<1>8. InTurn'
  <2> SUFFICES ASSUME NEW q \in Results, NEW s \in Results,
                      TargetOf[q] = TargetOf[s], s < q, rows'[q].status # "none"
               PROVE  rows'[s].status \in Ended
    BY DEF InTurn
  <2>1. CASE q = r
    <3>1. s \in 1 .. r - 1 /\ s # r BY <2>1, EvidenceAssumption
    <3>2. rows[s].status \notin {"none", "queued", "running"}
      BY <2>1, <3>1 DEF Enqueue
    <3>3. rows[s].status \in Statuses BY DEF IInv, Base, RowsTyped, Row
    <3> QED BY <1>7, <3>1, <3>2, <3>3 DEF Statuses, Ended
  <2>2. CASE q # r
    <3>1. rows[s].status \in Ended BY <1>7, <2>2 DEF IInv, InTurn
    <3>2. s # r BY <1>1, <3>1 DEF Ended
    <3> QED BY <1>7, <3>1, <3>2
  <2> QED BY <2>1, <2>2
<1>9. Snapshots'
  <2> SUFFICES ASSUME NEW w \in Workers, proc[w].pc # "idle", rows'[proc[w].row].owner = w
               PROVE  proc[w].previous = current[TargetOf[proc[w].row]]
    BY DEF Snapshots, Enqueue
  <2>1. proc[w].row \in Results BY DEF IInv, Base, ProcsTyped, Attempt
  <2>2. proc[w].row # r BY <1>4, <1>7, EvidenceAssumption
  <2> QED BY <1>7, <2>1, <2>2 DEF IInv, Snapshots
<1>10. ProcsTyped'
  BY DEF Enqueue, IInv, Base, ProcsTyped, Attempt, IsProc
<1>11. faults' \in Nat BY DEF Enqueue, IInv, Base, RulesTyped
<1> QED BY <1>1, <1>3, <1>4, <1>5, <1>6, <1>8, <1>9, <1>10, <1>11, RowGoesOn DEF Enqueue

LEMMA ClaimKeeps ==
    ASSUME IInv, NEW w \in Workers, NEW r \in Results, Claim(w, r) PROVE IInv'
<1>1. Row(rows[r]) /\ rows[r].status \in Active
  BY DEF Claim, IInv, Base, RowsTyped, Active
<1>2. PICK x : x = [rows[r] EXCEPT !.status = "running", !.owner = w] OBVIOUS
<1>3. rows' = [rows EXCEPT ![r] = x] BY <1>2 DEF Claim
<1>4. /\ x.status = "running" /\ x.owner = w /\ IsRow(x)
      /\ x.digest = rows[r].digest /\ x.product = rows[r].product /\ x.after = rows[r].after
  BY <1>1, <1>2 DEF Row, IsRow
<1>5. Row(x) BY <1>1, <1>4, EvidenceAssumption DEF Row, Statuses
<1>6. Proven(x, files[r]) BY <1>4 DEF IInv, Base, Evidence, Proven
<1>7. rows'[r] = x /\ \A s \in Results \ {r} : rows'[s] = rows[s]
  BY <1>3 DEF IInv, Base, RowsTyped
<1>8. InTurn'
  <2>1. \A s \in Results : /\ rows'[s].status # "none" => rows[s].status # "none"
                           /\ rows[s].status \in Ended => rows'[s].status \in Ended
    BY <1>1, <1>7 DEF Active, Ended
  <2> QED BY <2>1 DEF IInv, InTurn
<1>9. PICK y : y = [Idle EXCEPT !.pc = "fetching", !.row = r, !.previous = current[TargetOf[r]]]
  OBVIOUS
<1>10. /\ y.pc = "fetching" /\ y.row = r /\ y.previous = current[TargetOf[r]]
       /\ y.digest = None /\ y.after = {} /\ IsProc(y)
  BY <1>9 DEF Idle, IsProc
<1>11. /\ proc' = [proc EXCEPT ![w] = y] /\ proc'[w] = y
       /\ \A v \in Workers \ {w} : proc'[v] = proc[v]
  BY <1>9 DEF Claim, Set, IInv, Base, ProcsTyped
<1>12. Attempt(y, files) BY <1>10 DEF Attempt, Steps
<1>13. ProcsTyped'
  <2>1. \A v \in Workers : Attempt(proc'[v], files')
    BY <1>11, <1>12 DEF Claim, IInv, Base, ProcsTyped
  <2>2. \A v \in Workers : Attempt(proc[v], files)' BY <2>1 DEF Attempt, IsProc
  <2> QED BY <1>11, <2>2 DEF IInv, Base, ProcsTyped
<1>14. Snapshots'
  <2> SUFFICES ASSUME NEW v \in Workers, proc'[v].pc # "idle", rows'[proc'[v].row].owner = v
               PROVE  proc'[v].previous = current[TargetOf[proc'[v].row]]
    BY DEF Snapshots, Claim
  <2>1. CASE v = w BY <1>10, <1>11, <2>1
  <2>2. CASE v # w
    <3>1. proc'[v] = proc[v] /\ proc[v].row \in Results
      BY <1>11, <2>2 DEF IInv, Base, ProcsTyped, Attempt
    <3>2. proc[v].row # r BY <1>4, <1>7, <2>2, <3>1
    <3> QED BY <1>7, <3>1, <3>2 DEF IInv, Snapshots
  <2> QED BY <2>1, <2>2
<1>15. faults' \in Nat BY DEF Claim, Fault, IInv, Base, RulesTyped
<1>16. UNCHANGED <<files, current, changes, rules>> BY DEF Claim
<1>17. rows[r].status # "succeeded" /\ x.status # "succeeded" BY <1>1, <1>4 DEF Active
<1> QED BY <1>3, <1>5, <1>6, <1>8, <1>13, <1>14, <1>15, <1>16, <1>17, RowGoesOn

\* the steps of an attempt that leave its row alone
LEMMA AttemptKeeps ==
    ASSUME IInv, NEW w \in Workers,
           Abandon(w) \/ Fetch(w) \/ FetchFails(w) \/ Store(w) \/ StoreFails(w)
             \/ JudgeFails(w) \/ Retain(w)
    PROVE  IInv'
<1>1. Attempt(proc[w], files) /\ files \in [Results -> Pages \union {None}]
  BY DEF IInv, Base, ProcsTyped, RowsTyped
<1>2. faults \in Nat /\ (Fault => faults' \in Nat)
  BY DEF Fault, IInv, Base, RulesTyped
<1>3. ASSUME NEW kind, NEW codes, NEW x, x = Fails(w, kind, codes)
      PROVE  /\ IsProc(x) /\ x.pc = "failing" /\ x.row = proc[w].row /\ x.page = proc[w].page
             /\ x.digest = proc[w].digest /\ x.previous = proc[w].previous
             /\ x.after = proc[w].after /\ x.kind = kind /\ x.codes = codes
  BY <1>1, <1>3 DEF Attempt, IsProc, Fails
<1>4. CASE Abandon(w)
  <2>1. Attempt(Idle, files) BY DEF Attempt, IsProc, Idle, Steps
  <2> QED BY <1>1, <1>2, <1>4, <2>1, AttemptGoesOn DEF Abandon, Idle
<1>5. CASE Fetch(w)
  <2>1. PICK page \in Served[proc[w].row] :
          LET got == [proc[w] EXCEPT !.page = page, !.after = Existing]
          IN  Set(w, IF Content[page].antiBot
                     THEN [got EXCEPT !.pc = "failing", !.kind = "anti_bot",
                                      !.codes = {"FETCH_ANTI_BOT"}]
                     ELSE [got EXCEPT !.pc = "storing"])
    BY <1>5 DEF Fetch
  <2>2. PICK got : got = [proc[w] EXCEPT !.page = page, !.after = Existing] OBVIOUS
  <2>3. PICK x : x = IF Content[page].antiBot
                     THEN [got EXCEPT !.pc = "failing", !.kind = "anti_bot",
                                      !.codes = {"FETCH_ANTI_BOT"}]
                     ELSE [got EXCEPT !.pc = "storing"]
    OBVIOUS
  <2>4. proc[w].pc = "fetching" /\ proc[w].row \in Results
    BY <1>1, <1>5 DEF Fetch, Attempt
  <2>5. page \in Pages BY <2>4, EvidenceAssumption
  <2>6. Existing \subseteq Rules BY DEF Existing
  <2>7. /\ got.row = proc[w].row /\ got.page = page /\ got.digest = proc[w].digest
        /\ got.previous = proc[w].previous /\ got.after = Existing /\ IsProc(got)
    BY <1>1, <2>2 DEF Attempt, IsProc
  <2>8. /\ x.pc \in {"storing", "failing"} /\ x.row = proc[w].row /\ x.page = page
        /\ x.digest = proc[w].digest
        /\ x.previous = proc[w].previous /\ x.after = Existing /\ IsProc(x)
        /\ x.pc = "failing" => x.kind = "anti_bot" /\ Content[page].antiBot
    BY <2>3, <2>7 DEF IsProc
  <2>9. Set(w, x) BY <2>1, <2>2, <2>3
  <2>10. proc[w].digest = None
    BY <1>1, <2>4 DEF Attempt
  <2>11. Attempt(x, files) BY <2>4, <2>5, <2>6, <2>8, <2>10 DEF Attempt, Steps
  <2> QED BY <1>1, <1>2, <1>5, <2>4, <2>8, <2>9, <2>11, AttemptGoesOn DEF Fetch
<1>6. CASE FetchFails(w)
  <2>1. PICK y : y = Fails(w, "transport", {"FETCH_TRANSPORT"}) OBVIOUS
  <2>2. PICK x : x = [y EXCEPT !.pc = "reporting"] OBVIOUS
  <2>3. /\ x.pc = "reporting" /\ x.row = proc[w].row /\ x.page = proc[w].page
        /\ x.digest = proc[w].digest /\ x.previous = proc[w].previous
        /\ x.after = proc[w].after /\ IsProc(x) /\ x.kind = "transport"
    BY <1>3, <2>1, <2>2 DEF IsProc
  <2>4. Attempt(x, files) BY <1>1, <1>6, <2>3 DEF Attempt, Steps, FetchFails, Explained
  <2> QED BY <1>1, <1>2, <1>6, <2>1, <2>2, <2>3, <2>4, AttemptGoesOn DEF FetchFails
<1>7. CASE Store(w)
  <2>1. PICK x : x = [proc[w] EXCEPT !.pc = "judging", !.digest = proc[w].page] OBVIOUS
  <2>2. /\ x.pc = "judging" /\ x.row = proc[w].row /\ x.page = proc[w].page
        /\ x.digest = proc[w].page /\ x.previous = proc[w].previous
        /\ x.after = proc[w].after /\ IsProc(x)
    BY <1>1, <2>1 DEF Attempt, IsProc
  <2>3. proc[w].row \in Results /\ proc[w].page \in Pages BY <1>1, <1>7 DEF Attempt, Store
  <2>4. /\ files' \in [Results -> Pages \union {None}] /\ files'[proc[w].row] = proc[w].page
        /\ \A r \in Results : files[r] # None => files'[r] = files[r]
    BY <1>1, <1>7, <2>3 DEF Store, Stored, CanStore
  <2>5. Attempt(x, files') BY <1>1, <2>2, <2>3, <2>4 DEF Attempt, Steps
  <2> QED BY <1>2, <1>7, <2>1, <2>2, <2>4, <2>5, AttemptGoesOn DEF Store
<1>8. CASE StoreFails(w)
  <2>1. PICK x : x = Fails(w, "internal", {"WORKER_INTERNAL_ERROR"}) OBVIOUS
  <2>2. /\ x.pc = "failing" /\ x.row = proc[w].row /\ x.page = proc[w].page
        /\ x.digest = proc[w].digest /\ x.previous = proc[w].previous
        /\ x.after = proc[w].after /\ IsProc(x) /\ x.kind = "internal"
    BY <1>3, <2>1
  <2>3. Attempt(x, files) BY <1>1, <1>8, <2>2 DEF Attempt, Steps, StoreFails
  <2> QED BY <1>1, <1>2, <1>8, <2>1, <2>2, <2>3, AttemptGoesOn DEF StoreFails
<1>9. CASE JudgeFails(w)
  <2>1. PICK y : y = Fails(w, "internal", {"WORKER_INTERNAL_ERROR"}) OBVIOUS
  <2>2. PICK x : x = [y EXCEPT !.pc = "reporting"] OBVIOUS
  <2>3. /\ x.pc = "reporting" /\ x.row = proc[w].row /\ x.page = proc[w].page
        /\ x.digest = proc[w].digest /\ x.previous = proc[w].previous
        /\ x.after = proc[w].after /\ IsProc(x) /\ x.kind = "internal"
    BY <1>3, <2>1, <2>2 DEF IsProc
  <2>4. Attempt(x, files) BY <1>1, <1>9, <2>3 DEF Attempt, Steps, JudgeFails, Explained
  <2> QED BY <1>1, <1>2, <1>9, <2>1, <2>2, <2>3, <2>4, AttemptGoesOn DEF JudgeFails
<1>10. CASE Retain(w)
  <2>1. proc[w].pc = "failing" /\ proc[w].row \in Results /\ proc[w].page \in Pages
    BY <1>1, <1>10 DEF Attempt, Retain
  <2>2. CASE CanStore(proc[w].row, proc[w].page) /\ Stored(proc[w].row, proc[w].page)
               /\ Set(w, [proc[w] EXCEPT !.pc = "reporting", !.digest = proc[w].page])
               /\ UNCHANGED faults
    <3>1. PICK x : x = [proc[w] EXCEPT !.pc = "reporting", !.digest = proc[w].page] OBVIOUS
    <3>2. /\ x.pc = "reporting" /\ x.row = proc[w].row /\ x.page = proc[w].page
          /\ x.digest = proc[w].page /\ x.previous = proc[w].previous
          /\ x.after = proc[w].after /\ IsProc(x) /\ x.kind = proc[w].kind
      BY <1>1, <3>1 DEF Attempt, IsProc
    <3>3. /\ files' \in [Results -> Pages \union {None}] /\ files'[proc[w].row] = proc[w].page
          /\ \A r \in Results : files[r] # None => files'[r] = files[r]
      BY <1>1, <2>1, <2>2 DEF Stored, CanStore
    <3>4. Attempt(x, files') BY <1>1, <2>1, <3>2, <3>3 DEF Attempt, Steps, Explained
    <3> QED BY <1>2, <1>10, <2>1, <2>2, <3>1, <3>2, <3>3, <3>4, AttemptGoesOn DEF Retain
  <2>3. CASE /\ Set(w, [proc[w] EXCEPT !.pc = "reporting"])
             /\ IF CanStore(proc[w].row, proc[w].page) THEN Fault ELSE UNCHANGED faults
             /\ UNCHANGED files
    <3>1. PICK x : x = [proc[w] EXCEPT !.pc = "reporting"] OBVIOUS
    <3>2. /\ x.pc = "reporting" /\ x.row = proc[w].row /\ x.page = proc[w].page
          /\ x.digest = proc[w].digest /\ x.previous = proc[w].previous
          /\ x.after = proc[w].after /\ IsProc(x) /\ x.kind = proc[w].kind
      BY <1>1, <3>1 DEF Attempt, IsProc
    <3>3. Attempt(x, files) BY <1>1, <2>1, <3>2 DEF Attempt, Steps, Explained
    <3> QED BY <1>1, <1>2, <1>10, <2>1, <2>3, <3>1, <3>2, <3>3, AttemptGoesOn DEF Retain
  <2> QED BY <1>10, <2>2, <2>3 DEF Retain
<1> QED BY <1>4, <1>5, <1>6, <1>7, <1>8, <1>9, <1>10

\* An owner ends its row and is done with it.
Ends(w, r, status, kind, codes, product) ==
    /\ proc[w].pc \in {"judging", "reporting"} /\ r = proc[w].row
    /\ rows[r].owner = w
    /\ Finished(r, w, status, kind, codes, product)
    /\ Set(w, Idle)
    /\ UNCHANGED <<files, faults, rules>>

LEMMA EndedRow ==
    ASSUME IInv, NEW w \in Workers, NEW r, NEW status \in Ended, NEW kind, NEW codes,
           NEW product, Ends(w, r, status, kind, codes, product),
           product # None => /\ proc[w].pc = "judging" /\ product = Reading[proc[w].page]
                             /\ Reading[proc[w].page].failed = None,
           status = "failed" => Explained(kind, codes, proc[w].digest)
    PROVE  /\ r \in Results /\ rows[r].status = "running"
           /\ \E x : /\ rows' = [rows EXCEPT ![r] = x] /\ rows'[r] = x
                     /\ Row(x) /\ Proven(x, files[r])
                     /\ x.status = status /\ x.product = product /\ x.after = proc[w].after
                     /\ x.digest = proc[w].digest
           /\ \A s \in Results \ {r} : rows'[s] = rows[s]
           /\ ProcsTyped' /\ InTurn' /\ faults' \in Nat
           /\ \A v \in Workers : proc'[v].pc # "idle" => v # w /\ proc'[v] = proc[v]
<1>1. Attempt(proc[w], files) /\ r \in Results
  BY DEF IInv, Base, ProcsTyped, Attempt, Ends
<1>2. Row(rows[r]) /\ rows[r].status = "running"
  <2>1. Row(rows[r]) BY <1>1 DEF IInv, Base, RowsTyped
  <2> QED BY <2>1, EvidenceAssumption DEF Row, Ends
<1>3. PICK x : x = [rows[r] EXCEPT !.status = status, !.owner = None,
                      !.digest = proc[w].digest, !.kind = kind, !.codes = codes,
                      !.product = product, !.after = proc[w].after]
  OBVIOUS
<1>4. rows' = [rows EXCEPT ![r] = x] BY <1>3 DEF Ends, Finished
<1>5. /\ x.status = status /\ x.owner = None /\ x.digest = proc[w].digest
      /\ x.product = product /\ x.after = proc[w].after /\ IsRow(x)
      /\ x.kind = kind /\ x.codes = codes
  BY <1>2, <1>3 DEF Row, IsRow
<1>6. Row(x) BY <1>1, <1>5, EvidenceAssumption DEF Row, Attempt, Ended, Statuses
<1>7. Proven(x, files[r])
  <2>1. proc[w].digest # None => files[r] = proc[w].digest BY <1>1 DEF Attempt, Ends
  <2>2. proc[w].pc = "judging" => proc[w].digest = proc[w].page /\ proc[w].page \in Pages
    BY <1>1 DEF Attempt
  <2> QED BY <1>5, <2>1, <2>2, EvidenceAssumption DEF Proven
<1>8. rows'[r] = x /\ \A s \in Results \ {r} : rows'[s] = rows[s]
  BY <1>1, <1>4 DEF IInv, Base, RowsTyped
<1>9. /\ proc' = [proc EXCEPT ![w] = Idle] /\ proc'[w] = Idle
      /\ \A v \in Workers \ {w} : proc'[v] = proc[v]
  BY DEF Ends, Set, IInv, Base, ProcsTyped
<1>10. ProcsTyped'
  <2>1. Attempt(Idle, files) BY DEF Attempt, IsProc, Idle, Steps
  <2>2. \A v \in Workers : Attempt(proc'[v], files')
    BY <1>9, <2>1 DEF Ends, IInv, Base, ProcsTyped
  <2>3. \A v \in Workers : Attempt(proc[v], files)' BY <2>2 DEF Attempt, IsProc
  <2> QED BY <1>9, <2>3 DEF IInv, Base, ProcsTyped
<1>11. InTurn'
  <2>1. \A s \in Results : /\ rows'[s].status # "none" => rows[s].status # "none"
                           /\ rows[s].status \in Ended => rows'[s].status \in Ended
    BY <1>2, <1>5, <1>8 DEF Ended
  <2> QED BY <2>1 DEF IInv, InTurn
<1>12. faults' \in Nat BY DEF Ends, IInv, Base, RulesTyped
<1>13. \A v \in Workers : proc'[v].pc # "idle" => v # w /\ proc'[v] = proc[v]
  BY <1>9 DEF Idle
<1> QED BY <1>1, <1>2, <1>4, <1>5, <1>6, <1>7, <1>8, <1>10, <1>11, <1>12, <1>13

LEMMA RefusalKeeps ==
    ASSUME IInv, NEW w \in Workers, NEW r, NEW status \in {"invalid", "failed"},
           NEW kind, NEW codes, NEW product,
           Ends(w, r, status, kind, codes, product), UNCHANGED <<current, changes>>,
           product # None => /\ proc[w].pc = "judging" /\ product = Reading[proc[w].page]
                             /\ Reading[proc[w].page].failed = None,
           status = "failed" => Explained(kind, codes, proc[w].digest)
    PROVE  IInv'
<1>0. status \in Ended BY DEF Ended
<1>1. /\ r \in Results /\ rows[r].status = "running"
      /\ \E x : /\ rows' = [rows EXCEPT ![r] = x] /\ rows'[r] = x
                /\ Row(x) /\ Proven(x, files[r])
                /\ x.status = status /\ x.product = product /\ x.after = proc[w].after
                /\ x.digest = proc[w].digest
      /\ \A s \in Results \ {r} : rows'[s] = rows[s]
      /\ ProcsTyped' /\ InTurn' /\ faults' \in Nat
      /\ \A v \in Workers : proc'[v].pc # "idle" => v # w /\ proc'[v] = proc[v]
  BY <1>0, EndedRow
<1>2. PICK x : /\ rows' = [rows EXCEPT ![r] = x] /\ rows'[r] = x
               /\ Row(x) /\ Proven(x, files[r]) /\ x.status = status
  BY <1>1
<1>3. Snapshots'
  <2> SUFFICES ASSUME NEW v \in Workers, proc'[v].pc # "idle", rows'[proc'[v].row].owner = v
               PROVE  proc'[v].previous = current[TargetOf[proc'[v].row]]
    BY DEF Snapshots
  <2>1. v # w /\ proc'[v] = proc[v] /\ proc[v].row \in Results
    BY <1>1 DEF IInv, Base, ProcsTyped, Attempt
  <2>2. x.owner = None BY <1>2 DEF Row
  <2>3. proc[v].row # r BY <1>2, <2>1, <2>2, EvidenceAssumption
  <2> QED BY <1>1, <2>1, <2>3 DEF IInv, Snapshots
<1>4. rows[r].status # "succeeded" /\ x.status # "succeeded" BY <1>1, <1>2
<1>5. UNCHANGED <<files, current, changes, rules>> BY DEF Ends
<1> QED BY <1>1, <1>2, <1>3, <1>4, <1>5, RowGoesOn

LEMMA RecordFailureKeeps ==
    ASSUME IInv, NEW w \in Workers, RecordFailure(w) PROVE IInv'
<1>1. CASE rows[proc[w].row].owner = w
  <2>1. Ends(w, proc[w].row, "failed", proc[w].kind, proc[w].codes, None)
        /\ UNCHANGED <<current, changes>>
    BY <1>1 DEF RecordFailure, Ends, Owns
  <2>2. Explained(proc[w].kind, proc[w].codes, proc[w].digest)
    BY DEF RecordFailure, IInv, Base, ProcsTyped, Attempt
  <2> QED BY <2>1, <2>2, RefusalKeeps
<1>2. CASE rows[proc[w].row].owner # w
  <2>1. Attempt(Idle, files) /\ Idle.pc = "idle"
    BY DEF Attempt, IsProc, Idle, Steps
  <2>2. files \in [Results -> Pages \union {None}] /\ faults \in Nat
    BY DEF IInv, Base, RowsTyped, RulesTyped
  <2> QED BY <1>2, <2>1, <2>2, AttemptGoesOn DEF RecordFailure, Owns
<1> QED BY <1>1, <1>2

\* the places of six checks among all
LEMMA CheckPlaces ==
    ASSUME NEW S, NEW a \in S, NEW b1 \in S, NEW b2 \in S, NEW b3 \in S, NEW b4 \in S,
           NEW b5 \in S, NEW c1 \in S, NEW c2 \in S, NEW c3 \in S, NEW c4 \in S, NEW c5 \in S,
           NEW d1 \in S, NEW d2 \in S, NEW d3 \in S, NEW checks,
           checks = <<a>> \o <<b1, b2, b3, b4, b5>> \o <<c1, c2, c3, c4, c5>> \o <<d1, d2, d3>>
    PROVE  /\ {1, 2, 6, 11, 12, 13} \subseteq DOMAIN checks
           /\ checks[1] = a /\ checks[2] = b1 /\ checks[6] = b5 /\ checks[11] = c5
           /\ checks[12] = d1 /\ checks[13] = d2
<1>1. PICK first : first = <<a>> \o <<b1, b2, b3, b4, b5>> OBVIOUS
<1>2. /\ first \in Seq(S) /\ Len(first) = 6
      /\ first[1] = a /\ first[2] = b1 /\ first[6] = b5
  BY <1>1
<1>3. PICK more : more = first \o <<c1, c2, c3, c4, c5>> OBVIOUS
<1>4. /\ more \in Seq(S) /\ Len(more) = 11
      /\ more[1] = a /\ more[2] = b1 /\ more[6] = b5 /\ more[11] = c5
  <2>1. PICK five : five = <<c1, c2, c3, c4, c5>> OBVIOUS
  <2>2. five \in Seq(S) /\ Len(five) = 5 /\ five[5] = c5 BY <2>1
  <2>3. /\ more \in Seq(S) /\ Len(more) = 11
        /\ \A i \in 1 .. 11 : more[i] = IF i <= 6 THEN first[i] ELSE five[i - 6]
    <3>1. /\ first \o five \in Seq(S) /\ Len(first \o five) = Len(first) + Len(five)
          /\ \A i \in 1 .. Len(first) + Len(five) : (first \o five)[i] =
               IF i <= Len(first) THEN first[i] ELSE five[i - Len(first)]
      BY <1>2, <2>2, ConcatProperties
    <3>2. Len(first) = 6 /\ Len(five) = 5 /\ more = first \o five BY <1>2, <1>3, <2>1, <2>2
    <3>3. 6 + 5 = 11 OBVIOUS
    <3> QED BY <3>1, <3>2, <3>3
  <2> QED BY <1>2, <2>2, <2>3
<1>5. PICK last : last = <<d1, d2, d3>> OBVIOUS
<1>6. last \in Seq(S) /\ Len(last) = 3 /\ last[1] = d1 /\ last[2] = d2 BY <1>5
<1>7. checks = more \o last BY <1>1, <1>3, <1>5
<1>8. /\ checks \in Seq(S) /\ Len(checks) = 14
      /\ \A i \in 1 .. 14 : checks[i] = IF i <= 11 THEN more[i] ELSE last[i - 11]
  <2>1. /\ more \o last \in Seq(S) /\ Len(more \o last) = Len(more) + Len(last)
        /\ \A i \in 1 .. Len(more) + Len(last) : (more \o last)[i] =
             IF i <= Len(more) THEN more[i] ELSE last[i - Len(more)]
    BY <1>4, <1>6, ConcatProperties
  <2>2. Len(more) = 11 /\ Len(last) = 3 /\ 11 + 3 = 14 BY <1>4, <1>6
  <2> QED BY <1>7, <2>1, <2>2
<1>9. DOMAIN checks = 1 .. 14 BY <1>8
<1>10. checks[12] = d1 /\ checks[13] = d2 BY <1>6, <1>8
<1> QED BY <1>4, <1>8, <1>9, <1>10

\* what an accepted product has, whatever its page
LEMMA AcceptedProduct ==
    ASSUME NEW product, NEW target, Accepts(product, target)
    PROVE  /\ ~ product.price <= 0
           /\ product.currency \in KnownCurrencies
           /\ target.previousCurrency \in {None, product.currency}
           /\ ~ TooLargeChange(product, target)
           /\ ParseMoney(product.evidence) = product.price
<1>1. PICK a : /\ SchemaChecks(product) = <<a>>
               /\ a = Check("currency_unknown", "schema", product.currency \notin KnownCurrencies)
  BY DEF SchemaChecks
<1>2. PICK b1, b2, b3, b4, b5 :
        /\ PriceChecks(product, target) = <<b1, b2, b3, b4, b5>>
        /\ b1 = Check("price_non_positive", "plausibility", product.price <= 0)
        /\ b5 = Check("price_change_too_large", "plausibility",
                      TooLargeChange(product, target))
  BY DEF PriceChecks
<1>3. PICK c1, c2, c3, c4, c5 :
        /\ IdentityChecks(product, target) = <<c1, c2, c3, c4, c5>>
        /\ c5 = Check("currency_changed_unexpectedly", "plausibility",
                      target.previousCurrency # None
                        /\ product.currency # target.previousCurrency)
  BY DEF IdentityChecks
<1>4. PICK d1, d2, d3 :
        /\ EvidenceChecks(product) = <<d1, d2, d3>>
        /\ d1 = Check("price_evidence_not_numeric", "extraction",
                      ParseMoney(product.evidence) = None)
        /\ d2 = Check("price_evidence_mismatch", "extraction",
                      /\ ParseMoney(product.evidence) # None
                      /\ ParseMoney(product.evidence) # product.price)
  BY DEF EvidenceChecks
<1>5. PICK checks : checks = Checks(product, target) OBVIOUS
<1>6. checks = <<a>> \o <<b1, b2, b3, b4, b5>> \o <<c1, c2, c3, c4, c5>> \o <<d1, d2, d3>>
  BY <1>1, <1>2, <1>3, <1>4, <1>5 DEF Checks
<1>7. PICK S : {a, b1, b2, b3, b4, b5, c1, c2, c3, c4, c5, d1, d2, d3} \subseteq S OBVIOUS
<1>8. /\ {1, 2, 6, 11, 12, 13} \subseteq DOMAIN checks
      /\ checks[1] = a /\ checks[2] = b1 /\ checks[6] = b5 /\ checks[11] = c5
      /\ checks[12] = d1 /\ checks[13] = d2
  BY <1>6, <1>7, CheckPlaces
<1>9. \A i \in DOMAIN checks : ~ checks[i].fails
  BY <1>5 DEF Accepts, Failing
<1>10. ~ a.fails /\ ~ b1.fails /\ ~ b5.fails /\ ~ c5.fails /\ ~ d1.fails /\ ~ d2.fails
  BY <1>8, <1>9
<1>11. product.currency \in KnownCurrencies BY <1>1, <1>10 DEF Check
<1>12. ~ product.price <= 0 BY <1>2, <1>10 DEF Check
<1>13. target.previousCurrency \in {None, product.currency} BY <1>3, <1>10 DEF Check
<1>14. ~ TooLargeChange(product, target) BY <1>2, <1>10 DEF Check
<1>15. ParseMoney(product.evidence) = product.price BY <1>4, <1>10 DEF Check
<1> QED BY <1>11, <1>12, <1>13, <1>14, <1>15

LEMMA AcceptanceKeeps ==
    ASSUME IInv, NEW w \in Workers, NEW r, NEW product,
           proc[w].pc = "judging", r = proc[w].row, rows[r].owner = w,
           product = Reading[proc[w].page], product.failed = None,
           Accepts(product, TargetAt(w)),
           RecordSuccess(w, r, product), Set(w, Idle), UNCHANGED <<files, faults, rules>>
    PROVE  IInv'
<1> DEFINE t == TargetOf[r]  before == current[t]
<1>1. Ends(w, r, "succeeded", None, {}, product) /\ "succeeded" \in Ended
  BY DEF RecordSuccess, Ends, Ended
<1>2. /\ r \in Results /\ rows[r].status = "running"
      /\ \E x : /\ rows' = [rows EXCEPT ![r] = x] /\ rows'[r] = x
                /\ Row(x) /\ Proven(x, files[r])
                /\ x.status = "succeeded" /\ x.product = product /\ x.after = proc[w].after
                /\ x.digest = proc[w].digest
      /\ \A s \in Results \ {r} : rows'[s] = rows[s]
      /\ ProcsTyped' /\ InTurn' /\ faults' \in Nat
      /\ \A v \in Workers : proc'[v].pc # "idle" => v # w /\ proc'[v] = proc[v]
  <2>1. PICK status, kind, codes : status = "succeeded" /\ kind = None /\ codes = {}
    OBVIOUS
  <2>2. /\ status \in Ended /\ status # "failed"
        /\ Ends(w, r, status, kind, codes, product)
    BY <1>1, <2>1
  <2> HIDE DEF t, before
  <2>3. /\ r \in Results /\ rows[r].status = "running"
        /\ \E x : /\ rows' = [rows EXCEPT ![r] = x] /\ rows'[r] = x
                  /\ Row(x) /\ Proven(x, files[r])
                  /\ x.status = status /\ x.product = product /\ x.after = proc[w].after
                  /\ x.digest = proc[w].digest
        /\ \A s \in Results \ {r} : rows'[s] = rows[s]
        /\ ProcsTyped' /\ InTurn' /\ faults' \in Nat
        /\ \A v \in Workers : proc'[v].pc # "idle" => v # w /\ proc'[v] = proc[v]
    BY <2>2, EndedRow
  <2> QED BY <2>1, <2>3
<1>3. PICK x : /\ rows' = [rows EXCEPT ![r] = x] /\ rows'[r] = x
               /\ Row(x) /\ Proven(x, files[r])
               /\ x.status = "succeeded" /\ x.product = product /\ x.after = proc[w].after
               /\ x.digest = proc[w].digest
  BY <1>2
<1>4. t \in Targets BY <1>2 DEF Targets
<1>5. proc[w].page \in Legible /\ proc[w].digest = proc[w].page
  BY DEF Legible, IInv, Base, ProcsTyped, Attempt
<1>6. product.price \in Int /\ product.currency # None
  BY <1>5, ReadingAssumption DEF Legible
<1>7. proc[w].previous = before BY DEF IInv, Snapshots
<1>8. before \in Moneys BY <1>4 DEF IInv, Base, RulesTyped
<1>9. before.price \in Int /\ (before # NoPrice => before.currency # None)
  <2>1. CASE before = NoPrice BY <2>1 DEF NoPrice
  <2>2. ASSUME NEW p \in Legible, before = Money(Reading[p])
        PROVE  before.price \in Int /\ before.currency # None
    <3>1. Reading[p].price \in Int /\ Reading[p].currency # None
      BY ReadingAssumption DEF Legible
    <3> QED BY <2>2, <3>1 DEF Money
  <2> QED BY <1>8, <2>1, <2>2 DEF Moneys
<1>10. /\ product.price > 0 /\ product.currency # "none"
       /\ ParseMoney(product.evidence) = product.price
       /\ before = NoPrice \/ before.currency = product.currency
  <2>1. /\ ~ product.price <= 0 /\ product.currency \in KnownCurrencies
        /\ TargetAt(w).previousCurrency \in {None, product.currency}
        /\ ParseMoney(product.evidence) = product.price
    BY AcceptedProduct
  <2>2. TargetAt(w).previousCurrency = IF before = NoPrice THEN None ELSE before.currency
    BY <1>7 DEF TargetAt, ScrapeTarget
  <2> QED BY <1>6, <1>9, <2>1, <2>2, SettingAssumption
<1>11. Acceptable(x)
  BY <1>3, <1>5, <1>10 DEF Acceptable
<1>12. \A s \in AcceptedIn(rows, t) : s < r
  <2> SUFFICES ASSUME NEW s \in Results, rows[s].status = "succeeded", TargetOf[s] = t,
                      ~ s < r
               PROVE  FALSE
    BY DEF AcceptedIn
  <2>1. s # r BY <1>2
  <2>2. r < s BY <1>2, <2>1, EvidenceAssumption
  <2>3. rows[r].status \in Ended BY <1>2, <2>2 DEF IInv, InTurn
  <2> QED BY <1>2, <2>3 DEF Ended
<1>13. /\ PriceFollows(Money(product), rows', t)
       /\ \A u : u # t => \A price : PriceFollows(price, rows, u) => PriceFollows(price, rows', u)
       /\ HistoryOf(rows', Append(changes, ChangeOf(r, product.price, product.currency,
                                                    before, proc[w].after)))
  <2> DEFINE rs == rows  new == rows'  history == changes  old == before
  <2>1. /\ \A s \in Results \ {r} : new[s] = rs[s]
        /\ rs[r].status # "succeeded" /\ new[r].status = "succeeded" /\ Acceptable(new[r])
        /\ new[r].product.price \in Int /\ new[r].after \subseteq Rules
    BY <1>2, <1>3, <1>6, <1>11 DEF Row
  <2>2. \A s \in AcceptedIn(rs, TargetOf[r]) : s < r BY <1>12
  <2>3. PriceFollows(old, rs, TargetOf[r]) /\ HistoryOf(rs, history)
    BY <1>4 DEF IInv, CurrentFollows, HistoryFollows
  <2>4. old.price \in Int /\ (old = NoPrice \/ old.currency = new[r].product.currency)
    BY <1>3, <1>9, <1>10
  <2>5. r \in Results /\ new[r].product = product /\ new[r].after = proc[w].after
    BY <1>2, <1>3
  <2> HIDE DEF rs, new, history, old
  <2>6. /\ PriceFollows(Money(new[r].product), new, TargetOf[r])
        /\ \A u : u # TargetOf[r] =>
             \A price : PriceFollows(price, rs, u) => PriceFollows(price, new, u)
        /\ HistoryOf(new, Append(history,
             ChangeOf(r, new[r].product.price, new[r].product.currency,
                      old, new[r].after)))
    BY <2>1, <2>2, <2>3, <2>4, <2>5, OneAccepted
  <2> QED BY <2>5, <2>6 DEF rs, new, history, old
<1>14. /\ changes' = Append(changes, ChangeOf(r, product.price, product.currency,
                                              before, proc[w].after))
       /\ current' = [current EXCEPT ![t] = Money(product)]
  BY DEF RecordSuccess, Money
<1>15. HistoryFollows' BY <1>13, <1>14 DEF HistoryFollows
<1>16. /\ current'[t] = Money(product) /\ current' = [u \in Targets |-> current'[u]]
       /\ \A u \in Targets : u # t => current'[u] = current[u]
  BY <1>4, <1>14 DEF IInv, Base, RulesTyped
<1>17. CurrentFollows'
  <2>1. \A u \in Targets : PriceFollows(current'[u], rows', u)
    BY <1>13, <1>16 DEF IInv, CurrentFollows
  <2> QED BY <2>1 DEF CurrentFollows
<1>18. RulesTyped'
  <2>1. Money(product) \in Moneys BY <1>5 DEF Moneys
  <2>2. \A u \in Targets : current'[u] \in Moneys
    BY <1>16, <2>1 DEF IInv, Base, RulesTyped
  <2>3. current' \in [Targets -> Moneys] BY <1>16, <2>2
  <2>4. Moneys' = Moneys BY DEF Moneys, Legible, Money, NoPrice
  <2> QED BY <1>2, <2>3, <2>4 DEF IInv, Base, RulesTyped
<1>19. RowsTyped'
  <2>1. rows' = [s \in Results |-> rows'[s]] BY <1>3 DEF IInv, Base, RowsTyped
  <2>2. \A s \in Results : Row(rows'[s]) BY <1>2, <1>3 DEF IInv, Base, RowsTyped
  <2>3. \A s \in Results : Row(rows[s])' BY <2>2 DEF Row, IsRow
  <2> QED BY <2>1, <2>3 DEF IInv, Base, RowsTyped
<1>20. Evidence'
  <2>1. \A s \in Results : Proven(rows'[s], files'[s])
    BY <1>2, <1>3 DEF IInv, Base, Evidence
  <2> QED BY <2>1 DEF Evidence, Proven
<1>21. Snapshots'
  <2> SUFFICES ASSUME NEW v \in Workers, proc'[v].pc # "idle", rows'[proc'[v].row].owner = v
               PROVE  proc'[v].previous = current'[TargetOf[proc'[v].row]]
    BY DEF Snapshots
  <2>1. v # w /\ proc'[v] = proc[v] /\ proc[v].row \in Results
    BY <1>2 DEF IInv, Base, ProcsTyped, Attempt
  <2>2. PICK s \in Results : s = proc[v].row BY <2>1
  <2>3. x.owner = None BY <1>3 DEF Row
  <2>4. s # r BY <1>3, <2>1, <2>2, <2>3, EvidenceAssumption
  <2>5. rows[s].owner = v BY <1>2, <2>1, <2>2, <2>4
  <2>6. rows[s].status = "running" BY <2>5, EvidenceAssumption DEF IInv, Base, RowsTyped, Row
  <2>7. TargetOf[s] # t
    <3>1. s < r \/ r < s BY <1>2, <2>4, EvidenceAssumption
    <3> QED BY <1>2, <2>6, <3>1 DEF IInv, InTurn, Ended
  <2>8. current'[TargetOf[s]] = current[TargetOf[s]] BY <1>16, <2>7 DEF Targets
  <2> QED BY <2>1, <2>2, <2>5, <2>8 DEF IInv, Snapshots
<1> QED BY <1>2, <1>15, <1>17, <1>18, <1>19, <1>20, <1>21 DEF IInv, Base

LEMMA JudgeKeeps ==
    ASSUME IInv, NEW w \in Workers, Judge(w) PROVE IInv'
<1> DEFINE r == proc[w].row  product == Reading[proc[w].page]
<1>1. Attempt(proc[w], files) /\ files \in [Results -> Pages \union {None}] /\ faults \in Nat
  BY DEF IInv, Base, ProcsTyped, RowsTyped, RulesTyped
<1>2. CASE product.failed # None
  <2>1. PICK y : y = Fails(w, "extraction", {ExtractionCode[product.failed]}) OBVIOUS
  <2>2. PICK x : x = [y EXCEPT !.pc = "reporting"] OBVIOUS
  <2>3. /\ x.pc = "reporting" /\ x.row = proc[w].row /\ x.page = proc[w].page
        /\ x.digest = proc[w].digest /\ x.previous = proc[w].previous
        /\ x.after = proc[w].after /\ IsProc(x)
        /\ x.kind = "extraction" /\ x.codes = {ExtractionCode[product.failed]}
    BY <1>1, <2>1, <2>2 DEF Attempt, IsProc, Fails
  <2>4. proc[w].pc = "judging" BY DEF Judge
  <2>5. proc[w].page \in Pages /\ x.digest = proc[w].page BY <1>1, <2>3, <2>4 DEF Attempt
  <2>6. Explained(x.kind, x.codes, x.digest)
    BY <1>2, <2>3, <2>5, EvidenceAssumption DEF Explained
  <2>7. Attempt(x, files) BY <1>1, <2>3, <2>4, <2>5, <2>6 DEF Attempt, Steps
  <2>8. Set(w, x) /\ UNCHANGED <<rows, changes, current, files, faults, rules>>
    BY <1>2, <2>1, <2>2 DEF Judge, Owns
  <2> QED BY <1>1, <2>3, <2>4, <2>7, <2>8, AttemptGoesOn
<1>3. CASE product.failed = None /\ rows[r].owner # w
  <2>1. Attempt(Idle, files) /\ Idle.pc = "idle"
    BY DEF Attempt, IsProc, Idle, Steps
  <2>2. Set(w, Idle) /\ UNCHANGED <<rows, changes, current, files, faults, rules>>
    BY <1>3 DEF Judge, Owns
  <2> QED BY <1>1, <2>1, <2>2, AttemptGoesOn
<1>4. CASE product.failed = None /\ rows[r].owner = w /\ Accepts(product, TargetAt(w))
  <2>1. /\ proc[w].pc = "judging" /\ RecordSuccess(w, r, product) /\ Set(w, Idle)
        /\ UNCHANGED <<files, faults, rules>>
    BY <1>4 DEF Judge, Owns
  <2> QED BY <1>4, <2>1, AcceptanceKeeps
<1>5. CASE product.failed = None /\ rows[r].owner = w /\ ~ Accepts(product, TargetAt(w))
  <2>1. /\ proc[w].pc = "judging" /\ RecordInvalid(w, r, product) /\ Set(w, Idle)
        /\ UNCHANGED <<files, faults, rules>>
    BY <1>5 DEF Judge, Owns
  <2>2. Ends(w, r, "invalid", PrimaryFailureKind(product, TargetAt(w)),
             IssueCodes(product, TargetAt(w)), product)
        /\ UNCHANGED <<current, changes>>
    BY <1>5, <2>1 DEF RecordInvalid, Ends
  <2> QED BY <1>5, <2>1, <2>2, RefusalKeeps
<1> QED BY <1>2, <1>3, <1>4, <1>5

LEMMA AlertKeeps ==
    ASSUME IInv, NEW q \in Rules, Alert(q) PROVE IInv'
<1>1. UNCHANGED <<rows, files, proc, current, faults, changes>>
  BY DEF Alert, evidenceVars, CreateRule, UpdateRule, DeleteRule
<1>2. rules' \in [Rules -> RuleType \union {Absent, Deleted}]
  <2>1. rules \in [Rules -> RuleType \union {Absent, Deleted}] BY DEF IInv, Base, RulesTyped
  <2>2. CASE CreateRule(q) BY <2>1, <2>2 DEF CreateRule, RuleType
  <2>3. CASE UpdateRule(q) BY <2>1, <2>3 DEF UpdateRule
  <2>4. CASE DeleteRule(q) BY <2>1, <2>4 DEF DeleteRule
  <2> QED BY <2>2, <2>3, <2>4 DEF Alert
<1>3. RulesTyped' BY <1>1, <1>2 DEF IInv, Base, RulesTyped
<1>4. RowsTyped' /\ ProcsTyped'
  BY <1>1 DEF IInv, Base, RowsTyped, ProcsTyped, Row, IsRow, Attempt, IsProc
<1>5. Evidence' BY <1>1 DEF IInv, Base, Evidence, Proven
<1>6. InTurn' /\ Snapshots' BY <1>1 DEF IInv, InTurn, Snapshots
<1>7. CurrentFollows' /\ HistoryFollows' BY <1>1 DEF IInv, CurrentFollows, HistoryFollows
<1> QED BY <1>3, <1>4, <1>5, <1>6, <1>7 DEF IInv, Base

LEMMA StepKeeps == IInv /\ [Next]_vars => IInv'
<1> SUFFICES ASSUME IInv, [Next]_vars PROVE IInv' OBVIOUS
<1>1. CASE \E r \in Results : Enqueue(r) BY <1>1, EnqueueKeeps
<1>2. CASE \E w \in Workers, r \in Results : Claim(w, r) BY <1>2, ClaimKeeps
<1>3. ASSUME NEW w \in Workers,
             \/ Abandon(w) \/ Fetch(w) \/ FetchFails(w) \/ Store(w) \/ StoreFails(w)
             \/ Judge(w) \/ JudgeFails(w) \/ Retain(w) \/ RecordFailure(w)
      PROVE  IInv'
  BY <1>3, AttemptKeeps, JudgeKeeps, RecordFailureKeeps
<1>4. CASE \E q \in Rules : Alert(q) BY <1>4, AlertKeeps
<1>5. CASE UNCHANGED vars
  <2>1. UNCHANGED <<rows, files, proc, current, faults, changes, rules>>
    BY <1>5 DEF vars, evidenceVars
  <2>2. RulesTyped' BY <2>1 DEF IInv, Base, RulesTyped
  <2>3. RowsTyped' /\ ProcsTyped'
    BY <2>1 DEF IInv, Base, RowsTyped, ProcsTyped, Row, IsRow, Attempt, IsProc
  <2>4. Evidence' BY <2>1 DEF IInv, Base, Evidence, Proven
  <2>5. InTurn' /\ Snapshots' BY <2>1 DEF IInv, InTurn, Snapshots
  <2>6. CurrentFollows' /\ HistoryFollows' BY <2>1 DEF IInv, CurrentFollows, HistoryFollows
  <2> QED BY <2>2, <2>3, <2>4, <2>5, <2>6 DEF IInv, Base
<1> QED BY <1>1, <1>2, <1>3, <1>4, <1>5 DEF Next

LEMMA Invariance == Spec => []IInv
  BY InitHolds, StepKeeps, PTL DEF Spec

-----------------------------------------------------------------------------
(* What follows from the invariant                                          *)

\* TypeOK: each variable keeps its shape (ScrapeWorker, ResultRecorder).
THEOREM TypeCorrect == Spec => []TypeOK
<1>1. IInv => TypeOK
  <2> SUFFICES ASSUME IInv PROVE TypeOK OBVIOUS
  <2>1. \A r \in Results : Row(rows[r]) /\ files[r] \in Pages \union {None}
    BY DEF IInv, Base, RowsTyped
  <2>2. \A w \in Workers : Attempt(proc[w], files) BY DEF IInv, Base, ProcsTyped
  <2>3. \A q \in Rules : rules[q] \in RuleType \union {Absent, Deleted}
    BY DEF IInv, Base, RulesTyped
  <2> QED BY <2>1, <2>2, <2>3 DEF TypeOK, Row, Attempt, Steps
<1> QED BY <1>1, Invariance, PTL

\* EvidenceMatches: a recorded row points to the snapshot it was decided on,
\* however often attempts of a row overlapped (worker.py _process, results.py).
THEOREM Evident == Spec => []EvidenceMatches
<1>1. IInv => EvidenceMatches
  BY DEF IInv, Base, Evidence, Proven, EvidenceMatches
<1> QED BY <1>1, Invariance, PTL

\* FailureExplained: the page that a failed row points to is one that fails
\* the way the row says, whichever attempt wrote the file (worker.py
\* _record_failure, artifacts.py _write_immutable).
THEOREM FailuresExplained == Spec => []FailureExplained
<1>1. IInv => FailureExplained
  <2> SUFFICES ASSUME IInv, NEW r \in Results, rows[r].status = "failed"
               PROVE  /\ rows[r].kind = "extraction" =>
                           /\ rows[r].digest # None
                           /\ Reading[files[r]].failed # None
                           /\ rows[r].codes = {ExtractionCode[Reading[files[r]].failed]}
                      /\ rows[r].kind = "anti_bot" /\ rows[r].digest # None =>
                           Content[files[r]].antiBot
    BY DEF FailureExplained
  <2>1. rows[r].digest # None => files[r] = rows[r].digest
    BY DEF IInv, Base, Evidence, Proven
  <2>2. Explained(rows[r].kind, rows[r].codes, rows[r].digest)
    BY DEF IInv, Base, Evidence, Proven
  <2> QED BY <2>1, <2>2 DEF Explained
<1> QED BY <1>1, Invariance, PTL

\* The accepted price is what the text it was read from says as a whole,
\* whatever the shop's pages look like (validation.py, the evidence checks).
THEOREM Evidenced == Spec => [](\A r \in Results :
  rows[r].status = "succeeded" =>
    ParseMoney(rows[r].product.evidence) = rows[r].product.price)
<1>1. IInv => \A r \in Results : rows[r].status = "succeeded" =>
                ParseMoney(rows[r].product.evidence) = rows[r].product.price
  BY DEF IInv, HistoryFollows, HistoryOf, Acceptable
<1> QED BY <1>1, Invariance, PTL

LEMMA AcceptedIsShown ==
    ASSUME IInv, NEW r \in Results, rows[r].status = "succeeded"
    PROVE  /\ rows[r].digest \in Pages /\ files[r] = rows[r].digest
           /\ rows[r].product.price = Content[rows[r].digest].shown
           /\ rows[r].product.price \in Int /\ rows[r].product.price > 0
<1>1. Acceptable(rows[r]) /\ Proven(rows[r], files[r])
  BY DEF IInv, HistoryFollows, HistoryOf, Base, Evidence
<1>2. PICK p \in Legible : p = rows[r].digest BY <1>1 DEF Acceptable
<1>3. /\ Reading[p].price \in Int /\ Reading[p].price # None /\ p # None
      /\ ParseMoney(Reading[p].evidence) \in {None, Content[p].shown}
  BY ReadingAssumption, ShownAssumption, EvidenceAssumption DEF Legible
<1>4. rows[r].product = Reading[p] BY <1>1, <1>2 DEF Acceptable
<1>5. PICK read : read = ParseMoney(rows[r].product.evidence) OBVIOUS
<1>6. read = rows[r].product.price /\ rows[r].product.price > 0
  BY <1>1, <1>5 DEF Acceptable
<1>7. read \in {None, Content[p].shown} BY <1>3, <1>4, <1>5
<1>8. files[r] = rows[r].digest BY <1>1, <1>2, <1>3 DEF Proven
<1> QED BY <1>2, <1>3, <1>4, <1>6, <1>7, <1>8 DEF Legible

\* PriceIsShown: where the rules look at the right element, every accepted
\* price is the amount that the stored page shows to a visitor.
THEOREM Shown == Spec => []PriceIsShown
<1>1. IInv => PriceIsShown
  BY AcceptedIsShown DEF PriceIsShown
<1> QED BY <1>1, Invariance, PTL

\* A change from one price to another matches a rule if it moved far enough
\* in the rule's direction.
LEMMA MoveMatches ==
    ASSUME NEW rule \in RuleType, NEW r, NEW old \in Int, NEW new \in Int, old > 0,
           NEW currency, currency # "none", NEW before, NEW after,
           before.price = old, before.currency = currency,
           NEW c, c = ChangeOf(r, new, currency, before, after)
    PROVE  Matching(rule, c) <=>
             100 * (CASE rule.direction = "increase" -> new - old
                      [] rule.direction = "decrease" -> old - new
                      [] OTHER -> Distance(new, old)) >= rule.threshold * old
<1>1. rule.threshold \in Nat \ {0} /\ rule.direction \in Directions
  BY SettingAssumption DEF RuleType
<1>2. PICK bound \in Int : bound = rule.threshold * old BY <1>1
<1>3. bound > 0
  <2>1. PICK n \in Nat \ {0} : n = rule.threshold BY <1>1
  <2>2. n * old > 0 OBVIOUS
  <2> QED BY <1>2, <2>1, <2>2
<1>4. c.amount = new - old /\ c.previous = old
  BY DEF ChangeOf
<1>5. c.kind = IF new - old = 0 THEN "unchanged"
               ELSE IF new - old > 0 THEN "increase" ELSE "decrease"
  BY DEF ChangeOf
<1>6. Matching(rule, c) <=>
        \/ /\ rule.direction \in {"decrease", "either"}
           /\ c.kind = "decrease" /\ 100 * (old - new) >= bound
        \/ /\ rule.direction \in {"increase", "either"}
           /\ c.kind = "increase" /\ 100 * (new - old) >= bound
  <2>1. - (new - old) = old - new OBVIOUS
  <2> QED BY <1>2, <1>4, <2>1 DEF Matching
<1>7. CASE rule.direction = "increase" BY <1>2, <1>3, <1>5, <1>6, <1>7
<1>8. CASE rule.direction = "decrease" BY <1>2, <1>3, <1>5, <1>6, <1>8
<1>9. CASE rule.direction = "either" BY <1>2, <1>3, <1>5, <1>6, <1>9 DEF Distance
<1> QED BY <1>1, <1>7, <1>8, <1>9 DEF Directions

\* What the history says of an accepted row is what its prices say.
LEMMA ToldIsMoved ==
    ASSUME IInv, NEW q \in Existing, NEW r \in Results, rows[r].status = "succeeded",
           NEW c, Tells(c, rows, r)
    PROVE  (q \in c.after /\ Matching(rules[q], c)) <=> MovedEnough(q, r)
<1> DEFINE before == {s \in Accepted(TargetOf[r]) : s < r}
<1>1. before = Earlier(rows, r) /\ c.after = rows[r].after
  BY DEF Earlier, AcceptedIn, Accepted, Tells
<1>2. CASE Earlier(rows, r) = {} /\ c.kind = "initial"
  BY <1>1, <1>2 DEF MovedEnough, Matching
<1>3. ASSUME NEW l \in Results, Latest(l, Earlier(rows, r)),
             c = ChangeOf(r, rows[r].product.price, rows[r].product.currency,
                          Money(rows[l].product), rows[r].after),
             rows[r].product.currency = rows[l].product.currency
      PROVE  (q \in c.after /\ Matching(rules[q], c)) <=> MovedEnough(q, r)
  <2> DEFINE old == rows[l].product.price  new == rows[r].product.price
             currency == rows[r].product.currency
  <2>1. rows[l].status = "succeeded" BY <1>3 DEF Latest, Earlier, AcceptedIn
  <2>2. Acceptable(rows[l]) /\ Acceptable(rows[r])
    BY <2>1 DEF IInv, HistoryFollows, HistoryOf
  <2>3. old \in Int /\ new \in Int /\ old > 0 /\ currency # "none"
    BY <2>2, ReadingAssumption DEF Acceptable, Legible
  <2>4. Money(rows[l].product).price = old /\ Money(rows[l].product).currency = currency
    BY <1>3 DEF Money
  <2>5. rules[q] \in RuleType BY DEF Existing, IInv, Base, RulesTyped
  <2>6. before # {} /\ Max(before) = l
    <3>1. l \in before /\ before \subseteq Int /\ \A s \in before : l >= s
      BY <1>1, <1>3, EvidenceAssumption DEF Latest, Earlier, AcceptedIn
    <3>2. \A s \in before : (\A o \in before : s >= o) => s = l
      BY <3>1
    <3> HIDE DEF before
    <3> QED BY <3>1, <3>2 DEF Max
  <2>7. Matching(rules[q], c) <=>
             100 * (CASE rules[q].direction = "increase" -> new - old
                      [] rules[q].direction = "decrease" -> old - new
                      [] OTHER -> Distance(new, old)) >= rules[q].threshold * old
    <3> HIDE DEF old, new, currency
    <3>1. PICK money : money = Money(rows[l].product) OBVIOUS
    <3>2. c = ChangeOf(r, new, currency, money, rows[r].after)
          /\ money.price = old /\ money.currency = currency
      BY <1>3, <2>4, <3>1 DEF new, currency
    <3> QED BY <2>3, <2>5, <3>2, MoveMatches
  <2>8. MovedEnough(q, r) <=>
          /\ q \in rows[r].after
          /\ 100 * (CASE rules[q].direction = "increase" -> new - old
                      [] rules[q].direction = "decrease" -> old - new
                      [] OTHER -> Distance(new, old)) >= rules[q].threshold * old
    BY <2>6 DEF MovedEnough
  <2> HIDE DEF old, new, currency, before
  <2> QED BY <1>1, <2>7, <2>8
<1> QED BY <1>2, <1>3 DEF Tells

\* AlertsFollowPrices: a rule shows `triggered' exactly when the accepted
\* prices moved by its threshold after it was created (alerts.py evaluate).
THEOREM AlertsExact == Spec => []AlertsFollowPrices
<1>1. IInv => AlertsFollowPrices
  <2> SUFFICES ASSUME IInv, NEW q \in Existing, rules[q].active
               PROVE  Evaluate(q) = "triggered"
                        <=> \E t \in Targets : \E r \in Accepted(t) : MovedEnough(q, r)
    BY DEF AlertsFollowPrices
  <2>1. changes \in Seq(Change) /\ DOMAIN changes = 1 .. Len(changes)
    BY DEF IInv, HistoryFollows, HistoryOf
  <2>2. Evaluate(q) = "triggered"
          <=> \E i \in DOMAIN changes : q \in changes[i].after /\ Matching(rules[q], changes[i])
    BY DEF Evaluate, HistorySince
  <2>3. ASSUME NEW i \in DOMAIN changes, q \in changes[i].after, Matching(rules[q], changes[i])
        PROVE  \E t \in Targets : \E r \in Accepted(t) : MovedEnough(q, r)
    <3>1. PICK c \in Change : c = changes[i] BY <2>1, ElementOfSeq
    <3>2. PICK r \in Results : r = c.row BY DEF Change
    <3>3. rows[r].status = "succeeded" /\ Tells(c, rows, r)
      BY <2>1, <3>1, <3>2 DEF IInv, HistoryFollows, HistoryOf
    <3>4. MovedEnough(q, r) BY <2>3, <3>1, <3>3, ToldIsMoved
    <3> QED BY <3>3, <3>4 DEF Accepted, Targets
  <2>4. ASSUME NEW t \in Targets, NEW r \in Accepted(t), MovedEnough(q, r)
        PROVE  \E i \in DOMAIN changes : q \in changes[i].after /\ Matching(rules[q], changes[i])
    <3>1. r \in Results /\ rows[r].status = "succeeded" BY DEF Accepted
    <3>2. PICK i \in DOMAIN changes : changes[i].row = r
      BY <2>1, <3>1 DEF IInv, HistoryFollows, HistoryOf
    <3>3. PICK c : c = changes[i] OBVIOUS
    <3>4. Tells(c, rows, r) BY <2>1, <3>2, <3>3 DEF IInv, HistoryFollows, HistoryOf
    <3> QED BY <2>4, <3>1, <3>3, <3>4, ToldIsMoved
  <2> QED BY <2>2, <2>3, <2>4
<1> QED BY <1>1, Invariance, PTL

\* What is read from a page does not depend on the address it came from.
LEMMA HostIsNotRead ==
    ASSUME NEW spec, NEW r, files[r] \in Pages
    PROVE  LET there == Extract(spec, PageOf(r))
               here == Extract(spec, Content[files[r]])
           IN  /\ there.failed = here.failed
               /\ here.failed = None =>
                    /\ there.price = here.price /\ there.name = here.name
                    /\ there.currency = here.currency
<1>1. PICK page : page = Content[files[r]] OBVIOUS
<1>2. PICK moved : moved = PageOf(r) OBVIOUS
<1>3. moved.text = page.text /\ moved.container = page.container
  BY <1>1, <1>2, ReadingAssumption DEF PageOf
<1>4. \A rule : Select(moved, rule) = Select(page, rule) BY <1>3 DEF Select
<1>5. \A rules1 : Yields(moved, rules1) = Yields(page, rules1) BY <1>4 DEF Yields
<1>6. \A rules1 : Optional(moved, rules1) = Optional(page, rules1)
  BY <1>4, <1>5 DEF Optional
<1>7. PICK name, price, currency, stock, id :
        /\ name = Optional(page, spec.rules["name"])
        /\ price = Optional(page, spec.rules["price"])
        /\ currency = Optional(page, spec.rules["currency"])
        /\ stock = Optional(page, spec.rules["availability"])
        /\ id = Optional(page, spec.rules["external_product_id"])
  OBVIOUS
<1>8. /\ name = Optional(moved, spec.rules["name"])
      /\ price = Optional(moved, spec.rules["price"])
      /\ currency = Optional(moved, spec.rules["currency"])
      /\ stock = Optional(moved, spec.rules["availability"])
      /\ id = Optional(moved, spec.rules["external_product_id"])
  BY <1>6, <1>7
<1>9. PICK amount, explicit, ofPrice, stocked, ident :
        /\ amount = ParseMoney(price.value)
        /\ explicit = IF currency = None THEN None
                      ELSE DetectCurrency(currency.value, spec.symbolMap)
        /\ ofPrice = IF price = None THEN None
                     ELSE DetectCurrency(price.value, spec.symbolMap)
        /\ stocked = IF stock = None THEN "unknown" ELSE ParseAvailability(stock.value)
        /\ ident = IF id = None THEN None ELSE id.value.name
  OBVIOUS
<1> DEFINE Read(q) ==
             IF ~ page.container THEN Missing("product_container")
             ELSE IF name = None THEN Missing("name")
             ELSE IF price = None THEN Missing("price")
             ELSE IF amount = None THEN Missing("price")
             ELSE IF Cardinality({explicit, ofPrice} \ {None}) # 1 THEN Missing("currency")
             ELSE [failed |-> None, name |-> name.value.name, price |-> amount,
                   currency |-> IF explicit # None THEN explicit ELSE ofPrice,
                   availability |-> stocked, id |-> ident, host |-> q.host,
                   evidence |-> price.raw, context |-> q.context]
<1>10. Extract(spec, page) = Read(page) BY <1>7, <1>9 DEF Extract
<1>11. Extract(spec, moved) = Read(moved) BY <1>3, <1>8, <1>9 DEF Extract
<1>12. PICK there, here : there = Read(moved) /\ here = Read(page) OBVIOUS
<1>13. /\ there.failed = here.failed
       /\ here.failed = None =>
            there.price = here.price /\ there.name = here.name /\ there.currency = here.currency
  BY <1>12 DEF Missing
<1> HIDE DEF Read
<1> QED BY <1>1, <1>2, <1>10, <1>11, <1>12, <1>13

LEMMA AcceptedRow ==
    ASSUME IInv, NEW i \in 1 .. Len(changes)
    PROVE  LET r == changes[i].row
           IN  r \in Results /\ rows[r].status = "succeeded" /\ Acceptable(rows[r])
<1>1. changes[i] \in Change BY ElementOfSeq DEF IInv, HistoryFollows, HistoryOf
<1>2. changes[i].row \in Results BY <1>1 DEF Change
<1> QED BY <1>2 DEF IInv, HistoryFollows, HistoryOf

\* ApprovedReads: what a review may approve reads the stored pages as they
\* were recorded and the failing one as the target says (reviewer.py).
THEOREM ApprovedSound == Spec => []ApprovedReads
<1>1. IInv => ApprovedReads
  <2> SUFFICES ASSUME IInv, NEW trigger \in Results, Reviewable(trigger),
                      NEW candidate \in Approvable(trigger)
               PROVE  /\ \A r \in {Successes[1], Successes[2]} :
                           /\ Extract(candidate, Content[files[r]]).failed = None
                           /\ Extract(candidate, Content[files[r]]).price = rows[r].product.price
                           /\ Extract(candidate, Content[files[r]]).name = rows[r].product.name
                           /\ Extract(candidate, Content[files[r]]).currency
                                = rows[r].product.currency
                      /\ Extract(candidate, Content[files[trigger]]).failed = None
                      /\ TargetInfo[TargetOf[trigger]].currency
                           \in {None, Extract(candidate, Content[files[trigger]]).currency}
                      /\ TargetInfo[TargetOf[trigger]].name
                           \in {None, Extract(candidate, Content[files[trigger]]).name}
    BY DEF ApprovedReads
  <2>1. PICK fixtures : fixtures = Fixtures(trigger) OBVIOUS
  <2>2. /\ DOMAIN fixtures = 1 .. 3
        /\ fixtures[1] = KnownGood("old", Successes[1])
        /\ fixtures[2] = NewFailure(trigger)
        /\ fixtures[3] = KnownGood("holdout", Successes[2])
    BY <2>1 DEF Fixtures
  <2>3. \A i \in 1 .. 3 : \E runs : FixturePasses(candidate, fixtures[i], runs)
    BY <2>1, <2>2 DEF Approvable, ReviewAccepts
  <2>4. ASSUME NEW r, NEW cohort, NEW runs, Readable(r), r \in Results,
               Acceptable(rows[r]), FixturePasses(candidate, KnownGood(cohort, r), runs)
        PROVE  /\ Extract(candidate, Content[files[r]]).failed = None
               /\ Extract(candidate, Content[files[r]]).price = rows[r].product.price
               /\ Extract(candidate, Content[files[r]]).name = rows[r].product.name
               /\ Extract(candidate, Content[files[r]]).currency = rows[r].product.currency
    <3>1. PICK there : there = Extract(candidate, PageOf(r)) OBVIOUS
    <3>2. /\ there.failed = None
          /\ rows[r].product.name \in {None, there.name}
          /\ rows[r].product.price \in {None, there.price}
          /\ rows[r].product.currency \in {None, there.currency}
      BY <2>4, <3>1 DEF FixturePasses, KnownGood
    <3>3. None \notin {rows[r].product.price, rows[r].product.name, rows[r].product.currency}
      BY <2>4, ReadingAssumption DEF Acceptable, Legible
    <3>4. files[r] \in Pages BY <2>4 DEF Readable, Acceptable, Legible
    <3>5. PICK here : here = Extract(candidate, Content[files[r]]) OBVIOUS
    <3>6. /\ there.failed = here.failed
          /\ here.failed = None => /\ there.price = here.price /\ there.name = here.name
                                   /\ there.currency = here.currency
      BY <3>1, <3>4, <3>5, HostIsNotRead
    <3> QED BY <3>2, <3>3, <3>5, <3>6
  <2>5. /\ Successes[1] = changes[Len(changes)].row
        /\ Successes[2] = changes[Len(changes) - 1].row
        /\ Len(changes) \in 1 .. Len(changes) /\ Len(changes) - 1 \in 1 .. Len(changes)
    <3>1. Len(changes) \in Nat BY DEF IInv, HistoryFollows, HistoryOf
    <3>2. Len(changes) >= 2 BY DEF Reviewable
    <3>3. 1 \in 1 .. Len(changes) /\ 2 \in 1 .. Len(changes) BY <3>1, <3>2
    <3>4. Len(changes) + 1 - 1 = Len(changes) /\ Len(changes) + 1 - 2 = Len(changes) - 1
      BY <3>1
    <3> QED BY <3>1, <3>2, <3>3, <3>4 DEF Successes
  <2>6. \A r \in {Successes[1], Successes[2]} :
          r \in Results /\ Acceptable(rows[r]) /\ Readable(r)
    BY <2>5, AcceptedRow DEF Reviewable
  <2>7. ASSUME NEW runs, FixturePasses(candidate, NewFailure(trigger), runs)
        PROVE  /\ Extract(candidate, Content[files[trigger]]).failed = None
               /\ TargetInfo[TargetOf[trigger]].currency
                    \in {None, Extract(candidate, Content[files[trigger]]).currency}
               /\ TargetInfo[TargetOf[trigger]].name
                    \in {None, Extract(candidate, Content[files[trigger]]).name}
    <3>1. PICK there : there = Extract(candidate, PageOf(trigger)) OBVIOUS
    <3>2. /\ there.failed = None
          /\ TargetInfo[TargetOf[trigger]].name \in {None, there.name}
          /\ TargetInfo[TargetOf[trigger]].currency \in {None, there.currency}
      BY <2>7, <3>1 DEF FixturePasses, NewFailure
    <3>3. files[trigger] \in Pages
      BY DEF Reviewable, Readable, IInv, Base, RowsTyped, Row
    <3>4. PICK here : here = Extract(candidate, Content[files[trigger]]) OBVIOUS
    <3>5. /\ there.failed = here.failed
          /\ here.failed = None => /\ there.price = here.price /\ there.name = here.name
                                   /\ there.currency = here.currency
      BY <3>1, <3>3, <3>4, HostIsNotRead
    <3> QED BY <3>2, <3>4, <3>5
  <2>8. /\ \E runs : FixturePasses(candidate, KnownGood("old", Successes[1]), runs)
        /\ \E runs : FixturePasses(candidate, NewFailure(trigger), runs)
        /\ \E runs : FixturePasses(candidate, KnownGood("holdout", Successes[2]), runs)
    BY <2>2, <2>3
  <2> QED BY <2>4, <2>6, <2>7, <2>8
<1> QED BY <1>1, Invariance, PTL
=============================================================================
