--------------------------- MODULE ScrapeEvidence ---------------------------
(***************************************************************************)
(* One attempt after another, from the fetched page to what is kept of it: *)
(* ScrapeWorker._process and _record_failure (services/worker.py), the     *)
(* artifact store (services/artifacts.py), the recorded result             *)
(* (services/results.py), the alert state a customer reads from it, and    *)
(* the repair bundle that the coordinator builds from it and has reviewed  *)
(* (services/repair_coordinator.py _build_bundle).                         *)
(*                                                                         *)
(* How a lease is renewed and lost is ScrapeQueue's subject; here a row    *)
(* names its owner, and any worker may take a running row over while the   *)
(* former owner goes on.  A page is named by its digest; Content says what *)
(* is on it.  All targets sell one product and belong to one competitor.   *)
(***************************************************************************)
EXTENDS RepairReview, PriceAlerts

CONSTANTS
    Results,     \* 1 .. n: scrape_results rows in the order they are queued
    Workers, TargetOf, TargetInfo,
    Pages, Content,  \* what the shop may answer: digests, and what they stand for
    Served,      \* bound: the pages the shop may answer for a row
    Baseline,    \* the SiteSpec revision that every row was queued with
    MaxFaults    \* bound: lost workers, takeovers, failed fetches, disk and database errors

Targets == {TargetOf[r] : r \in Results}
Statuses == {"none", "queued", "running", "succeeded", "invalid", "failed"}
Repairable == {"extraction", "schema", "plausibility", "identity"}

ASSUME EvidenceAssumption ==
    /\ Results = 1 .. Cardinality(Results)
    /\ Served \in [Results -> SUBSET Pages]
    /\ None \notin Pages /\ None \notin Workers
    /\ Baseline \notin ManualSpecs
    /\ Cardinality(Results) \in Nat

VARIABLES
    rows,     \* scrape_results
    files,    \* the artifact store: what the file of a row holds, or None
    proc,     \* each worker's attempt
    current,  \* competitor_products: current price and currency
    faults    \* counter for MaxFaults

evidenceVars == <<rows, files, proc, current, faults>>
vars == <<evidenceVars, changes, rules>>

NoRow == [status |-> "none", owner |-> None, digest |-> None,
          kind |-> None, codes |-> {}, product |-> None, after |-> {}]
Idle == [pc |-> "idle", row |-> None, page |-> None, digest |-> None,
         previous |-> None, after |-> {}, kind |-> None, codes |-> {}]
NoPrice == [price |-> 0, currency |-> "none"]

Init ==
    /\ AlertInit
    /\ rows = [r \in Results |-> NoRow]
    /\ files = [r \in Results |-> None]
    /\ proc = [w \in Workers |-> Idle]
    /\ current = [t \in Targets |-> NoPrice]
    /\ faults = 0

Fault == faults < MaxFaults /\ faults' = faults + 1

\* what a product is judged for
ScrapeTarget(info, hosts, previous, previousCurrency) ==
    [hosts |-> hosts, name |-> info.name, id |-> info.id, currency |-> info.currency,
     minimum |-> info.minimum, maximum |-> info.maximum, ratio |-> info.ratio,
     previous |-> previous, previousCurrency |-> previousCurrency]

\* the claimed target, with the price it had when the row was claimed
TargetAt(w) ==
    LET info == TargetInfo[TargetOf[proc[w].row]]
        p == proc[w].previous
    IN  IF p = NoPrice THEN ScrapeTarget(info, info.hosts, None, None)
        ELSE ScrapeTarget(info, info.hosts, p.price, p.currency)

\* what the scraper of the rows' revision makes of a page
Reading == [p \in Pages |-> Extract(Baseline, Content[p])]

\* a product that is read has a name, an amount and a currency
ASSUME ReadingAssumption ==
    \A p \in Pages :
      /\ {"host", "container", "text", "context"} \subseteq DOMAIN Content[p]
      /\ Reading[p].failed = None =>
           /\ Reading[p].price \in Int
           /\ None \notin {Reading[p].price, Reading[p].name, Reading[p].currency}

\* What a price is read from says, read as a whole, what a visitor is shown, or
\* it says no amount: the rules of the baseline are about the right element.
ASSUME ShownAssumption ==
    \A p \in Pages : Reading[p].failed = None =>
      ParseMoney(Reading[p].evidence) \in {None, Content[p].shown}

ASSUME SettingAssumption ==
    /\ "none" \notin KnownCurrencies /\ Thresholds \subseteq Nat \ {0}
    /\ \A t \in Targets : TargetInfo[t].ratio \in Nat

Set(w, new) == proc' = [proc EXCEPT ![w] = new]
Fails(w, kind, codes) == [proc[w] EXCEPT !.pc = "failing", !.kind = kind, !.codes = codes]

-----------------------------------------------------------------------------
(* The queue, as far as it matters here                                     *)

Enqueue(r) ==
    /\ rows[r].status = "none"
    /\ \A s \in 1 .. r - 1 : rows[s].status # "none"
    /\ \A s \in Results : TargetOf[s] = TargetOf[r] =>
         rows[s].status \notin {"queued", "running"}
    /\ rows' = [rows EXCEPT ![r].status = "queued"]
    /\ UNCHANGED <<files, proc, current, faults, changes, rules>>

\* also a running row whose lease ran out, whatever became of its owner
Claim(w, r) ==
    /\ proc[w].pc = "idle"
    /\ rows[r].status \in {"queued", "running"}
    /\ IF rows[r].status = "running" THEN Fault ELSE UNCHANGED faults
    /\ rows' = [rows EXCEPT ![r] = [@ EXCEPT !.status = "running", !.owner = w]]
    /\ Set(w, [Idle EXCEPT !.pc = "fetching", !.row = r,
                           !.previous = current[TargetOf[r]]])
    /\ UNCHANGED <<files, current, changes, rules>>

\* the worker dies, or its watchdog cancels the attempt
Abandon(w) ==
    /\ proc[w].pc # "idle"
    /\ Fault
    /\ Set(w, Idle)
    /\ UNCHANGED <<rows, files, current, changes, rules>>

-----------------------------------------------------------------------------
(* ScrapeWorker._process                                                    *)

Fetch(w) ==
    /\ proc[w].pc = "fetching"
    /\ \E page \in Served[proc[w].row] :
         LET got == [proc[w] EXCEPT !.page = page, !.after = Existing]
         IN  Set(w, IF Content[page].antiBot
                    THEN [got EXCEPT !.pc = "failing", !.kind = "anti_bot",
                                     !.codes = {"FETCH_ANTI_BOT"}]
                    ELSE [got EXCEPT !.pc = "storing"])
    /\ UNCHANGED <<rows, files, current, faults, changes, rules>>

FetchFails(w) ==
    /\ proc[w].pc = "fetching"
    /\ Set(w, [Fails(w, "transport", {"FETCH_TRANSPORT"}) EXCEPT !.pc = "reporting"])
    /\ Fault
    /\ UNCHANGED <<rows, files, current, changes, rules>>

\* Mutant of CanStore: an existing file is replaced.
CanStoreAnyway(r, page) == r \in Results /\ page \in Pages

\* store_html and _write_immutable: the file has the id of the row; the same
\* content again is no error, other content is
CanStore(r, page) == files[r] \in {None, page}
Stored(r, page) == files' = [files EXCEPT ![r] = page]

Store(w) ==
    /\ proc[w].pc = "storing"
    /\ CanStore(proc[w].row, proc[w].page)
    /\ Stored(proc[w].row, proc[w].page)
    /\ Set(w, [proc[w] EXCEPT !.pc = "judging", !.digest = proc[w].page])
    /\ UNCHANGED <<rows, current, faults, changes, rules>>

\* the file holds another page, or the disk refuses
StoreFails(w) ==
    /\ proc[w].pc = "storing"
    /\ Set(w, Fails(w, "internal", {"WORKER_INTERNAL_ERROR"}))
    /\ IF CanStore(proc[w].row, proc[w].page) THEN Fault ELSE UNCHANGED faults
    /\ UNCHANGED <<rows, files, current, changes, rules>>

\* Mutant of Owns: a worker that was late ends the row as well.
OwnsAnyway(w) == rows[proc[w].row].status \in Statuses

\* _lock_result_and_target lets the transaction pass
Owns(w) == rows[proc[w].row].owner = w

\* Mutant of Finished: the lease is not released.
FinishedLeased(r, w, status, kind, codes, product) ==
    rows' = [rows EXCEPT ![r] =
               [@ EXCEPT !.status = status, !.digest = proc[w].digest, !.kind = kind,
                         !.codes = codes, !.product = product, !.after = proc[w].after]]

\* the row a transaction leaves
Finished(r, w, status, kind, codes, product) ==
    rows' = [rows EXCEPT ![r] =
               [@ EXCEPT !.status = status, !.owner = None, !.digest = proc[w].digest,
                         !.kind = kind, !.codes = codes, !.product = product,
                         !.after = proc[w].after]]

RecordSuccess(w, r, product) ==
    LET t == TargetOf[r]
    IN  /\ Finished(r, w, "succeeded", None, {}, product)
        /\ changes' = Append(changes, ChangeOf(r, product.price, product.currency,
                                               current[t], proc[w].after))
        /\ current' = [current EXCEPT ![t] =
                         [price |-> product.price, currency |-> product.currency]]

RecordInvalid(w, r, product) ==
    /\ Finished(r, w, "invalid", PrimaryFailureKind(product, TargetAt(w)),
                IssueCodes(product, TargetAt(w)), product)
    /\ UNCHANGED <<changes, current>>

ExtractionCode ==
    [product_container |-> "EXTRACTION_PRODUCT_CONTAINER", name |-> "EXTRACTION_NAME",
     price |-> "EXTRACTION_PRICE", currency |-> "EXTRACTION_CURRENCY"]

\* extract, validate and the finalising transaction
Judge(w) ==
    /\ proc[w].pc = "judging"
    /\ LET r == proc[w].row
           product == Reading[proc[w].page]
       IN  IF product.failed # None
           THEN /\ Set(w, [Fails(w, "extraction", {ExtractionCode[product.failed]})
                             EXCEPT !.pc = "reporting"])
                /\ UNCHANGED <<rows, changes, current>>
           ELSE /\ Set(w, Idle)
                /\ IF ~ Owns(w) THEN UNCHANGED <<rows, changes, current>>
                   ELSE IF Accepts(product, TargetAt(w))
                   THEN RecordSuccess(w, r, product)
                   ELSE RecordInvalid(w, r, product)
    /\ UNCHANGED <<files, faults, rules>>

\* the finalising transaction is rolled back
JudgeFails(w) ==
    /\ proc[w].pc = "judging" /\ Reading[proc[w].page].failed = None
    /\ Fault
    /\ Set(w, [Fails(w, "internal", {"WORKER_INTERNAL_ERROR"}) EXCEPT !.pc = "reporting"])
    /\ UNCHANGED <<rows, files, current, changes, rules>>

-----------------------------------------------------------------------------
(* ScrapeWorker._record_failure                                             *)

\* Mutant of Retain: when the store refuses, the file that is there is taken
\* for the page of this attempt.
RetainExisting(w) ==
    /\ proc[w].pc = "failing"
    /\ IF CanStore(proc[w].row, proc[w].page)
       THEN /\ Stored(proc[w].row, proc[w].page)
            /\ Set(w, [proc[w] EXCEPT !.pc = "reporting", !.digest = proc[w].page])
       ELSE /\ Set(w, [proc[w] EXCEPT !.pc = "reporting", !.digest = files[proc[w].row]])
            /\ UNCHANGED files
    /\ UNCHANGED <<rows, current, faults, changes, rules>>

\* a page that is not stored yet is offered to the store once more
Retain(w) ==
    /\ proc[w].pc = "failing"
    /\ \/ /\ CanStore(proc[w].row, proc[w].page)
          /\ Stored(proc[w].row, proc[w].page)
          /\ Set(w, [proc[w] EXCEPT !.pc = "reporting", !.digest = proc[w].page])
          /\ UNCHANGED faults
       \/ /\ Set(w, [proc[w] EXCEPT !.pc = "reporting"])
          /\ IF CanStore(proc[w].row, proc[w].page) THEN Fault ELSE UNCHANGED faults
          /\ UNCHANGED files
    /\ UNCHANGED <<rows, current, changes, rules>>

RecordFailure(w) ==
    /\ proc[w].pc = "reporting"
    /\ IF Owns(w)
       THEN Finished(proc[w].row, w, "failed", proc[w].kind, proc[w].codes, None)
       ELSE UNCHANGED rows
    /\ Set(w, Idle)
    /\ UNCHANGED <<files, current, faults, changes, rules>>

-----------------------------------------------------------------------------
(* RepairCoordinator._build_bundle and the review of a proposal             *)

Readable(r) == rows[r].digest # None /\ files[r] = rows[r].digest

\* the accepted rows, the latest first
Successes == [i \in 1 .. Len(changes) |-> changes[Len(changes) + 1 - i].row]

\* the stored page as the reviewer sees it: under the address of the product
PageOf(r) == [Content[files[r]] EXCEPT !.host = TargetInfo[TargetOf[r]].host]

FixtureTarget(r) ==
    LET info == TargetInfo[TargetOf[r]]
    IN  ScrapeTarget(info, {info.baseHost}, None, None)

KnownGood(cohort, r) ==
    [cohort |-> cohort, page |-> PageOf(r), target |-> FixtureTarget(r),
     name |-> rows[r].product.name, price |-> rows[r].product.price,
     currency |-> rows[r].product.currency,
     availability |-> rows[r].product.availability]

NewFailure(r) ==
    [cohort |-> "new", page |-> PageOf(r), target |-> FixtureTarget(r),
     name |-> TargetInfo[TargetOf[r]].name, price |-> None,
     currency |-> TargetInfo[TargetOf[r]].currency, availability |-> None]

Reviewable(trigger) ==
    /\ rows[trigger].status \in {"invalid", "failed"}
    /\ rows[trigger].kind \in Repairable
    /\ Readable(trigger)
    /\ Len(changes) >= 2 /\ Readable(Successes[1]) /\ Readable(Successes[2])

Fixtures(trigger) == <<KnownGood("old", Successes[1]), NewFailure(trigger),
                       KnownGood("holdout", Successes[2])>>

\* what the review of a repair of this row may approve, as things stand; it
\* writes nothing here (what follows an approval is in RepairCoordinator)
Approvable(trigger) ==
    LET failed == FailedFieldsOf(rows[trigger].codes)
    IN  {c \in Proposals(Baseline, Content[files[trigger]], failed) :
           ReviewAccepts(Baseline, c, Fixtures(trigger), failed, [i \in 1 .. 3 |-> TRUE])}

-----------------------------------------------------------------------------
Alert(q) == (CreateRule(q) \/ UpdateRule(q) \/ DeleteRule(q)) /\ UNCHANGED evidenceVars

Next ==
    \/ \E r \in Results : Enqueue(r)
    \/ \E w \in Workers, r \in Results : Claim(w, r)
    \/ \E w \in Workers :
         \/ Abandon(w) \/ Fetch(w) \/ FetchFails(w) \/ Store(w) \/ StoreFails(w)
         \/ Judge(w) \/ JudgeFails(w) \/ Retain(w) \/ RecordFailure(w)
    \/ \E q \in Rules : Alert(q)

Spec == Init /\ [][Next]_vars

-----------------------------------------------------------------------------
(* Properties                                                               *)

\* Every variable keeps its shape; a worker has a page and its evidence when
\* its step needs them, and a finished row has no owner.
TypeOK ==
    /\ \A r \in Results :
         /\ rows[r].status \in Statuses
         /\ rows[r].owner \in Workers \union {None}
         /\ rows[r].owner # None <=> rows[r].status = "running"
         /\ rows[r].digest \in Pages \union {None}
         /\ files[r] \in Pages \union {None}
    /\ \A w \in Workers :
         /\ proc[w].pc \in {"idle", "fetching", "storing", "judging", "failing", "reporting"}
         /\ proc[w].pc # "idle" => proc[w].row \in Results
         /\ proc[w].pc \in {"storing", "judging", "failing"} => proc[w].page \in Pages
         /\ proc[w].digest \in {None, proc[w].page}
    /\ \A q \in Rules : rules[q] \in RuleType \union {Absent, Deleted}

\* The snapshot a finished row points to is the one in the store, and it is
\* the page the row was decided on: the recorded product is what the row's
\* scraper revision reads from it, however many attempts of the row have
\* written or tried to write that file.
EvidenceMatches ==
    \A r \in Results :
      /\ rows[r].digest # None => files[r] = rows[r].digest
      /\ rows[r].product # None =>
           /\ rows[r].digest # None
           /\ rows[r].product = Reading[rows[r].digest]

\* A failed row points to no page, or to one that fails the way the row says:
\* the fields that its code names are those that a repair may change, and the
\* page it points to is the one that the repair is made for, so both must come
\* from one attempt even if another attempt of the row wrote the file.
FailureExplained ==
    \A r \in Results : rows[r].status = "failed" =>
      /\ rows[r].kind = "extraction" =>
           /\ rows[r].digest # None
           /\ Reading[files[r]].failed # None
           /\ rows[r].codes = {ExtractionCode[Reading[files[r]].failed]}
      /\ rows[r].kind = "anti_bot" /\ rows[r].digest # None => Content[files[r]].antiBot

\* No number is recorded as a price that is not the amount the stored page
\* shows: a pattern that takes a part of it is stopped by the evidence check.
PriceIsShown ==
    \A r \in Results :
      rows[r].status = "succeeded" => rows[r].product.price = Content[files[r]].shown

\* An approved candidate reads, from the stored pages of the two latest
\* accepted rows, what was recorded for them, and from the failing page a
\* product of the target's name and currency.
ApprovedReads ==
    \A trigger \in Results : Reviewable(trigger) =>
      \A candidate \in Approvable(trigger) :
        LET read(r) == Extract(candidate, Content[files[r]])
            t == TargetInfo[TargetOf[trigger]]
        IN  /\ \A r \in {Successes[1], Successes[2]} :
                 /\ read(r).failed = None
                 /\ read(r).price = rows[r].product.price
                 /\ read(r).name = rows[r].product.name
                 /\ read(r).currency = rows[r].product.currency
            /\ read(trigger).failed = None
            /\ t.currency \in {None, read(trigger).currency}
            /\ t.name \in {None, read(trigger).name}

\* A rule shows `triggered' exactly when the product's accepted prices have
\* moved by its threshold, from one accepted row to the next, on a page
\* fetched after the rule was created; failed and refused checks do nothing.
Accepted(t) == {r \in Results : rows[r].status = "succeeded" /\ TargetOf[r] = t}
MovedEnough(q, r) ==
    LET before == {s \in Accepted(TargetOf[r]) : s < r}
        old == rows[Max(before)].product.price
        new == rows[r].product.price
        move == CASE rules[q].direction = "increase" -> new - old
                  [] rules[q].direction = "decrease" -> old - new
                  [] OTHER -> Distance(new, old)
    IN  /\ before # {} /\ q \in rows[r].after
        /\ 100 * move >= rules[q].threshold * old
AlertsFollowPrices ==
    \A q \in Existing : rules[q].active =>
      (Evaluate(q) = "triggered"
         <=> \E t \in Targets : \E r \in Accepted(t) : MovedEnough(q, r))

\* Whatever attempts, overlaps and failures it goes through, a target is a
\* PriceLog of positive amounts, each on a page and within the ratio of the one
\* it replaces: the validator compares with the price that the worker read at
\* its claim, and that is still the target's price at the commit.
Entries(t) == {k \in 1 .. Len(changes) : TargetOf[changes[k].row] = t}
Ranked(S, i) == {k \in S : Cardinality({j \in S : j <= k}) = i}
Nth(S, i) == CHOOSE k \in Ranked(S, i) : TRUE
PriceIn(k) == rows[changes[k].row].product.price
AcceptedPrices ==
    [t \in Targets |-> [i \in 1 .. Cardinality(Entries(t)) |-> PriceIn(Nth(Entries(t), i))]]
ShownPrices == {Content[p].shown : p \in Pages}
WithinRatio ==
    [t \in Targets |->
       {pair \in (ShownPrices \union {0}) \X ShownPrices :
          /\ pair[2] > 0
          /\ pair[1] # 0 =>
               100 * Distance(pair[2], pair[1]) <= TargetInfo[t].ratio * pair[1]}]

Unfinished == {r \in Results : rows[r].status \in {"queued", "running"}}

Log == INSTANCE PriceLog WITH
         Prices <- ShownPrices, Plausible <- WithinRatio, NoPrice <- 0, log <- AcceptedPrices,
         pending <- {TargetOf[r] : r \in Unfinished}

ImplementsPriceLog == Log!LogSpec
=============================================================================
