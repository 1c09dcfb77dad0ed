--------------------------- MODULE UserDataProofs ---------------------------
(***************************************************************************)
(* Proofs about UserData, for any documents, results, users, requests and  *)
(* number of seed runs: the constraints on votes and bookmarks, and that   *)
(* they implement UpsertStore.                                             *)
(***************************************************************************)
EXTENDS UserData, TLAPS

-----------------------------------------------------------------------------
(* Types.                                                                  *)

\* The fields of a request's record.
LEMMA RequestFields ==
    ASSUME TypeOK, NEW r \in Reqs
    PROVE  /\ req[r].target \in Targets(r) /\ req[r].user \in Callers(r)
           /\ req[r].vote \in Verdicts(r) /\ req[r].row \in Reqs \cup {None}
           /\ req[r].tx \in BOOLEAN /\ req[r].first \in BOOLEAN
           /\ req[r].loaded \in BOOLEAN \cup {None}
           /\ req[r].pc \in {"idle", "ok"} \cup Working \cup Errors
BY DEF TypeOK, RequestOf

LEMMA RowFields ==
    ASSUME TypeOK, NEW r \in Reqs, rows[r] # None
    PROVE  /\ rows[r].target \in Targets(r) /\ rows[r].user \in Callers(r)
           /\ rows[r].vote \in Verdicts(r)
BY DEF TypeOK, Row

\* Votes are on results, bookmarks on documents, and a row is of one kind.
LEMMA RowsOfOneKind ==
    ASSUME TypeOK, NEW u, NEW t, NEW q \in RowsOf(u, t)
    PROVE  /\ q \in Reqs /\ rows[q] # None /\ rows[q].user = u /\ rows[q].target = t
           /\ u # Anonymous
           /\ t \in Results => q \in Voters
           /\ t \in Docs => q \in Markers
<1>1. q \in Reqs /\ rows[q] # None /\ rows[q].user = u /\ rows[q].target = t /\ u # Anonymous
  BY DEF RowsOf
<1>2. t \in Targets(q)
  BY <1>1, RowFields
<1>3. QED
  BY <1>1, <1>2, KindsDiffer DEF Targets, Reqs

\* A step of one request that keeps its record and its row well typed.
LEMMA OneRequestTyped ==
    ASSUME TypeOK, NEW r \in Reqs, NEW new \in RequestOf(r),
           new.pc \in {"refresh", "return"} => new.row # None,
           new.pc = "ok" => new.answer # None,
           req' = [req EXCEPT ![r] = new],
           NEW q \in Reqs, DOMAIN rows' = Reqs, rows'[q] \in Row(q) \cup {None},
           \A p \in Reqs : p # q => rows'[p] = rows[p],
           UNCHANGED <<documents, search_results, issued, seed>>
    PROVE  TypeOK'
BY DEF TypeOK

\* The same, when no row changes.
LEMMA OneRequestAlone ==
    ASSUME TypeOK, NEW r \in Reqs, NEW new \in RequestOf(r),
           new.pc \in {"refresh", "return"} => new.row # None,
           new.pc = "ok" => new.answer # None,
           req' = [req EXCEPT ![r] = new],
           UNCHANGED <<documents, search_results, issued, rows, seed>>
    PROVE  TypeOK'
BY DEF TypeOK

-----------------------------------------------------------------------------
(* What a step of one request leaves true of the others.                   *)

\* Rows and targets that were there still are.
Growing ==
    /\ documents \subseteq documents' /\ search_results \subseteq search_results'
    /\ \A p \in Reqs : rows[p] # None =>
          rows'[p] # None /\ rows'[p].target = rows[p].target /\ rows'[p].user = rows[p].user
    /\ \A p \in Reqs : req[p].pc \in Inserted =>
          /\ req'[p].pc \in Inserted
          /\ req'[p].target = req[p].target /\ req'[p].user = req[p].user

LEMMA OthersStayTrue ==
    ASSUME Inv, Growing, NEW q \in Reqs, req'[q] = req[q],
           rows'[q] # None => rows[q] # None
    PROVE  RequestInv(q)'
<1>1. RequestInv(q) /\ TypeOK
  BY DEF Inv
<1>2. HoldsTx(q)'
  BY <1>1 DEF RequestInv, HoldsTx
<1>3. TargetIsThere(q)'
  BY <1>1 DEF RequestInv, TargetIsThere, Existing, Growing
<1>4. FirstIsTrue(q)'
  <2>1. RowsOf(req[q].user, req[q].target) \subseteq RowsOf(req[q].user, req[q].target)'
    BY DEF Growing, RowsOf
  <2>2. QED
    BY <1>1, <2>1 DEF RequestInv, FirstIsTrue
<1>5. req[q].row \in Reqs \cup {None}
  BY <1>1, RequestFields
<1>6. FoundTrue(q)'
  BY <1>1, <1>5 DEF RequestInv, FoundTrue, Growing
<1>7. SameRow(q)'
  BY <1>1, <1>5 DEF RequestInv, SameRow, Growing
<1>8. HasItsRow(q)'
  BY <1>1 DEF RequestInv, HasItsRow, Growing
<1>9. QED
  BY <1>1, <1>2, <1>3, <1>4, <1>6, <1>7, <1>8 DEF RequestInv

\* A step of r that writes no row: the others stay true, and the rows of a user too.
LEMMA ReadingStep ==
    ASSUME Inv, NEW r \in Reqs, NEW new \in RequestOf(r),
           new.pc \in {"refresh", "return"} => new.row # None,
           new.pc = "ok" => new.answer # None,
           req[r].pc \in Inserted =>
              new.pc \in Inserted /\ new.target = req[r].target /\ new.user = req[r].user,
           req' = [req EXCEPT ![r] = new],
           UNCHANGED <<documents, search_results, issued, rows, seed>>,
           RequestInv(r)'
    PROVE  Inv'
<1>1. TypeOK'
  BY OneRequestAlone DEF Inv
<1>2. DOMAIN req = Reqs
  BY DEF Inv, TypeOK
<1>3. Growing
  BY <1>2 DEF Growing
<1>4. \A q \in Reqs \ {r} : RequestInv(q)'
  BY <1>2, <1>3, OthersStayTrue
<1>5. OneRowPerUser'
  BY DEF Inv, OneRowPerUser, RowsOf
<1>6. QED
  BY <1>1, <1>4, <1>5 DEF Inv

-----------------------------------------------------------------------------
(* The steps of the rest of the system.                                    *)

LEMMA InitInv == Init => Inv
<1> SUFFICES ASSUME Init PROVE Inv
  OBVIOUS
<1>1. \A r \in Reqs : (CHOOSE t \in Targets(r) : TRUE) \in Targets(r)
  BY SomeOfEach DEF Targets
<1>2. (CHOOSE u \in Users : TRUE) \in Users
  BY SomeOfEach
<1>3. TypeOK
  <2>1. \A r \in Reqs : req[r] \in RequestOf(r) /\ req[r].pc = "idle"
    BY <1>1, <1>2 DEF Init, RequestOf, Callers, Verdicts
  <2>2. QED
    BY <2>1 DEF Init, TypeOK
<1>4. OneRowPerUser
  BY DEF Init, OneRowPerUser, RowsOf
<1>5. ASSUME NEW r \in Reqs PROVE RequestInv(r)
  <2>1. /\ req[r].pc = "idle" /\ req[r].row = None /\ req[r].loaded = None
        /\ req[r].tx = FALSE /\ req[r].first = FALSE /\ rows[r] = None
    BY DEF Init
  <2>2. HoldsTx(r) /\ TargetIsThere(r) /\ FirstIsTrue(r)
    <3>1. (req[r].pc \in {"select", "write", "return"}) = FALSE
      BY <2>1
    <3>2. HoldsTx(r)
      BY <2>1, <3>1, Zenon DEF HoldsTx
    <3>3. TargetIsThere(r)
      BY <2>1 DEF TargetIsThere
    <3>4. FirstIsTrue(r)
      BY <2>1 DEF FirstIsTrue
    <3>5. QED
      BY <3>2, <3>3, <3>4
  <2>3. FoundTrue(r)
    BY <2>1 DEF FoundTrue
  <2>4. SameRow(r) /\ HasItsRow(r)
    BY <2>1 DEF SameRow, HasItsRow
  <2>5. QED
    BY <2>1, <2>2, <2>3, <2>4 DEF RequestInv
<1>6. QED
  BY <1>3, <1>4, <1>5 DEF Inv

\* A search or a batch of documents only adds targets.
LEMMA AddingInv == Inv /\ (LogSearch \/ SeedLoad) => Inv'
<1> SUFFICES ASSUME Inv, LogSearch \/ SeedLoad PROVE Inv'
  OBVIOUS
<1>1. UNCHANGED <<rows, req>> /\ Growing
  BY DEF LogSearch, SeedLoad, Growing
<1>2. TypeOK'
  <2>1. CASE LogSearch
    BY <2>1 DEF Inv, TypeOK, LogSearch
  <2>2. CASE SeedLoad
    BY <2>2 DEF Inv, TypeOK, SeedLoad
  <2>3. QED
    BY <2>1, <2>2
<1>3. OneRowPerUser'
  BY <1>1 DEF Inv, OneRowPerUser, RowsOf
<1>4. \A q \in Reqs : RequestInv(q)'
  BY <1>1, OthersStayTrue
<1>5. QED
  BY <1>2, <1>3, <1>4 DEF Inv

\* TRUNCATE waits for every request that still relies on what it found.
LEMMA TruncateInv == Inv /\ SeedTruncate => Inv'
<1> SUFFICES ASSUME Inv, SeedTruncate PROVE Inv'
  OBVIOUS
<1>1. TypeOK'
  BY DEF Inv, TypeOK, SeedTruncate
<1>2. OneRowPerUser'
  BY DEF SeedTruncate, OneRowPerUser, RowsOf
<1>3. ASSUME NEW q \in Reqs PROVE RequestInv(q)'
  <2>1. RequestInv(q) /\ req[q].pc \notin {"select", "write", "return"}
    BY DEF Inv, RequestInv, HoldsTx, SeedTruncate, TablesInUse
  <2>2. req' = req /\ rows'[q] = None
    BY DEF SeedTruncate
  <2>3. QED
    BY <2>1, <2>2 DEF RequestInv, HoldsTx, TargetIsThere, FirstIsTrue, FoundTrue, SameRow, HasItsRow
<1>4. QED
  BY <1>1, <1>2, <1>3 DEF Inv

-----------------------------------------------------------------------------
(* The steps of a request.                                                 *)

LEMMA GetTargetInv ==
    ASSUME Inv, NEW r \in Reqs, GetTarget(r)
    PROVE  Inv'
<1>1. TypeOK /\ RequestInv(r) /\ req[r].pc = "idle"
  BY DEF Inv, GetTarget
<1>2. PICK t \in Targets(r), u \in Callers(r), v \in Verdicts(r) :
        req' = [req EXCEPT ![r] =
            [req[r] EXCEPT !.pc = IF t \notin Existing(r) THEN "404"
                             ELSE IF u = Anonymous THEN "write" ELSE "select",
                      !.target = t, !.user = u, !.vote = v,
                      !.tx = TxAfterSelect /\ t \in Existing(r),
                      !.first = t \in Existing(r) /\ RowsOf(u, t) = {}]]
  BY DEF GetTarget
<1> DEFINE there == t \in Existing(r)
           new == [req[r] EXCEPT !.pc = IF ~there THEN "404"
                             ELSE IF u = Anonymous THEN "write" ELSE "select",
                      !.target = t, !.user = u, !.vote = v, !.tx = TxAfterSelect /\ there,
                      !.first = there /\ RowsOf(u, t) = {}]
<1>3. new \in RequestOf(r)
  <2>1. req[r] \in RequestOf(r)
    BY <1>1 DEF TypeOK
  <2>2. (TxAfterSelect /\ there) \in BOOLEAN /\ (there /\ RowsOf(u, t) = {}) \in BOOLEAN
    OBVIOUS
  <2>3. (IF ~there THEN "404" ELSE IF u = Anonymous THEN "write" ELSE "select")
            \in {"404", "write", "select"}
    OBVIOUS
  <2>4. ASSUME NEW pc \in {"404", "write", "select"}, NEW tx \in BOOLEAN, NEW first \in BOOLEAN
        PROVE  [req[r] EXCEPT !.pc = pc, !.target = t, !.user = u, !.vote = v, !.tx = tx,
                              !.first = first] \in RequestOf(r)
    BY <2>1 DEF RequestOf, Errors, Working
  <2>5. QED
    BY <2>2, <2>3, <2>4, Zenon
<1>4. UNCHANGED <<documents, search_results, issued, rows, seed>> /\ req' = [req EXCEPT ![r] = new]
  BY <1>2 DEF GetTarget
<1>5. req'[r] = new /\ req[r].row = None /\ req[r].loaded = None /\ rows[r] = None
  BY <1>1, <1>4 DEF TypeOK, RequestInv, FoundTrue, HasItsRow
<1>6. /\ req'[r].row = None /\ req'[r].loaded = None /\ req'[r].target = t /\ req'[r].user = u
      /\ req'[r].pc \in {"404", "write", "select"}
      /\ req'[r].pc = "404" <=> ~there
      /\ req'[r].pc = "select" => u # Anonymous
      /\ req'[r].pc = "write" => u = Anonymous
      /\ req'[r].first = (there /\ RowsOf(u, t) = {})
      /\ req'[r].tx = there
  BY <1>3, <1>5 DEF TypeOK, RequestOf, TxAfterSelect
<1>7. RequestInv(r)'
  <2>1. HoldsTx(r)' /\ TargetIsThere(r)'
    BY <1>4, <1>6 DEF HoldsTx, TargetIsThere, Existing
  <2>2. FirstIsTrue(r)'
    <3>1. u = Anonymous => RowsOf(u, t) = {}
      BY DEF RowsOf
    <3>2. RowsOf(u, t) = RowsOf(u, t)'
      BY <1>4 DEF RowsOf
    <3>3. QED
      BY <1>6, <3>1, <3>2 DEF FirstIsTrue, RowsOf
  <2>3. FoundTrue(r)' /\ SameRow(r)' /\ HasItsRow(r)'
    BY <1>4, <1>5, <1>6 DEF FoundTrue, SameRow, HasItsRow
  <2>4. QED
    BY <1>6, <2>1, <2>2, <2>3 DEF RequestInv
<1>8. new.pc \notin {"refresh", "return", "ok"}
  BY <1>5, <1>6
<1>9. QED
  BY <1>1, <1>3, <1>4, <1>7, <1>8, ReadingStep DEF Inserted

LEMMA SelectInv ==
    ASSUME Inv, NEW r \in Reqs, Select(r)
    PROVE  Inv'
<1>1. TypeOK /\ RequestInv(r) /\ req[r].pc = "select" /\ DOMAIN req = Reqs
  BY DEF Inv, Select, TypeOK
<1>2. UNCHANGED <<documents, search_results, issued, rows, seed>>
  BY DEF Select
<1>3. req[r].row = None /\ req[r].loaded = None /\ rows[r] = None /\ req[r].target \in Existing(r)
  BY <1>1 DEF RequestInv, FoundTrue, HasItsRow, TargetIsThere
<1>4. req[r] \in RequestOf(r)
  BY <1>1 DEF TypeOK
<1>5. CASE OwnRow(r) = {} /\ req' = [req EXCEPT ![r].pc = "write"]
  <2> DEFINE new == [req[r] EXCEPT !.pc = "write"]
  <2>1. new \in RequestOf(r) /\ req' = [req EXCEPT ![r] = new]
    BY <1>4, <1>5 DEF RequestOf, Working
  <2>2. /\ req'[r].pc = "write" /\ req'[r].row = None /\ req'[r].loaded = None
        /\ req'[r].target = req[r].target /\ req'[r].first = req[r].first /\ req'[r].tx = req[r].tx
    BY <1>1, <1>3, <1>4, <2>1 DEF RequestOf
  <2>3. req[r].first
    BY <1>1, <1>5 DEF RequestInv, FirstIsTrue, OwnRow
  <2>4. RequestInv(r)'
    BY <1>1, <1>2, <1>3, <2>2, <2>3
       DEF RequestInv, HoldsTx, TargetIsThere, FirstIsTrue, FoundTrue, SameRow, HasItsRow, Existing
  <2>5. new.pc = "write"
    BY <1>4 DEF RequestOf
  <2>6. QED
    BY <1>1, <1>2, <2>1, <2>4, <2>5, ReadingStep DEF Inserted
<1>6. CASE \E q \in OwnRow(r) :
             req' = [req EXCEPT ![r].pc = IF r \in Voters THEN "write" ELSE "return",
                                ![r].row = q, ![r].loaded = rows[q].vote]
  <2>1. PICK q \in OwnRow(r) :
             req' = [req EXCEPT ![r].pc = IF r \in Voters THEN "write" ELSE "return",
                                ![r].row = q, ![r].loaded = rows[q].vote]
    BY <1>6
  <2>2. /\ q \in Reqs /\ rows[q] # None /\ req[r].user # Anonymous
        /\ rows[q].user = req[r].user /\ rows[q].target = req[r].target
        /\ req[r].target \in Results => q \in Voters
        /\ req[r].target \in Docs => q \in Markers
    BY <1>1, <2>1, RowsOfOneKind DEF OwnRow
  <2>3. (r \in Voters => q \in Voters) /\ (r \notin Voters => r \in Markers /\ q \notin Voters)
    BY <1>1, <2>2, RequestFields, KindsDiffer DEF Targets, Reqs
  <2>4. rows[q].vote \in BOOLEAN /\ (r \notin Voters => rows[q].vote = TRUE)
    BY <1>1, <2>2, <2>3, RowFields DEF Verdicts
  <2> DEFINE new == [req[r] EXCEPT !.pc = IF r \in Voters THEN "write" ELSE "return",
                                   !.row = q, !.loaded = rows[q].vote]
  <2>5. new \in RequestOf(r) /\ req' = [req EXCEPT ![r] = new]
    BY <1>4, <2>1, <2>2, <2>4 DEF RequestOf, Working
  <2>6. /\ req'[r].pc = IF r \in Voters THEN "write" ELSE "return"
        /\ req'[r].row = q /\ req'[r].loaded = rows[q].vote /\ req'[r].user = req[r].user
        /\ req'[r].target = req[r].target /\ req'[r].first = req[r].first /\ req'[r].tx = req[r].tx
    BY <1>1, <1>4, <2>5 DEF RequestOf
  <2>7. q # None /\ q # r
    BY <1>3, <2>2, NoneIsNothing
  <2>8. /\ req'[q] = req[q] /\ req[q].pc \in Inserted
        /\ req[q].target = rows[q].target /\ req[q].user = rows[q].user
    BY <1>1, <2>2, <2>5, <2>7 DEF Inv, RequestInv, HasItsRow, Inserted
  <2>9. RequestInv(r)'
    <3>1. HoldsTx(r)' /\ TargetIsThere(r)' /\ FirstIsTrue(r)'
      BY <1>1, <1>2, <1>3, <2>6, <2>7
         DEF RequestInv, HoldsTx, TargetIsThere, FirstIsTrue, Existing
    <3>2. FoundTrue(r)'
      BY <1>2, <2>2, <2>3, <2>4, <2>6, <2>7 DEF FoundTrue
    <3>3. SameRow(r)' /\ HasItsRow(r)'
      BY <1>2, <1>3, <2>2, <2>6, <2>8 DEF SameRow, HasItsRow
    <3>4. QED
      BY <2>6, <3>1, <3>2, <3>3 DEF RequestInv
  <2>10. new.pc \in {"write", "return"} /\ new.row # None
    BY <1>4, <2>7 DEF RequestOf
  <2>11. QED
    BY <1>1, <1>2, <2>5, <2>9, <2>10, ReadingStep DEF Inserted
<1>7. QED
  BY <1>5, <1>6 DEF Select

LEMMA ReturnInv ==
    ASSUME Inv, NEW r \in Reqs, Return(r)
    PROVE  Inv'
<1>1. TypeOK /\ RequestInv(r) /\ req[r].pc = "return" /\ DOMAIN req = Reqs
  BY DEF Inv, Return, TypeOK
<1> DEFINE new == [req[r] EXCEPT !.pc = "ok", !.tx = FALSE, !.answer = req[r].loaded]
<1>2. UNCHANGED <<documents, search_results, issued, rows, seed>> /\ req' = [req EXCEPT ![r] = new]
  BY DEF Return
<1>3. req[r].loaded = TRUE /\ req[r].row # None /\ req[r] \in RequestOf(r)
  BY <1>1 DEF TypeOK, RequestInv, FoundTrue
<1>4. new \in RequestOf(r) /\ new.pc = "ok" /\ new.answer # None
  BY <1>3, NoneIsNothing DEF RequestOf
<1>5. /\ req'[r].pc = "ok" /\ req'[r].tx = FALSE /\ req'[r].row = req[r].row
      /\ req'[r].target = req[r].target /\ req'[r].user = req[r].user
  BY <1>1, <1>2, <1>3 DEF RequestOf
<1>6. rows[r] = None
  BY <1>1 DEF RequestInv, HasItsRow
<1>7. req[r].row # r /\ req'[req[r].row] = req[req[r].row]
  BY <1>1, <1>2, <1>3, <1>6, RequestFields DEF RequestInv, SameRow, Inserted
<1>8. RequestInv(r)'
  <2>1. HoldsTx(r)'
    <3>1. (req'[r].pc \in {"select", "write", "return"}) = FALSE
      BY <1>5
    <3>2. QED
      BY <1>5, <3>1, Zenon DEF HoldsTx
  <2>2. TargetIsThere(r)' /\ FirstIsTrue(r)'
    BY <1>5 DEF TargetIsThere, FirstIsTrue
  <2>3. FoundTrue(r)'
    BY <1>3, <1>5 DEF FoundTrue, Inserted
  <2>4. SameRow(r)' /\ HasItsRow(r)'
    BY <1>1, <1>2, <1>3, <1>5, <1>6, <1>7 DEF RequestInv, SameRow, HasItsRow
  <2>5. QED
    BY <1>5, <2>1, <2>2, <2>3, <2>4 DEF RequestInv
<1>9. QED
  BY <1>1, <1>2, <1>4, <1>8, ReadingStep DEF Inserted

\* A request that fails is over, and what it found is forgotten.
LEMMA FailingStep ==
    ASSUME Inv, NEW r \in Reqs, NEW error \in Errors, Fail(r, error),
           UNCHANGED <<documents, search_results, issued, rows, seed>>,
           error # "ForeignKeyViolation",
           rows[r] = None,
           error = "UniqueViolation" => req[r].first,
           IF error = "InvalidRequestError" THEN req[r].pc = "refresh"
           ELSE req[r].pc = "write" /\ req[r].row = None
    PROVE  Inv'
<1>1. TypeOK /\ RequestInv(r) /\ DOMAIN req = Reqs /\ req[r] \in RequestOf(r)
  BY DEF Inv, TypeOK
<1> DEFINE new == [req[r] EXCEPT !.pc = error, !.tx = FALSE]
<1>2. req' = [req EXCEPT ![r] = new] /\ req'[r] = new
  BY <1>1 DEF Fail
<1>3. new \in RequestOf(r)
  BY <1>1 DEF RequestOf
<1>4. /\ req'[r].pc = error /\ req'[r].tx = FALSE /\ req'[r].row = req[r].row
      /\ req'[r].target = req[r].target /\ req'[r].user = req[r].user
      /\ req'[r].first = req[r].first /\ req'[r].loaded = req[r].loaded
  BY <1>1, <1>2 DEF RequestOf
<1>5. error \notin {"select", "write", "return", "idle", "refresh", "ok"}
  BY DEF Errors
<1>6. HoldsTx(r)'
  <2>1. (req'[r].pc \in {"select", "write", "return"}) = FALSE
    BY <1>4, <1>5
  <2>2. QED
    BY <1>4, <2>1, Zenon DEF HoldsTx
<1>7. TargetIsThere(r)' /\ FirstIsTrue(r)' /\ HasItsRow(r)'
  BY <1>4, <1>5 DEF TargetIsThere, FirstIsTrue, HasItsRow
<1>8. FoundTrue(r)'
  BY <1>1, <1>4, <1>5 DEF FoundTrue, RequestInv, Inserted
<1>9. SameRow(r)'
  <2>1. SUFFICES ASSUME req[r].row # None PROVE SameRow(r)'
    BY <1>4 DEF SameRow
  <2>2. error = "InvalidRequestError" /\ req[r].row \in Reqs
    BY <1>1, <2>1, RequestFields
  <2>3. \A q \in Reqs : q # r => req'[q] = req[q]
    BY <1>1, <1>2
  <2>4. QED
    BY <1>1, <1>4, <2>1, <2>2, <2>3 DEF SameRow, RequestInv, Inserted
<1>10. RequestInv(r)'
  BY <1>4, <1>6, <1>7, <1>8, <1>9 DEF RequestInv
<1>11. new.pc = error
  BY <1>2, <1>4
<1>12. req[r].pc \in Inserted => new.pc \in Inserted /\ new.target = req[r].target /\ new.user = req[r].user
  BY <1>1, <1>11 DEF Inserted, RequestOf
<1>13. QED
  BY <1>1, <1>2, <1>3, <1>5, <1>10, <1>11, <1>12, ReadingStep

LEMMA RefreshInv ==
    ASSUME Inv, NEW r \in Reqs, Refresh(r)
    PROVE  Inv'
<1>1. /\ TypeOK /\ RequestInv(r) /\ req[r].pc = "refresh" /\ DOMAIN req = Reqs
      /\ req[r] \in RequestOf(r) /\ req[r].row # None /\ req[r].row \in Reqs
  BY RequestFields DEF Inv, Refresh, TypeOK
<1>2. UNCHANGED <<documents, search_results, issued, rows, seed>>
  BY DEF Refresh
<1>3. CASE rows[req[r].row] = None /\ Fail(r, "InvalidRequestError")
  <2>1. rows[r] = None
    BY <1>1, <1>3 DEF RequestInv, HasItsRow
  <2>2. QED
    BY <1>1, <1>2, <1>3, <2>1, FailingStep DEF Errors
<1>4. CASE rows[req[r].row] # None
           /\ req' = [req EXCEPT ![r].pc = "ok", ![r].answer = rows[req[r].row].vote]
  <2> DEFINE new == [req[r] EXCEPT !.pc = "ok", !.answer = rows[req[r].row].vote]
  <2>1. req' = [req EXCEPT ![r] = new] /\ req'[r] = new
    BY <1>1, <1>4
  <2>2. rows[req[r].row].vote \in BOOLEAN
    BY <1>1, <1>4, RowFields DEF Verdicts
  <2>3. new \in RequestOf(r) /\ new.pc = "ok" /\ new.answer # None
    BY <1>1, <2>2, NoneIsNothing DEF RequestOf
  <2>4. /\ req'[r].pc = "ok" /\ req'[r].tx = req[r].tx /\ req'[r].row = req[r].row
        /\ req'[r].target = req[r].target /\ req'[r].user = req[r].user
        /\ req'[r].loaded = req[r].loaded
    BY <1>1, <2>1 DEF RequestOf
  <2>5. HoldsTx(r)'
    <3>1. (req'[r].pc \in {"select", "write", "return"}) = (req[r].pc \in {"select", "write", "return"})
      BY <1>1, <2>4
    <3>2. req[r].tx = (req[r].pc \in {"select", "write", "return"})
      BY <1>1, Zenon DEF RequestInv, HoldsTx
    <3>3. QED
      BY <2>4, <3>1, <3>2, Zenon DEF HoldsTx
  <2>6. TargetIsThere(r)' /\ FirstIsTrue(r)' /\ FoundTrue(r)'
    BY <1>1, <2>4 DEF RequestInv, TargetIsThere, FirstIsTrue, FoundTrue, Inserted
  <2>7. HasItsRow(r)'
    BY <1>1, <1>2, <2>4 DEF RequestInv, HasItsRow
  <2>8. SameRow(r)'
    <3>1. \A q \in Reqs : q # r => req'[q] = req[q]
      BY <1>1, <2>1
    <3>2. QED
      BY <1>1, <2>4, <3>1 DEF SameRow, RequestInv, Inserted
  <2>9. RequestInv(r)'
    BY <2>4, <2>5, <2>6, <2>7, <2>8 DEF RequestInv
  <2>10. new.target = req[r].target /\ new.user = req[r].user
    BY <2>1, <2>4
  <2>11. QED
    BY <1>1, <1>2, <2>1, <2>3, <2>9, <2>10, ReadingStep DEF Inserted
<1>5. QED
  BY <1>3, <1>4 DEF Refresh

\* The insert: the caller had no row on the target, and the target is there.
LEMMA InsertInv ==
    ASSUME Inv, NEW r \in Reqs, Insert(r)
    PROVE  Inv'
<1>1. /\ TypeOK /\ RequestInv(r) /\ req[r].pc = "write" /\ req[r].row = None
      /\ DOMAIN req = Reqs /\ DOMAIN rows = Reqs /\ req[r] \in RequestOf(r)
  BY DEF Inv, Insert, TypeOK
<1>2. /\ rows[r] = None /\ req[r].first /\ req[r].loaded = None
      /\ req[r].target \in Existing(r)
  BY <1>1 DEF RequestInv, HasItsRow, FirstIsTrue, FoundTrue, TargetIsThere
<1>3. UNCHANGED <<documents, search_results, issued, seed>>
  BY DEF Insert
<1>4. CASE Taken(r) /\ Fail(r, "UniqueViolation") /\ UNCHANGED rows
  BY <1>1, <1>2, <1>3, <1>4, FailingStep DEF Errors
<1>5. CASE /\ ~Taken(r)
           /\ rows' = [rows EXCEPT ![r] = [target |-> req[r].target,
                                           user |-> req[r].user, vote |-> req[r].vote]]
           /\ req' = [req EXCEPT ![r].pc = "refresh", ![r].row = r, ![r].tx = FALSE]
  <2> DEFINE row == [target |-> req[r].target, user |-> req[r].user, vote |-> req[r].vote]
             new == [req[r] EXCEPT !.pc = "refresh", !.row = r, !.tx = FALSE]
  <2>1. /\ rows' = [rows EXCEPT ![r] = row] /\ req' = [req EXCEPT ![r] = new]
        /\ row \in Row(r) /\ req'[r] = new
    BY <1>1, <1>5, RequestFields DEF Row
  <2>2. r # None
    BY NoneIsNothing
  <2>3. new \in RequestOf(r) /\ new.pc = "refresh" /\ new.row = r
    BY <1>1 DEF RequestOf, Working
  <2>4. TypeOK'
    <3>1. DOMAIN rows' = Reqs /\ rows'[r] \in Row(r) /\ \A p \in Reqs : p # r => rows'[p] = rows[p]
      BY <1>1, <2>1
    <3>2. QED
      BY <1>1, <1>3, <2>1, <2>2, <2>3, <3>1, OneRequestTyped
  <2>5. row # None
    BY <2>1, NoneIsNoRow
  <2>6. /\ \A p \in Reqs \ {r} : rows'[p] = rows[p] /\ req'[p] = req[p]
        /\ rows'[r] = row
    BY <1>1, <2>1
  <2>7. Growing
    BY <1>1, <1>2, <1>3, <2>6 DEF Growing, Inserted
  <2>8. \A q \in Reqs \ {r} : RequestInv(q)'
    BY <2>6, <2>7, OthersStayTrue
  <2>9. /\ req'[r].pc = "refresh" /\ req'[r].tx = FALSE /\ req'[r].row = r
        /\ req'[r].target = req[r].target /\ req'[r].user = req[r].user
    BY <1>1, <2>1 DEF RequestOf
  <2>10. RequestInv(r)'
    <3>1. HoldsTx(r)'
      <4>1. (req'[r].pc \in {"select", "write", "return"}) = FALSE
        BY <2>9
      <4>2. QED
        BY <2>9, <4>1, Zenon DEF HoldsTx
    <3>2. TargetIsThere(r)' /\ FirstIsTrue(r)' /\ FoundTrue(r)'
      BY <2>2, <2>9 DEF TargetIsThere, FirstIsTrue, FoundTrue, Inserted
    <3>3. SameRow(r)' /\ HasItsRow(r)'
      BY <2>6, <2>9 DEF SameRow, HasItsRow, Inserted
    <3>4. QED
      BY <2>9, <3>1, <3>2, <3>3 DEF RequestInv
  <2>11. ASSUME NEW u \in Users, NEW t \in Results \cup Docs,
                NEW p \in RowsOf(u, t)', NEW q \in RowsOf(u, t)'
         PROVE  p = q
    <3>1. CASE u = req[r].user /\ t = req[r].target
      <4>1. RowsOf(u, t) = {}
        BY <1>5, <3>1 DEF Taken
      <4>2. QED
        BY <2>6, <4>1 DEF RowsOf
    <3>2. CASE u # req[r].user \/ t # req[r].target
      <4>1. p \in RowsOf(u, t) /\ q \in RowsOf(u, t)
        BY <2>6, <3>2 DEF RowsOf
      <4>2. QED
        BY <4>1 DEF Inv, OneRowPerUser
    <3>3. QED
      BY <3>1, <3>2
  <2>12. OneRowPerUser'
    BY <2>11 DEF OneRowPerUser
  <2>13. QED
    BY <2>4, <2>8, <2>10, <2>12 DEF Inv
<1>6. QED
  BY <1>2, <1>4, <1>5 DEF Insert

\* The update: the row that was found is still there, whoever inserted it.
LEMMA UpdateInv ==
    ASSUME Inv, NEW r \in Voters, Update(r)
    PROVE  Inv'
<1>1. /\ r \in Reqs /\ TypeOK /\ RequestInv(r) /\ req[r].pc = "write" /\ req[r].row # None
      /\ DOMAIN req = Reqs /\ DOMAIN rows = Reqs /\ req[r] \in RequestOf(r)
  BY DEF Inv, Update, TypeOK, Reqs
<1>2. UNCHANGED <<documents, search_results, issued, seed>>
  BY DEF Update
<1> DEFINE q == req[r].row
           new == [req[r] EXCEPT !.pc = "refresh", !.tx = FALSE]
<1>3. q \in Reqs /\ q \in Voters /\ rows[q] # None /\ rows[r] = None
  BY <1>1, RequestFields DEF RequestInv, FoundTrue, HasItsRow
<1>4. /\ req' = [req EXCEPT ![r] = new] /\ req'[r] = new
      /\ new \in RequestOf(r) /\ new.pc = "refresh" /\ new.row # None
  BY <1>1 DEF Update, RequestOf, Working
<1>5. /\ req'[r].pc = "refresh" /\ req'[r].tx = FALSE /\ req'[r].row = q
      /\ req'[r].target = req[r].target /\ req'[r].user = req[r].user
      /\ req'[r].loaded = req[r].loaded
  BY <1>1, <1>4 DEF RequestOf
<1>6. /\ DOMAIN rows' = Reqs /\ rows'[q] \in Row(q)
      /\ rows'[q].target = rows[q].target /\ rows'[q].user = rows[q].user
      /\ \A p \in Reqs : p # q => rows'[p] = rows[p]
  <2>1. rows[q] \in Row(q)
    BY <1>1, <1>3 DEF TypeOK
  <2>2. CASE rows' = rows
    BY <1>1, <2>1, <2>2
  <2>3. CASE rows' = [rows EXCEPT ![q].vote = req[r].vote]
    <3> DEFINE row == [rows[q] EXCEPT !.vote = req[r].vote]
    <3>1. req[r].vote \in BOOLEAN
      BY <1>1, RequestFields DEF Verdicts
    <3>2. row \in Row(q) /\ row.target = rows[q].target /\ row.user = rows[q].user
      BY <1>3, <2>1, <3>1 DEF Row, Verdicts
    <3>3. rows' = [rows EXCEPT ![q] = row]
      BY <2>3
    <3>4. QED
      BY <1>1, <1>3, <3>2, <3>3
  <2>4. QED
    BY <2>2, <2>3 DEF Update
<1>7. TypeOK'
  BY <1>1, <1>2, <1>3, <1>4, <1>6, OneRequestTyped
<1>8. \A p \in Reqs : p # r => req'[p] = req[p]
  BY <1>1, <1>4
<1>9. rows'[q] # None /\ q # r /\ rows'[r] = None
  BY <1>1, <1>3, <1>6, NoneIsNoRow
<1>10. Growing
  BY <1>1, <1>2, <1>6, <1>8, <1>9 DEF Growing, Inserted
<1>11. \A p \in Reqs \ {r} : RequestInv(p)'
  <2>1. ASSUME NEW p \in Reqs \ {r} PROVE rows'[p] # None => rows[p] # None
    BY <1>3, <1>6
  <2>2. QED
    BY <1>8, <1>10, <2>1, OthersStayTrue
<1>12. RequestInv(r)'
  <2>1. HoldsTx(r)'
    <3>1. (req'[r].pc \in {"select", "write", "return"}) = FALSE
      BY <1>5
    <3>2. QED
      BY <1>5, <3>1, Zenon DEF HoldsTx
  <2>2. TargetIsThere(r)' /\ FirstIsTrue(r)' /\ FoundTrue(r)'
    BY <1>1, <1>5 DEF TargetIsThere, FirstIsTrue, FoundTrue, Inserted
  <2>3. SameRow(r)' /\ HasItsRow(r)'
    BY <1>1, <1>3, <1>5, <1>8, <1>9 DEF SameRow, HasItsRow, RequestInv
  <2>4. QED
    BY <1>5, <2>1, <2>2, <2>3 DEF RequestInv
<1>13. OneRowPerUser'
  <2>1. ASSUME NEW u, NEW t PROVE RowsOf(u, t)' = RowsOf(u, t)
    BY <1>3, <1>6, <1>8, <1>9 DEF RowsOf
  <2>2. QED
    BY <2>1 DEF Inv, OneRowPerUser
<1>14. QED
  BY <1>7, <1>11, <1>12, <1>13 DEF Inv

-----------------------------------------------------------------------------
(* The invariants.                                                         *)

LEMMA NextInv == Inv /\ [Next]_vars => Inv'
<1> SUFFICES ASSUME Inv, [Next]_vars PROVE Inv'
  OBVIOUS
<1>1. CASE LogSearch \/ SeedLoad
  BY <1>1, AddingInv
<1>2. CASE SeedTruncate
  BY <1>2, TruncateInv
<1>3. ASSUME NEW r \in Voters, submit_feedback(r) PROVE Inv'
  BY <1>3, GetTargetInv, SelectInv, InsertInv, UpdateInv, RefreshInv DEF submit_feedback, Reqs
<1>4. ASSUME NEW r \in Markers, create_bookmark(r) PROVE Inv'
  BY <1>4, GetTargetInv, SelectInv, ReturnInv, InsertInv, RefreshInv DEF create_bookmark, Reqs
<1>5. CASE UNCHANGED vars
  BY <1>5 DEF vars, Inv, TypeOK, OneRowPerUser, RowsOf, RequestInv, HoldsTx, TargetIsThere,
              FirstIsTrue, FoundTrue, SameRow, HasItsRow, Existing
<1>6. QED
  BY <1>1, <1>2, <1>3, <1>4, <1>5 DEF Next

\* Every reachable state satisfies the inductive invariant.
THEOREM Invariance == Spec => []Inv
<1>1. Init => Inv
  BY InitInv
<1>2. Inv /\ [Next]_vars => Inv'
  BY NextInv
<1>3. QED
  BY <1>1, <1>2, PTL DEF Spec

\* Votes, bookmarks and the requests that make them are well typed.
THEOREM Typing == Spec => []TypeOK
<1>1. Inv => TypeOK
  BY DEF Inv
<1>2. QED
  BY <1>1, Invariance, PTL

\* No user ever has two votes on one result or two bookmarks of one document, however
\* many requests race between the look-up and the insert.
THEOREM NoDuplicates == Spec => []OneRowPerUser
<1>1. Inv => OneRowPerUser
  BY DEF Inv
<1>2. QED
  BY <1>1, Invariance, PTL

\* What the first statement found cannot be truncated away before the commit: the
\* foreign keys never fail.
THEOREM ForeignKeysHold == Spec => []TargetStillThere
<1>1. Inv => TargetStillThere
  BY DEF Inv, RequestInv, TargetIsThere, TargetStillThere
<1>2. QED
  BY <1>1, Invariance, PTL

\* Only a request that began when the caller had no row can run into the unique index.
THEOREM ConflictsOverlap == Spec => []ConflictOnlyIfOverlapping
<1>1. Inv => ConflictOnlyIfOverlapping
  BY DEF Inv, RequestInv, FirstIsTrue, ConflictOnlyIfOverlapping
<1>2. QED
  BY <1>1, Invariance, PTL

-----------------------------------------------------------------------------
(* Votes and bookmarks implement UpsertStore.  First, what is stored.      *)

RowKey(q) == Key(rows[q].target, rows[q].user, q)
ReqKey(r) == Key(req[r].target, req[r].user, r)

\* Every row is the value of its own key, and nothing else is stored.
StoreIsRows ==
    /\ \A q \in Reqs : rows[q] # None =>
          RowKey(q) \in StoreKeys /\ StoredAt(RowKey(q)) = rows[q].vote
    /\ \A k \in StoreKeys : StoredAt(k) = None \/ \E q \in Reqs : rows[q] # None /\ RowKey(q) = k
    /\ \A p, q \in Reqs : rows[p] # None /\ rows[q] # None /\ RowKey(p) = RowKey(q) => p = q

LEMMA KeyType ==
    ASSUME NEW r \in Reqs, NEW t \in Targets(r), NEW u \in Callers(r)
    PROVE  Key(t, u, r) \in StoreKeys
BY DEF Key, StoreKeys, Targets, Callers

LEMMA StoreFacts == Inv => StoreIsRows
<1> SUFFICES ASSUME Inv PROVE StoreIsRows
  OBVIOUS
<1>1. TypeOK /\ OneRowPerUser
  BY DEF Inv
<1>2. ASSUME NEW p \in Reqs, NEW q \in Reqs, rows[p] # None, rows[q] # None, RowKey(p) = RowKey(q)
      PROVE  p = q
  <2>1. /\ rows[p].target = rows[q].target
        /\ rows[p].target \in Results \cup Docs
        /\ rows[p].user \in Users \cup {Anonymous} /\ rows[q].user \in Users \cup {Anonymous}
    BY <1>1, <1>2, RowFields DEF RowKey, Key, Targets, Callers
  <2>2. CASE rows[p].user = Anonymous
    BY <1>2, <2>1, <2>2, KindsDiffer, AnonymousIsNoUser DEF RowKey, Key
  <2>3. CASE rows[p].user # Anonymous
    <3>1. rows[q].user = rows[p].user
      BY <1>2, <2>1, <2>3, KindsDiffer DEF RowKey, Key
    <3>2. p \in RowsOf(rows[p].user, rows[p].target) /\ q \in RowsOf(rows[p].user, rows[p].target)
      BY <1>2, <2>1, <2>3, <3>1 DEF RowsOf
    <3>3. QED
      BY <1>1, <2>1, <2>3, <3>2 DEF OneRowPerUser
  <2>4. QED
    BY <2>2, <2>3
<1>3. ASSUME NEW q \in Reqs, rows[q] # None
      PROVE  RowKey(q) \in StoreKeys /\ StoredAt(RowKey(q)) = rows[q].vote
  <2>1. RowKey(q) \in StoreKeys
    BY <1>1, <1>3, RowFields, KeyType DEF RowKey
  <2>2. RowsAt(RowKey(q)) = {q}
    BY <1>2, <1>3 DEF RowsAt, RowKey
  <2>3. (CHOOSE p \in {q} : TRUE) = q
    OBVIOUS
  <2>4. QED
    BY <2>1, <2>2, <2>3 DEF StoredAt
<1>4. \A k \in StoreKeys : StoredAt(k) = None \/ \E q \in Reqs : rows[q] # None /\ RowKey(q) = k
  BY DEF StoredAt, RowsAt, RowKey
<1>5. QED
  BY <1>2, <1>3, <1>4 DEF StoreIsRows

LEMMA StoreFactsNext == Inv' => StoreIsRows'
BY StoreFacts, PTL

\* The row that a request has found or inserted is the one of its own key.
LEMMA FoundRowKey ==
    ASSUME Inv, NEW r \in Reqs, req[r].row # None, rows[req[r].row] # None
    PROVE  RowKey(req[r].row) = ReqKey(r) /\ StoredAt(ReqKey(r)) = rows[req[r].row].vote
<1>1. req[r].row \in Reqs /\ SameRow(r) /\ HasItsRow(req[r].row)
  BY RequestFields DEF Inv, RequestInv
<1>2. RowKey(req[r].row) = ReqKey(r)
  BY <1>1 DEF SameRow, HasItsRow, RowKey, ReqKey, Key
<1>3. QED
  BY <1>1, <1>2, StoreFacts DEF StoreIsRows

\* There is nothing under a request's key exactly if the caller has no row there.
LEMMA NothingStored ==
    ASSUME Inv, NEW r \in Reqs, rows[r] = None, NEW t \in Targets(r), NEW u \in Callers(r)
    PROVE  StoredAt(Key(t, u, r)) = None <=> RowsOf(u, t) = {}
<1>1. TypeOK /\ StoreIsRows /\ Key(t, u, r) \in StoreKeys
  BY StoreFacts, KeyType DEF Inv
<1>2. u \in Users \cup {Anonymous}
  BY DEF Callers
<1>3. ASSUME NEW q \in Reqs, rows[q] # None, RowKey(q) = Key(t, u, r)
      PROVE  q \in RowsOf(u, t)
  <2>1. q # r /\ rows[q].user \in Users \cup {Anonymous}
    BY <1>1, <1>3, RowFields DEF Callers
  <2>2. QED
    BY <1>2, <1>3, <2>1, KindsDiffer, AnonymousIsNoUser DEF RowKey, Key, RowsOf
<1>4. ASSUME NEW q \in RowsOf(u, t)
      PROVE  StoredAt(Key(t, u, r)) # None
  <2>1. q \in Reqs /\ rows[q] # None /\ RowKey(q) = Key(t, u, r)
    BY <1>4 DEF RowsOf, RowKey, Key
  <2>2. rows[q].vote \in BOOLEAN
    BY <1>1, <2>1, RowFields DEF Verdicts
  <2>3. QED
    BY <1>1, <2>1, <2>2, NoneIsNothing DEF StoreIsRows
<1>5. QED
  BY <1>1, <1>3, <1>4 DEF StoreIsRows

\* What the other steps leave alone.
LEMMA StoreUnchanged ==
    ASSUME Inv, Inv', rows' = rows, NEW k \in StoreKeys
    PROVE  StoredAt(k)' = StoredAt(k)
<1>1. StoreIsRows /\ StoreIsRows'
  BY StoreFacts, StoreFactsNext
<1>2. \A q \in Reqs : RowKey(q)' = RowKey(q)
  BY DEF RowKey, Key
<1>3. QED
  BY <1>1, <1>2 DEF StoreIsRows

LEMMA PcUnchanged ==
    ASSUME Inv, NEW q \in Reqs, req'[q] = req[q],
           req[q].row # None => (rows'[req[q].row] = None <=> rows[req[q].row] = None)
    PROVE  AbstractPc(q)' = AbstractPc(q)
<1>1. req[q].pc = "refresh" => req[q].row # None
  BY DEF Inv, TypeOK
<1>2. QED
  BY <1>1 DEF AbstractPc

-----------------------------------------------------------------------------
(* How the abstract actions look through the mapping.                      *)

Stored == [k \in StoreKeys |-> StoredAt(k)]
Pcs == [r \in Reqs |-> AbstractPc(r)]
ReqKeys == [r \in Reqs |-> ReqKey(r)]
Votes == [r \in Reqs |-> req[r].vote]
Answers == [r \in Reqs |-> req[r].answer]
Firsts == [r \in Reqs |-> req[r].first]

StoreStutters ==
    /\ Stored' = Stored /\ Pcs' = Pcs /\ ReqKeys' = ReqKeys /\ Votes' = Votes
    /\ Answers' = Answers /\ Firsts' = Firsts

StoreStep == Store!Next \/ StoreStutters

\* A step of r that keeps the key, the vote and whether it is the first.
SameRequest(r) ==
    /\ \A q \in Reqs : q # r => req'[q] = req[q] /\ AbstractPc(q)' = AbstractPc(q)
    /\ req'[r].target = req[r].target /\ req'[r].user = req[r].user
    /\ req'[r].vote = req[r].vote /\ req'[r].first = req[r].first

LEMMA SameRequestMapped ==
    ASSUME NEW r \in Reqs, SameRequest(r)
    PROVE  /\ ReqKeys' = ReqKeys /\ Votes' = Votes /\ Firsts' = Firsts
           /\ Pcs' = [Pcs EXCEPT ![r] = AbstractPc(r)']
           /\ req'[r].answer = req[r].answer => Answers' = Answers
           /\ Answers' = [Answers EXCEPT ![r] = req'[r].answer]
<1>1. \A q \in Reqs : ReqKey(q)' = ReqKey(q) /\ req'[q].vote = req[q].vote
                      /\ req'[q].first = req[q].first
  BY DEF SameRequest, ReqKey, Key
<1>2. ReqKeys' = ReqKeys /\ Votes' = Votes /\ Firsts' = Firsts
  BY <1>1 DEF ReqKeys, Votes, Firsts
<1>3. Pcs' = [Pcs EXCEPT ![r] = AbstractPc(r)']
  BY DEF SameRequest, Pcs
<1>4. /\ req'[r].answer = req[r].answer => Answers' = Answers
      /\ Answers' = [Answers EXCEPT ![r] = req'[r].answer]
  BY DEF SameRequest, Answers
<1>5. QED
  BY <1>2, <1>3, <1>4

LEMMA Stuttering ==
    ASSUME NEW r \in Reqs, SameRequest(r), AbstractPc(r)' = AbstractPc(r),
           req'[r].answer = req[r].answer,
           \A k \in StoreKeys : StoredAt(k)' = StoredAt(k)
    PROVE  StoreStep
<1>1. Stored' = Stored
  BY DEF Stored
<1>2. Pcs' = Pcs
  BY SameRequestMapped DEF Pcs
<1>3. QED
  BY <1>1, <1>2, SameRequestMapped DEF StoreStep, StoreStutters

LEMMA Applying ==
    ASSUME NEW r \in Reqs, SameRequest(r), AbstractPc(r) = "begun", AbstractPc(r)' = "applied",
           req'[r].answer = req[r].answer,
           \A k \in StoreKeys :
               StoredAt(k)' = IF k = ReqKey(r) THEN req[r].vote ELSE StoredAt(k)
    PROVE  StoreStep
<1>1. Stored' = [Stored EXCEPT ![ReqKey(r)] = req[r].vote]
  BY DEF Stored
<1>2. Pcs[r] = "begun" /\ Pcs' = [Pcs EXCEPT ![r] = "applied"]
  BY SameRequestMapped DEF Pcs
<1>3. ReqKeys[r] = ReqKey(r) /\ Votes[r] = req[r].vote
  BY DEF ReqKeys, Votes
<1>4. Store!Apply(r)
  BY <1>1, <1>2, <1>3, SameRequestMapped
     DEF Store!Apply, Stored, Pcs, ReqKeys, ReqKey, Votes, Answers, Firsts
<1>5. QED
  BY <1>4 DEF StoreStep, Store!Next

LEMMA Conflicting ==
    ASSUME NEW r \in Reqs, SameRequest(r), AbstractPc(r) = "begun", AbstractPc(r)' = "conflict",
           req[r].first = TRUE, ReqKey(r) \in StoreKeys, StoredAt(ReqKey(r)) # None,
           req'[r].answer = req[r].answer,
           \A k \in StoreKeys : StoredAt(k)' = StoredAt(k)
    PROVE  StoreStep
<1>1. Stored' = Stored /\ Stored[ReqKey(r)] # None
  BY DEF Stored
<1>2. Pcs[r] = "begun" /\ Pcs' = [Pcs EXCEPT ![r] = "conflict"]
  BY SameRequestMapped DEF Pcs
<1>3. ReqKeys[r] = ReqKey(r) /\ Firsts[r]
  BY DEF ReqKeys, Firsts
<1>4. Store!Conflict(r)
  BY <1>1, <1>2, <1>3, SameRequestMapped
     DEF Store!Conflict, Stored, Pcs, ReqKeys, ReqKey, Votes, Answers, Firsts
<1>5. QED
  BY <1>4 DEF StoreStep, Store!Next

LEMMA Answering ==
    ASSUME NEW r \in Reqs, SameRequest(r), AbstractPc(r) = "applied", AbstractPc(r)' = "answered",
           ReqKey(r) \in StoreKeys, StoredAt(ReqKey(r)) # None,
           req'[r].answer = StoredAt(ReqKey(r)),
           \A k \in StoreKeys : StoredAt(k)' = StoredAt(k)
    PROVE  StoreStep
<1>1. Stored' = Stored /\ Stored[ReqKey(r)] = StoredAt(ReqKey(r))
  BY DEF Stored
<1>2. Pcs[r] = "applied" /\ Pcs' = [Pcs EXCEPT ![r] = "answered"]
  BY SameRequestMapped DEF Pcs
<1>3. ReqKeys[r] = ReqKey(r) /\ Answers' = [Answers EXCEPT ![r] = StoredAt(ReqKey(r))]
  BY SameRequestMapped DEF ReqKeys
<1>4. Store!Answer(r)
  BY <1>1, <1>2, <1>3, SameRequestMapped
     DEF Store!Answer, Stored, Pcs, ReqKeys, ReqKey, Votes, Answers, Firsts
<1>5. QED
  BY <1>4 DEF StoreStep, Store!Next

LEMMA Vanishing ==
    ASSUME NEW r \in Reqs, SameRequest(r), AbstractPc(r) = "wiped", AbstractPc(r)' = "vanished",
           req'[r].answer = req[r].answer,
           \A k \in StoreKeys : StoredAt(k)' = StoredAt(k)
    PROVE  StoreStep
<1>1. Stored' = Stored
  BY DEF Stored
<1>2. Pcs[r] = "wiped" /\ Pcs' = [Pcs EXCEPT ![r] = "vanished"]
  BY SameRequestMapped DEF Pcs
<1>3. Store!Vanish(r)
  BY <1>1, <1>2, SameRequestMapped
     DEF Store!Vanish, Stored, Pcs, ReqKeys, ReqKey, Votes, Answers, Firsts
<1>4. QED
  BY <1>3 DEF StoreStep, Store!Next

-----------------------------------------------------------------------------
(* Each step is one of the store's, or none.                               *)

LEMMA InitMapped == Init => Store!Init
<1> SUFFICES ASSUME Init PROVE Store!Init
  OBVIOUS
<1>1. Inv
  BY InitInv
<1>2. \A k \in StoreKeys : StoredAt(k) = None
  BY DEF Init, StoredAt, RowsAt
<1>3. ASSUME NEW r \in Reqs
      PROVE  /\ AbstractPc(r) = "idle" /\ ReqKey(r) \in StoreKeys /\ req[r].vote \in BOOLEAN
             /\ req[r].answer = None /\ req[r].first = FALSE
  <2>1. req[r].target \in Targets(r) /\ req[r].user \in Callers(r)
    BY <1>1, RequestFields DEF Inv
  <2>2. ReqKey(r) \in StoreKeys
    BY <2>1, KeyType DEF ReqKey
  <2>3. req[r].pc = "idle" /\ req[r].vote = TRUE /\ req[r].answer = None /\ req[r].first = FALSE
    BY DEF Init
  <2>4. QED
    BY <2>2, <2>3 DEF AbstractPc
<1>4. QED
  BY <1>2, <1>3 DEF Store!Init, ReqKey

LEMMA AddingMapped == Inv /\ Inv' /\ (LogSearch \/ SeedLoad) => StoreStep
<1> SUFFICES ASSUME Inv, Inv', LogSearch \/ SeedLoad PROVE StoreStep
  OBVIOUS
<1>1. UNCHANGED <<rows, req>>
  BY DEF LogSearch, SeedLoad
<1>2. \A k \in StoreKeys : StoredAt(k)' = StoredAt(k)
  BY <1>1, StoreUnchanged
<1>3. \A q \in Reqs : AbstractPc(q)' = AbstractPc(q)
  BY <1>1, PcUnchanged
<1>4. QED
  BY <1>1, <1>2, <1>3 DEF StoreStep, StoreStutters, Stored, Pcs, ReqKeys, ReqKey, Key, Votes,
                          Answers, Firsts

\* TRUNCATE is Wipe.
LEMMA TruncateMapped == Inv /\ Inv' /\ SeedTruncate => StoreStep
<1> SUFFICES ASSUME Inv, Inv', SeedTruncate PROVE StoreStep
  OBVIOUS
<1>1. req' = req /\ \A q \in Reqs : rows'[q] = None
  BY DEF SeedTruncate
<1>2. \A k \in StoreKeys : StoredAt(k)' = None
  BY <1>1, StoreFactsNext DEF StoreIsRows
<1>3. ASSUME NEW r \in Reqs
      PROVE  /\ AbstractPc(r) # "begun"
             /\ AbstractPc(r)' = IF AbstractPc(r) = "applied" THEN "wiped" ELSE AbstractPc(r)
  <2>1. req[r].pc \notin {"select", "write", "return"}
    BY DEF Inv, RequestInv, HoldsTx, SeedTruncate, TablesInUse
  <2>2. req[r].pc = "refresh" => req[r].row \in Reqs
    BY RequestFields DEF Inv, TypeOK
  <2>3. QED
    BY <1>1, <2>1, <2>2 DEF AbstractPc
<1>4. Stored' = [k \in StoreKeys |-> None]
  BY <1>2 DEF Stored
<1>5. /\ \A r \in Reqs : Pcs[r] # "begun"
      /\ Pcs' = [r \in Reqs |-> IF Pcs[r] = "applied" THEN "wiped" ELSE Pcs[r]]
  BY <1>3 DEF Pcs
<1>6. ReqKeys' = ReqKeys /\ Votes' = Votes /\ Answers' = Answers /\ Firsts' = Firsts
  BY <1>1 DEF ReqKeys, ReqKey, Key, Votes, Answers, Firsts
<1>7. Store!Wipe
  BY <1>4, <1>5, <1>6
     DEF Store!Wipe, Stored, Pcs, ReqKeys, ReqKey, Votes, Answers, Firsts
<1>8. QED
  BY <1>7 DEF StoreStep, Store!Next

\* The first statement is Refuse or Begin.
LEMMA GetTargetMapped ==
    ASSUME Inv, Inv', NEW r \in Reqs, GetTarget(r)
    PROVE  StoreStep
<1>1. TypeOK /\ RequestInv(r) /\ req[r].pc = "idle" /\ DOMAIN req = Reqs /\ req[r] \in RequestOf(r)
  BY DEF Inv, TypeOK, GetTarget
<1>2. PICK t \in Targets(r), u \in Callers(r), v \in Verdicts(r) :
        req' = [req EXCEPT ![r] =
            [req[r] EXCEPT !.pc = IF t \notin Existing(r) THEN "404"
                             ELSE IF u = Anonymous THEN "write" ELSE "select",
                      !.target = t, !.user = u, !.vote = v,
                      !.tx = TxAfterSelect /\ t \in Existing(r),
                      !.first = t \in Existing(r) /\ RowsOf(u, t) = {}]]
  BY DEF GetTarget
<1> DEFINE there == t \in Existing(r)
<1>3. rows' = rows
  BY DEF GetTarget
<1>4. rows[r] = None /\ req[r].row = None /\ req[r].loaded = None /\ req[r].first = FALSE
  BY <1>1 DEF RequestInv, HasItsRow, FoundTrue, FirstIsTrue, RequestOf
<1>5. /\ req'[r].pc = IF ~there THEN "404" ELSE IF u = Anonymous THEN "write" ELSE "select"
      /\ req'[r].target = t /\ req'[r].user = u /\ req'[r].vote = v
      /\ req'[r].first = (there /\ RowsOf(u, t) = {})
      /\ req'[r].answer = req[r].answer /\ req'[r].loaded = None
  BY <1>1, <1>2, <1>4 DEF RequestOf
<1>6. v \in BOOLEAN /\ v # None
  BY NoneIsNothing DEF Verdicts
<1>7. AbstractPc(r) = "idle" /\ AbstractPc(r)' = IF there THEN "begun" ELSE "refused"
  BY <1>1, <1>5, <1>6 DEF AbstractPc
<1>8. \A q \in Reqs : q # r => req'[q] = req[q] /\ AbstractPc(q)' = AbstractPc(q)
  BY <1>1, <1>2, <1>3, PcUnchanged
<1>9. Stored' = Stored
  BY <1>3, StoreUnchanged DEF Stored
<1>10. Key(t, u, r) \in StoreKeys /\ ReqKeys' = [ReqKeys EXCEPT ![r] = Key(t, u, r)]
  BY <1>5, <1>8, KeyType DEF ReqKeys, ReqKey, Key
<1>11. Votes' = [Votes EXCEPT ![r] = v] /\ Answers' = Answers
  BY <1>5, <1>8 DEF Votes, Answers
<1>12. Pcs[r] = "idle" /\ Pcs' = [Pcs EXCEPT ![r] = IF there THEN "begun" ELSE "refused"]
  BY <1>7, <1>8 DEF Pcs
<1>13. CASE there
  <2>1. req'[r].first = (StoredAt(Key(t, u, r)) = None)
    <3>1. req'[r].first = (RowsOf(u, t) = {})
      BY <1>5, <1>13
    <3>2. StoredAt(Key(t, u, r)) = None <=> RowsOf(u, t) = {}
      BY <1>4, NothingStored
    <3>3. QED
      BY <3>1, <3>2
  <2>2. Firsts' = [Firsts EXCEPT ![r] = Stored[Key(t, u, r)] = None]
    BY <1>8, <1>10, <2>1 DEF Firsts, Stored
  <2>3. Pcs' = [Pcs EXCEPT ![r] = "begun"]
    BY <1>12, <1>13
  <2>4. Store!Begin(r)
    BY <1>6, <1>9, <1>10, <1>11, <1>12, <2>2, <2>3
       DEF Store!Begin, Stored, Pcs, ReqKeys, ReqKey, Votes, Answers, Firsts
  <2>5. QED
    BY <2>4 DEF StoreStep, Store!Next
<1>14. CASE ~there
  <2>1. req'[r].first = FALSE
    BY <1>5, <1>14
  <2>2. Firsts' = Firsts
    BY <1>4, <1>8, <2>1 DEF Firsts
  <2>3. Pcs' = [Pcs EXCEPT ![r] = "refused"]
    BY <1>12, <1>14
  <2>4. Store!Refuse(r)
    BY <1>6, <1>9, <1>10, <1>11, <1>12, <2>2, <2>3
       DEF Store!Refuse, Stored, Pcs, ReqKeys, ReqKey, Votes, Answers, Firsts
  <2>5. QED
    BY <2>4 DEF StoreStep, Store!Next
<1>15. QED
  BY <1>13, <1>14

\* The look-up is a stutter, unless it finds the value that was to be stored.
LEMMA SelectMapped ==
    ASSUME Inv, Inv', NEW r \in Reqs, Select(r)
    PROVE  StoreStep
<1>1. /\ TypeOK /\ RequestInv(r) /\ req[r].pc = "select" /\ DOMAIN req = Reqs
      /\ req[r] \in RequestOf(r) /\ req[r].vote \in BOOLEAN /\ req[r].vote # None
  BY RequestFields, NoneIsNothing DEF Inv, TypeOK, Select, Verdicts
<1>2. rows' = rows /\ \A k \in StoreKeys : StoredAt(k)' = StoredAt(k)
  BY StoreUnchanged DEF Select
<1>3. req[r].loaded = None /\ AbstractPc(r) = "begun"
  BY <1>1 DEF RequestInv, FoundTrue, AbstractPc
<1>4. \A q \in Reqs : q # r => req'[q] = req[q] /\ AbstractPc(q)' = AbstractPc(q)
  BY <1>1, <1>2, PcUnchanged DEF Select
<1>5. CASE req' = [req EXCEPT ![r].pc = "write"]
  <2>1. /\ req'[r].pc = "write" /\ req'[r].loaded = None /\ req'[r].vote = req[r].vote
        /\ req'[r].target = req[r].target /\ req'[r].user = req[r].user
        /\ req'[r].first = req[r].first /\ req'[r].answer = req[r].answer
    BY <1>1, <1>3, <1>5 DEF RequestOf
  <2>2. SameRequest(r) /\ AbstractPc(r)' = "begun"
    BY <1>1, <1>4, <2>1 DEF SameRequest, AbstractPc
  <2>3. QED
    BY <1>2, <1>3, <2>1, <2>2, Stuttering
<1>6. CASE \E q \in OwnRow(r) :
             req' = [req EXCEPT ![r].pc = IF r \in Voters THEN "write" ELSE "return",
                                ![r].row = q, ![r].loaded = rows[q].vote]
  <2>1. PICK q \in OwnRow(r) :
             req' = [req EXCEPT ![r].pc = IF r \in Voters THEN "write" ELSE "return",
                                ![r].row = q, ![r].loaded = rows[q].vote]
    BY <1>6
  <2>2. /\ q \in Reqs /\ rows[q] # None /\ rows[q].user = req[r].user
        /\ rows[q].target = req[r].target /\ req[r].user # Anonymous
    BY <1>1, <2>1, RowsOfOneKind DEF OwnRow
  <2>3. /\ req'[r].pc = (IF r \in Voters THEN "write" ELSE "return") /\ req'[r].row = q
        /\ req'[r].loaded = rows[q].vote /\ req'[r].vote = req[r].vote
        /\ req'[r].target = req[r].target /\ req'[r].user = req[r].user
        /\ req'[r].first = req[r].first /\ req'[r].answer = req[r].answer
    BY <1>1, <2>1 DEF RequestOf
  <2>4. RowKey(q) = ReqKey(r) /\ StoredAt(ReqKey(r)) = rows[q].vote
    BY <2>2, StoreFacts DEF RowKey, ReqKey, Key, StoreIsRows
  <2>5. SameRequest(r)
    BY <1>4, <2>3 DEF SameRequest
  <2>6. CASE req[r].vote = rows[q].vote
    <3>1. AbstractPc(r)' = "applied"
      BY <2>3, <2>6 DEF AbstractPc
    <3>2. \A k \in StoreKeys :
             StoredAt(k)' = IF k = ReqKey(r) THEN req[r].vote ELSE StoredAt(k)
      BY <1>2, <2>4, <2>6
    <3>3. QED
      BY <1>3, <2>3, <2>5, <3>1, <3>2, Applying
  <2>7. CASE req[r].vote # rows[q].vote
    <3>1. r \in Voters
      <4>1. r \notin Voters => req'[r].loaded = TRUE /\ req[r].vote = TRUE
        <5>1. RequestInv(r)' /\ (r \notin Voters => req'[r].pc = "return")
          BY <2>3 DEF Inv
        <5>2. req[r].vote \in Verdicts(r)
          BY <1>1, RequestFields
        <5>3. QED
          BY <5>1, <5>2 DEF RequestInv, FoundTrue, Verdicts
      <4>2. QED
        BY <2>3, <2>7, <4>1
    <3>2. AbstractPc(r)' = "begun"
      BY <2>3, <2>7, <3>1 DEF AbstractPc
    <3>3. QED
      BY <1>2, <1>3, <2>3, <2>5, <3>2, Stuttering
  <2>8. QED
    BY <2>6, <2>7
<1>7. QED
  BY <1>5, <1>6 DEF Select

LEMMA ReturnMapped ==
    ASSUME Inv, Inv', NEW r \in Reqs, Return(r)
    PROVE  StoreStep
<1>1. /\ TypeOK /\ RequestInv(r) /\ req[r].pc = "return" /\ DOMAIN req = Reqs
      /\ req[r] \in RequestOf(r) /\ req[r].row # None /\ req[r].row \in Reqs
      /\ req[r].loaded = TRUE /\ r \in Markers /\ rows[req[r].row] # None
  BY RequestFields DEF Inv, TypeOK, Return, RequestInv, FoundTrue
<1>2. rows' = rows /\ \A k \in StoreKeys : StoredAt(k)' = StoredAt(k)
  BY StoreUnchanged DEF Return
<1>3. \A q \in Reqs : q # r => req'[q] = req[q] /\ AbstractPc(q)' = AbstractPc(q)
  BY <1>1, <1>2, PcUnchanged DEF Return
<1>4. /\ req'[r].pc = "ok" /\ req'[r].answer = TRUE /\ req'[r].vote = req[r].vote
      /\ req'[r].target = req[r].target /\ req'[r].user = req[r].user
      /\ req'[r].first = req[r].first
  BY <1>1 DEF Return, RequestOf
<1>5. SameRequest(r) /\ AbstractPc(r) = "applied" /\ AbstractPc(r)' = "answered"
  BY <1>1, <1>3, <1>4 DEF SameRequest, AbstractPc
<1>6. StoredAt(ReqKey(r)) = rows[req[r].row].vote /\ ReqKey(r) \in StoreKeys
  BY <1>1, FoundRowKey, KeyType, RequestFields DEF ReqKey
<1>7. rows[req[r].row].vote = TRUE
  <2>1. req[r].row \notin Voters
    <3>1. rows[req[r].row].target = req[r].target
      BY <1>1 DEF Inv, RequestInv, SameRow, HasItsRow
    <3>2. req[r].target \in Docs /\ rows[req[r].row].target \in Targets(req[r].row)
      BY <1>1, RequestFields, RowFields, KindsDiffer DEF Targets
    <3>3. QED
      BY <3>1, <3>2, KindsDiffer DEF Targets
  <2>2. QED
    BY <1>1, <2>1, RowFields DEF Verdicts
<1>8. StoredAt(ReqKey(r)) # None /\ req'[r].answer = StoredAt(ReqKey(r))
  BY <1>4, <1>6, <1>7, NoneIsNothing
<1>9. QED
  BY <1>2, <1>5, <1>6, <1>8, Answering

LEMMA InsertMapped ==
    ASSUME Inv, Inv', NEW r \in Reqs, Insert(r)
    PROVE  StoreStep
<1>1. /\ TypeOK /\ RequestInv(r) /\ req[r].pc = "write" /\ req[r].row = None
      /\ DOMAIN req = Reqs /\ DOMAIN rows = Reqs /\ req[r] \in RequestOf(r)
      /\ req[r].vote \in BOOLEAN /\ req[r].vote # None
  BY RequestFields, NoneIsNothing DEF Inv, Insert, TypeOK, Verdicts
<1>2. /\ rows[r] = None /\ req[r].first = TRUE /\ req[r].loaded = None
      /\ req[r].target \in Existing(r)
  BY <1>1 DEF RequestInv, HasItsRow, FirstIsTrue, FoundTrue, TargetIsThere, RequestOf
<1>3. AbstractPc(r) = "begun"
  BY <1>1, <1>2 DEF AbstractPc
<1>4. /\ ReqKey(r) \in StoreKeys
      /\ StoredAt(ReqKey(r)) = None <=> RowsOf(req[r].user, req[r].target) = {}
  BY <1>1, <1>2, KeyType, NothingStored, RequestFields DEF ReqKey
<1>5. CASE Taken(r) /\ Fail(r, "UniqueViolation") /\ UNCHANGED rows
  <2>1. \A k \in StoreKeys : StoredAt(k)' = StoredAt(k)
    BY <1>5, StoreUnchanged
  <2>2. \A q \in Reqs : q # r => req'[q] = req[q] /\ AbstractPc(q)' = AbstractPc(q)
    BY <1>1, <1>5, PcUnchanged DEF Fail
  <2>3. /\ req'[r].pc = "UniqueViolation" /\ req'[r].answer = req[r].answer
        /\ req'[r].vote = req[r].vote /\ req'[r].target = req[r].target
        /\ req'[r].user = req[r].user /\ req'[r].first = req[r].first
    BY <1>1, <1>5 DEF Fail, RequestOf
  <2>4. SameRequest(r) /\ AbstractPc(r)' = "conflict"
    BY <2>2, <2>3 DEF SameRequest, AbstractPc
  <2>5. StoredAt(ReqKey(r)) # None
    BY <1>4, <1>5 DEF Taken
  <2>6. QED
    BY <1>2, <1>3, <1>4, <2>1, <2>3, <2>4, <2>5, Conflicting
<1>6. CASE /\ rows' = [rows EXCEPT ![r] = [target |-> req[r].target,
                                           user |-> req[r].user, vote |-> req[r].vote]]
           /\ req' = [req EXCEPT ![r].pc = "refresh", ![r].row = r, ![r].tx = FALSE]
  <2>1. /\ \A q \in Reqs : q # r => rows'[q] = rows[q] /\ req'[q] = req[q]
        /\ rows'[r] = [target |-> req[r].target, user |-> req[r].user, vote |-> req[r].vote]
        /\ rows'[r] \in Row(r)
    BY <1>1, <1>6, RequestFields DEF Row
  <2>2. /\ req'[r].pc = "refresh" /\ req'[r].row = r /\ req'[r].answer = req[r].answer
        /\ req'[r].vote = req[r].vote /\ req'[r].target = req[r].target
        /\ req'[r].user = req[r].user /\ req'[r].first = req[r].first
    BY <1>1, <1>6 DEF RequestOf
  <2>3. rows'[r] # None
    BY <2>1, NoneIsNoRow
  <2>4. AbstractPc(r)' = "applied"
    BY <2>2, <2>3 DEF AbstractPc
  <2>5. ASSUME NEW q \in Reqs, q # r
        PROVE  req'[q] = req[q] /\ AbstractPc(q)' = AbstractPc(q)
    <3>1. req[q].row # None => req[q].row \in Reqs /\ req[q].row # r
      BY <1>1, <2>5, RequestFields DEF Inv, RequestInv, SameRow, Inserted
    <3>2. QED
      BY <2>1, <2>5, <3>1, PcUnchanged
  <2>6. SameRequest(r)
    BY <2>2, <2>5 DEF SameRequest
  <2>7. ReqKey(r) = RowKey(r)' /\ \A q \in Reqs : q # r => RowKey(q)' = RowKey(q)
    BY <2>1 DEF RowKey, ReqKey, Key
  <2>8. \A k \in StoreKeys :
           StoredAt(k)' = IF k = ReqKey(r) THEN req[r].vote ELSE StoredAt(k)
    <3>1. StoreIsRows /\ StoreIsRows'
      BY StoreFacts, StoreFactsNext
    <3>2. ASSUME NEW k \in StoreKeys, k = ReqKey(r) PROVE StoredAt(k)' = req[r].vote
      <4>1. RowKey(r)' = k /\ rows'[r] # None /\ rows'[r].vote = req[r].vote
        BY <2>1, <2>3, <2>7, <3>2
      <4>2. QED
        BY <3>1, <4>1 DEF StoreIsRows
    <3>3. ASSUME NEW k \in StoreKeys, k # ReqKey(r) PROVE StoredAt(k)' = StoredAt(k)
      BY <1>2, <2>1, <2>7, <3>1, <3>3 DEF StoreIsRows
    <3>4. QED
      BY <3>2, <3>3
  <2>9. QED
    BY <1>3, <2>2, <2>4, <2>6, <2>8, Applying
<1>7. QED
  BY <1>2, <1>5, <1>6 DEF Insert

\* Repeating the stored vote took effect when it was read; any other is applied here.
LEMMA UpdateMapped ==
    ASSUME Inv, Inv', NEW r \in Voters, Update(r)
    PROVE  StoreStep
<1> DEFINE row == req[r].row
<1>1. /\ TypeOK /\ RequestInv(r) /\ r \in Reqs /\ req[r].pc = "write" /\ row # None
      /\ row \in Reqs /\ rows[row] # None /\ row \in Voters
      /\ DOMAIN req = Reqs /\ DOMAIN rows = Reqs /\ req[r] \in RequestOf(r)
      /\ req[r].vote \in BOOLEAN
  BY RequestFields DEF Inv, Update, TypeOK, RequestInv, FoundTrue, Reqs, Verdicts
<1>2. /\ req'[r].pc = "refresh" /\ req'[r].row = row /\ req'[r].answer = req[r].answer
      /\ req'[r].vote = req[r].vote /\ req'[r].target = req[r].target
      /\ req'[r].user = req[r].user /\ req'[r].first = req[r].first
      /\ \A q \in Reqs : q # r => req'[q] = req[q]
  BY <1>1 DEF Update, RequestOf
<1>3. rows[row] \in Row(row) /\ rows[row] \in [target : Targets(row), user : Callers(row), vote : Verdicts(row)]
  BY <1>1 DEF TypeOK, Row
<1>4. /\ \A q \in Reqs : q # row => rows'[q] = rows[q]
      /\ rows'[row].target = rows[row].target /\ rows'[row].user = rows[row].user
      /\ rows'[row].vote = IF req[r].loaded = req[r].vote THEN rows[row].vote ELSE req[r].vote
      /\ rows'[row] # None
  <2>1. CASE req[r].loaded = req[r].vote
    BY <1>1, <2>1 DEF Update
  <2>2. CASE req[r].loaded # req[r].vote
    <3>1. rows' = [rows EXCEPT ![row] = [rows[row] EXCEPT !.vote = req[r].vote]]
      BY <2>2 DEF Update
    <3>2. [rows[row] EXCEPT !.vote = req[r].vote] \in Row(row)
      BY <1>1, <1>3 DEF Row, Verdicts
    <3>3. rows'[row] # None
      BY <1>1, <3>1, <3>2, NoneIsNoRow
    <3>4. QED
      BY <1>1, <1>3, <2>2, <3>1, <3>3
  <2>3. QED
    BY <2>1, <2>2
<1>5. \A q \in Reqs : /\ rows'[q] = None <=> rows[q] = None
                      /\ RowKey(q)' = RowKey(q)
  BY <1>1, <1>4 DEF RowKey, Key
<1>6. ASSUME NEW q \in Reqs, q # r
      PROVE  req'[q] = req[q] /\ AbstractPc(q)' = AbstractPc(q)
  <2>1. req[q].row # None => req[q].row \in Reqs
    BY <1>1, RequestFields
  <2>2. QED
    BY <1>2, <1>5, <1>6, <2>1, PcUnchanged
<1>7. SameRequest(r)
  BY <1>2, <1>6 DEF SameRequest
<1>8. AbstractPc(r)' = "applied"
  BY <1>2, <1>4 DEF AbstractPc
<1>9. CASE req[r].loaded = req[r].vote
  <2>1. AbstractPc(r) = "applied"
    BY <1>1, <1>9 DEF AbstractPc
  <2>2. \A k \in StoreKeys : StoredAt(k)' = StoredAt(k)
    BY <1>9, StoreUnchanged DEF Update
  <2>3. QED
    BY <1>1, <1>2, <1>7, <1>8, <2>1, <2>2, Stuttering
<1>10. CASE req[r].loaded # req[r].vote
  <2>1. AbstractPc(r) = "begun"
    BY <1>1, <1>10 DEF AbstractPc
  <2>2. RowKey(row) = ReqKey(r)
    BY <1>1, FoundRowKey
  <2>3. StoreIsRows /\ StoreIsRows'
    BY StoreFacts, StoreFactsNext
  <2>4. ASSUME NEW k \in StoreKeys, k = ReqKey(r) PROVE StoredAt(k)' = req[r].vote
    <3>1. PICK q \in Reqs : q = row
      BY <1>1
    <3>2. rows'[q] # None /\ rows'[q].vote = req[r].vote
      BY <1>4, <1>10, <3>1
    <3>3. RowKey(q)' = k
      BY <1>5, <2>2, <2>4, <3>1
    <3>4. QED
      BY <2>3, <3>2, <3>3 DEF StoreIsRows
  <2>5. ASSUME NEW k \in StoreKeys, k # ReqKey(r) PROVE StoredAt(k)' = StoredAt(k)
    BY <1>1, <1>4, <1>5, <2>2, <2>3, <2>5 DEF StoreIsRows
  <2>6. QED
    BY <1>1, <1>2, <1>7, <1>8, <2>1, <2>4, <2>5, Applying
<1>11. QED
  BY <1>9, <1>10

LEMMA RefreshMapped ==
    ASSUME Inv, Inv', NEW r \in Reqs, Refresh(r)
    PROVE  StoreStep
<1>1. /\ TypeOK /\ req[r].pc = "refresh" /\ req[r].row # None /\ req[r].row \in Reqs
      /\ DOMAIN req = Reqs /\ req[r] \in RequestOf(r)
      /\ req[r].target \in Targets(r) /\ req[r].user \in Callers(r)
  BY RequestFields DEF Inv, TypeOK, Refresh
<1>2. rows' = rows /\ \A k \in StoreKeys : StoredAt(k)' = StoredAt(k)
  BY StoreUnchanged DEF Refresh
<1>3. \A q \in Reqs : q # r => req'[q] = req[q] /\ AbstractPc(q)' = AbstractPc(q)
  BY <1>1, <1>2, PcUnchanged DEF Refresh, Fail
<1>4. ReqKey(r) \in StoreKeys
  BY <1>1, KeyType DEF ReqKey
<1>5. CASE rows[req[r].row] = None /\ Fail(r, "InvalidRequestError")
  <2>1. /\ req'[r].pc = "InvalidRequestError" /\ req'[r].answer = req[r].answer
        /\ req'[r].vote = req[r].vote /\ req'[r].target = req[r].target
        /\ req'[r].user = req[r].user /\ req'[r].first = req[r].first
    BY <1>1, <1>5 DEF Fail, RequestOf
  <2>2. SameRequest(r) /\ AbstractPc(r) = "wiped" /\ AbstractPc(r)' = "vanished"
    BY <1>1, <1>3, <1>5, <2>1 DEF SameRequest, AbstractPc
  <2>3. QED
    BY <1>2, <2>1, <2>2, Vanishing
<1>6. CASE /\ rows[req[r].row] # None
           /\ req' = [req EXCEPT ![r].pc = "ok", ![r].answer = rows[req[r].row].vote]
  <2>1. /\ req'[r].pc = "ok" /\ req'[r].answer = rows[req[r].row].vote
        /\ req'[r].vote = req[r].vote /\ req'[r].target = req[r].target
        /\ req'[r].user = req[r].user /\ req'[r].first = req[r].first
    BY <1>1, <1>6 DEF RequestOf
  <2>2. SameRequest(r) /\ AbstractPc(r) = "applied" /\ AbstractPc(r)' = "answered"
    BY <1>1, <1>3, <1>6, <2>1 DEF SameRequest, AbstractPc
  <2>3. StoredAt(ReqKey(r)) = rows[req[r].row].vote
    BY <1>1, <1>6, FoundRowKey
  <2>4. rows[req[r].row].vote # None
    BY <1>1, <1>6, RowFields, NoneIsNothing DEF Verdicts
  <2>5. QED
    BY <1>2, <1>4, <2>1, <2>2, <2>3, <2>4, Answering
<1>7. QED
  BY <1>5, <1>6 DEF Refresh

LEMMA NextMapped == Inv /\ Inv' /\ [Next]_vars => StoreStep
<1> SUFFICES ASSUME Inv, Inv', [Next]_vars PROVE StoreStep
  OBVIOUS
<1>1. CASE LogSearch \/ SeedLoad
  BY <1>1, AddingMapped
<1>2. CASE SeedTruncate
  BY <1>2, TruncateMapped
<1>3. ASSUME NEW r \in Voters, submit_feedback(r)
      PROVE  StoreStep
  BY <1>3, GetTargetMapped, SelectMapped, InsertMapped, UpdateMapped, RefreshMapped
     DEF submit_feedback, Reqs
<1>4. ASSUME NEW r \in Markers, create_bookmark(r)
      PROVE  StoreStep
  BY <1>4, GetTargetMapped, SelectMapped, ReturnMapped, InsertMapped, RefreshMapped
     DEF create_bookmark, Reqs
<1>5. CASE UNCHANGED vars
  <2>1. UNCHANGED <<rows, req>>
    BY <1>5 DEF vars
  <2>2. \A k \in StoreKeys : StoredAt(k)' = StoredAt(k)
    BY <2>1, StoreUnchanged
  <2>3. \A q \in Reqs : AbstractPc(q)' = AbstractPc(q)
    BY <2>1, PcUnchanged
  <2>4. QED
    BY <2>1, <2>2, <2>3 DEF StoreStep, StoreStutters, Stored, Pcs, ReqKeys, ReqKey, Key, Votes,
                            Answers, Firsts
<1>6. QED
  BY <1>1, <1>2, <1>3, <1>4, <1>5 DEF Next

\* Every vote and every bookmark takes effect at once, between its first statement and
\* its answer, and is answered with a value the row then had; a submission that fails
\* for its key had no effect.  This for any number of users, requests, targets and runs
\* of the seed script.
THEOREM Refinement == Spec => SubmissionsAreUpserts
<1>1. Init => Store!Init
  BY InitMapped
<1>2. Inv /\ Inv' /\ [Next]_vars => [Store!Next]_(Store!vars)
  BY NextMapped DEF StoreStep, StoreStutters, Stored, Pcs, ReqKeys, ReqKey, Votes, Answers,
                    Firsts, Store!vars
<1>3. QED
  BY <1>1, <1>2, Invariance, PTL DEF Spec, Store!Spec, SubmissionsAreUpserts
=============================================================================
