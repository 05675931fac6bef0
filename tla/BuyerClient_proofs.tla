------------------------- MODULE BuyerClient_proofs -------------------------
(***************************************************************************)
(* Theorems about the buyer clients, for any number of runs, state files   *)
(* and quotes, and crashes anywhere.                                       *)
(***************************************************************************)
EXTENDS BuyerClient, FiniteSetTheorems, TLAPS

-----------------------------------------------------------------------------
(* The inductive invariant.  A run x is looked at as a record. *)

Uses(x, q) == x # None /\ x.quote = q
Quoting(x) == x.pc = "saving" /\ x.phase = "quoted"
Claiming(x) == x.pc = "checking" \/ (x.pc = "saving" /\ x.phase = "payment_in_progress")
WillPay(x) == Claiming(x) \/ x.pc = "paying"
Final == {"delivered", "needs_review"}
\* It has claimed a payment and not yet sealed or lost its proof.
Paying(x) ==
  x.pc \in {"checking", "paying"} \/ (x.pc = "saving" /\ x.phase \notin {"quoted"} \cup Final)

FileUses(f, q) == Exists(f) /\ file[f].quote = q
Where(q, f) ==
  FileUses(f, q) \/ \E p \in Procs : Uses(proc[p], q) /\ proc[p].path = f

\* Quotes are numbered as they come.
Numbered ==
  /\ \A p \in Procs : proc[p] # None => proc[p].quote <= quotes
  /\ \A f \in Paths : Exists(f) => file[f].quote <= quotes
  /\ \A q \in Quotes : q > quotes => pays[q] = 0

\* A quote lives at one path.
OnePath ==
  \A q \in Quotes : \A f, g \in Paths : Where(q, f) /\ Where(q, g) => f = g

\* A quote not yet saved is known to its own run only.
Unsaved ==
  \A p \in Procs : proc[p] # None /\ Quoting(proc[p]) =>
    /\ pays[proc[p].quote] = 0
    /\ \A f \in Paths : ~FileUses(f, proc[p].quote)
    /\ \A o \in Procs \ {p} : ~Uses(proc[o], proc[p].quote)

\* A quote whose file says 'quoted' is not paid, and runs at most claim it.
Unclaimed ==
  \A f \in Paths : Exists(f) /\ file[f].phase = "quoted" =>
    /\ pays[file[f].quote] = 0
    /\ \A p \in Procs : Uses(proc[p], file[f].quote) => Claiming(proc[p])

\* Without a race, one run claims and pays a quote, and its proof is sealed after.
OnePayer ==
  \A q \in Quotes \ raced :
    /\ pays[q] <= 1
    /\ \A p \in Procs : Uses(proc[p], q) /\ WillPay(proc[p]) => pays[q] = 0
    /\ \A p \in Procs : Uses(proc[p], q) /\ Paying(proc[p]) =>
         /\ ~Sealed(q)
         /\ \A o \in Procs \ {p} : Uses(proc[o], q) => ~Paying(proc[o])

\* A run that records an end has heard it from the service.
Heard ==
  \A p \in Procs : proc[p] # None /\ proc[p].pc = "saving" =>
    /\ proc[p].phase = "delivered" => mission = "delivered"
    /\ proc[p].phase = "needs_review" => mission # "executing"

\* Each run pays once, and claims only what nobody has paid.
Payers(q) == {p \in Procs : Uses(proc[p], q) /\ WillPay(proc[p])}
Counted ==
  \A q \in Quotes : pays[q] + Cardinality(Payers(q)) <= Cardinality(Procs)

Shape ==
  /\ file \in [Paths -> Files \cup {None, Torn}]
  /\ proc \in [Procs -> Runs \cup {None}]
  /\ mission \in {"executing", "needs_review", "delivered"}
  /\ quotes \in 0 .. MaxQuotes
  /\ expired \subseteq 1 .. quotes /\ raced \subseteq 1 .. quotes
  /\ pays \in [Quotes -> Nat]

Started == started \subseteq Procs

Ind ==
  /\ Shape /\ Started /\ Numbered /\ OnePath /\ Unsaved /\ Unclaimed /\ OnePayer /\ Heard
  /\ Counted /\ DeliveredIsTrue

-----------------------------------------------------------------------------
(* What the steps do, leaving started aside. *)

\* The run p goes from x to y; the files, the payments and the quote numbers stay.
Moves(p, y) == proc' = [proc EXCEPT ![p] = y]

\* y goes on with what x was about.
Follows(x, y) == y.quote = x.quote /\ y.path = x.path /\ y.flow = x.flow

\* After a write of phase x.phase.
Wrote(x, y) ==
  \/ y = None
  \/ /\ y \in Runs /\ Follows(x, y)
     /\ \/ x.phase = "payment_in_progress" /\ y.pc = "paying"
        \/ /\ x.phase = "paid_response_received"
           /\ y.pc = "saving" /\ y.phase = "paid_pending_verification"
        \/ x.phase = "paid_pending_verification" /\ y.pc = "verifying"

Content(x) == [flow |-> x.flow, phase |-> x.phase, quote |-> x.quote]

Saved(p) ==
  LET x == proc[p]
  IN  /\ x \in Runs /\ x.pc = "saving"
      /\ UNCHANGED <<mission, quotes, expired, pays, raced>>
      /\ \/ file' = file /\ Moves(p, None)
         \/ file' = [file EXCEPT ![x.path] = Torn] /\ Moves(p, None)
         \/ /\ file' = [file EXCEPT ![x.path] = Content(x)]
            /\ Quoting(x) /\ x.flow = "main" => file[x.path] = None
            /\ \E y : Moves(p, y) /\ Wrote(x, y)

\* A confirmation finds the action executing, or ends.
Tested(p) ==
  LET x == proc[p]
  IN  /\ x \in Runs /\ x.pc = "checking"
      /\ \E y : /\ Moves(p, y)
                /\ \/ y = None
                   \/ /\ y \in Runs /\ Follows(x, y) /\ y.pc = "saving"
                      /\ y.phase = "payment_in_progress"
      /\ UNCHANGED <<file, mission, quotes, expired, pays, raced>>

\* A payment, made or refused by the wallet.
Paid(p) ==
  LET x == proc[p]
  IN  /\ x \in Runs /\ x.pc = "paying"
      /\ UNCHANGED <<file, mission, quotes, expired, raced>>
      /\ \E y : /\ Moves(p, y)
                /\ \/ y = None
                   \/ /\ y \in Runs /\ Follows(x, y) /\ y.pc = "saving"
                      /\ y.phase \notin {"quoted", "payment_in_progress"} \cup Final
      /\ \/ pays' = [pays EXCEPT ![x.quote] = @ + 1]
         \/ pays' = pays

Heeded(p) ==
  LET x == proc[p]
  IN  /\ x \in Runs /\ x.pc = "verifying"
      /\ UNCHANGED <<file, quotes, expired, pays, raced>>
      /\ mission' \in IF mission = "delivered" THEN {"delivered"}
                      ELSE {mission, "needs_review", "delivered"}
      /\ \E y : /\ Moves(p, y)
                /\ \/ y = None
                   \/ /\ y \in Runs /\ Follows(x, y) /\ y.pc = "saving"
                      /\ y.phase \in Final
                      /\ y.phase = "delivered" => mission' = "delivered"
                      /\ mission' # "executing"

\* A run begins: a quote, a confirmation or a recovery.
Loaded(p, f) ==
  LET q == file[f].quote
  IN  /\ file[f] \in Files /\ file[f].phase = "quoted"
      /\ \E y : /\ Moves(p, y) /\ y \in Runs /\ Claiming(y)
                /\ y.quote = q /\ y.path = f
      /\ raced' = IF AlsoRead(p, q) THEN raced \cup {q} ELSE raced
      /\ UNCHANGED <<file, mission, quotes, expired, pays>>

Resumed(p, f) ==
  /\ file[f] \in Files /\ file[f].phase = "paid_pending_verification"
  /\ \E y : /\ Moves(p, y) /\ y \in Runs /\ y.pc = "verifying"
            /\ y.quote = file[f].quote /\ y.path = f
  /\ UNCHANGED <<file, mission, quotes, expired, pays, raced>>

Quoted(p, f) ==
  /\ quotes' = quotes + 1 /\ quotes' <= MaxQuotes
  /\ \E y : /\ Moves(p, y) /\ y \in Runs /\ Quoting(y)
            /\ y.quote = quotes + 1 /\ y.path = f
  /\ UNCHANGED <<file, mission, expired, pays, raced>>

Ended(p) ==
  Moves(p, None) /\ UNCHANGED <<file, mission, quotes, expired, pays, raced>>

Aged ==
  /\ expired' \subseteq 1 .. quotes
  /\ UNCHANGED <<file, proc, mission, quotes, pays, raced>>

Kinds ==
  \/ Aged
  \/ \E p \in Procs :
       \/ Tested(p) \/ Saved(p) \/ Tested(p) \/ Paid(p) \/ Heeded(p) \/ Ended(p)
       \/ \E f \in Paths : proc[p] = None /\ (Loaded(p, f) \/ Resumed(p, f) \/ Quoted(p, f))

LEMMA RunType ==
  ASSUME Shape, NEW p \in Procs, proc[p] # None
  PROVE  /\ proc[p] \in Runs /\ proc[p].path \in Paths /\ proc[p].quote \in Quotes
         /\ proc[p].quote \in Int
         /\ proc[p].phase \in Phases /\ proc[p].flow \in Flows
BY BuyerAssumption DEF Shape, Runs, Quotes

LEMMA FileType ==
  ASSUME Shape, NEW f \in Paths, Exists(f)
  PROVE  /\ file[f] \in Files /\ file[f].quote \in Quotes /\ file[f].quote \in Int
         /\ file[f].flow \in Flows /\ file[f].phase \in Phases
BY BuyerAssumption DEF Shape, Files, Exists, Quotes

\* Goes and Saving, as records.
LEMMA SavingRecord ==
  ASSUME NEW p \in Procs, proc[p] \in Runs, NEW phase \in Phases, NEW proof \in BOOLEAN,
         Saving(p, phase, proof)
  PROVE  \E y \in Runs : /\ Moves(p, y) /\ Follows(proc[p], y)
                         /\ y.pc = "saving" /\ y.phase = phase
<1> DEFINE y == [proc[p] EXCEPT !.pc = "saving", !.phase = phase, !.proof = proof]
<1>1. y \in Runs /\ Follows(proc[p], y) /\ y.pc = "saving" /\ y.phase = phase
  BY DEF Runs, Follows
<1>2. Moves(p, y)
  BY DEF Saving, Goes, Moves
<1> HIDE DEF y
<1> QED BY <1>1, <1>2

LEMMA PcRecord ==
  ASSUME NEW p \in Procs, proc[p] \in Runs, NEW pc \in {"saving", "paying", "verifying"},
         Goes(p, [proc[p] EXCEPT !.pc = pc])
  PROVE  \E y \in Runs : /\ Moves(p, y) /\ Follows(proc[p], y) /\ y.pc = pc
                         /\ y.phase = proc[p].phase
<1> DEFINE y == [proc[p] EXCEPT !.pc = pc]
<1>1. y \in Runs /\ Follows(proc[p], y) /\ y.pc = pc /\ y.phase = proc[p].phase
  BY DEF Runs, Follows
<1>2. Moves(p, y)
  BY DEF Goes, Moves
<1> HIDE DEF y
<1> QED BY <1>1, <1>2

LEMMA CheckKind ==
  ASSUME Shape, NEW p \in Procs, Check(p)
  PROVE  Tested(p)
<1>1. proc[p] \in Runs /\ proc[p].pc = "checking"
  BY RunType DEF Check, At
<1>2. "payment_in_progress" \in Phases
  BY DEF Phases
<1>3. CASE Saving(p, "payment_in_progress", FALSE)
  <2>1. PICK proof \in BOOLEAN : Saving(p, "payment_in_progress", proof)
    BY <1>3
  <2> QED BY <1>1, <1>2, <2>1, SavingRecord DEF Check, Tested
<1>4. CASE Ends(p)
  BY <1>1, <1>4 DEF Check, Tested, Ends, Goes, Moves
<1> QED BY <1>3, <1>4 DEF Check

LEMMA SaveKind ==
  ASSUME Shape, NEW p \in Procs, Save(p)
  PROVE  Saved(p)
<1>1. proc[p] \in Runs /\ proc[p].pc = "saving"
  BY RunType DEF Save, At
<1>2. ASSUME AfterSave(p) PROVE \E y : Moves(p, y) /\ Wrote(proc[p], y)
  <2>1. CASE proc[p].phase = "payment_in_progress"
    <3>1. Goes(p, [proc[p] EXCEPT !.pc = "paying"])
      BY <1>2, <2>1 DEF AfterSave
    <3> QED BY <1>1, <2>1, <3>1, PcRecord DEF Wrote
  <2>2. CASE proc[p].phase = "paid_response_received" /\ proc[p].proof
    <3>1. Saving(p, "paid_pending_verification", TRUE)
      BY <1>2, <2>2 DEF AfterSave
    <3>2. PICK proof \in BOOLEAN : Saving(p, "paid_pending_verification", proof)
      BY <3>1
    <3>3. "paid_pending_verification" \in Phases
      BY DEF Phases
    <3> QED BY <1>1, <2>2, <3>2, <3>3, SavingRecord DEF Wrote
  <2>3. CASE proc[p].phase = "paid_pending_verification"
    <3>1. Goes(p, [proc[p] EXCEPT !.pc = "verifying"])
      BY <1>2, <2>3 DEF AfterSave
    <3> QED BY <1>1, <2>3, <3>1, PcRecord DEF Wrote
  <2>4. CASE ~(\/ proc[p].phase = "payment_in_progress"
               \/ proc[p].phase = "paid_response_received" /\ proc[p].proof
               \/ proc[p].phase = "paid_pending_verification")
    <3>1. Ends(p)
      BY <1>2, <2>4 DEF AfterSave
    <3> QED BY <3>1 DEF Ends, Goes, Moves, Wrote
  <2> QED BY <2>1, <2>2, <2>3, <2>4
<1>3. Ends(p) => Moves(p, None)
  BY DEF Ends, Goes, Moves
<1> QED BY <1>1, <1>2, <1>3 DEF Save, Saved, Content, Exclusive, Quoting

LEMMA PayKind ==
  ASSUME Shape, NEW p \in Procs, PayMain(p) \/ PayCompat(p)
  PROVE  Paid(p)
<1>1. proc[p] \in Runs /\ proc[p].pc = "paying"
  BY RunType DEF PayMain, PayCompat, At
<1>2. \/ Ends(p)
      \/ \E phase \in Phases \ ({"quoted", "payment_in_progress"} \cup Final),
            proof \in BOOLEAN : Saving(p, phase, proof)
  BY DEF PayMain, PayCompat, Phases, Final
<1>3. \E y : /\ Moves(p, y)
             /\ \/ y = None
                \/ /\ y \in Runs /\ Follows(proc[p], y) /\ y.pc = "saving"
                   /\ y.phase \notin {"quoted", "payment_in_progress"} \cup Final
  BY <1>1, <1>2, SavingRecord DEF Ends, Goes, Moves
<1> QED BY <1>1, <1>3 DEF PayMain, PayCompat, Paid

LEMMA VerifyKind ==
  ASSUME Shape, NEW p \in Procs, Verify(p)
  PROVE  Heeded(p)
<1>1. proc[p] \in Runs /\ proc[p].pc = "verifying"
  BY RunType DEF Verify, At
<1>2. Refused(p) => Moves(p, None)
  BY DEF Refused, Ends, Goes, Moves
<1>3. ASSUME Saving(p, FinalPhase(mission'), FALSE),
             mission' \in {"needs_review", "delivered"}
      PROVE  \E y : /\ Moves(p, y) /\ y \in Runs /\ Follows(proc[p], y)
                    /\ y.pc = "saving" /\ y.phase \in Final
                    /\ y.phase = "delivered" => mission' = "delivered"
  <2>1. /\ FinalPhase(mission') \in Final /\ FinalPhase(mission') \in Phases
        /\ FinalPhase(mission') = "delivered" => mission' = "delivered"
    BY DEF FinalPhase, Final, Phases
  <2>2. PICK phase \in Phases : phase = FinalPhase(mission')
    BY <2>1
  <2>3. PICK proof \in BOOLEAN : Saving(p, phase, proof)
    BY <1>3, <2>2
  <2>4. PICK y \in Runs : /\ Moves(p, y) /\ Follows(proc[p], y)
                          /\ y.pc = "saving" /\ y.phase = phase
    BY <1>1, <2>3, SavingRecord
  <2> QED BY <2>1, <2>2, <2>4
<1>4. /\ mission' \in IF mission = "delivered" THEN {"delivered"}
                      ELSE {mission, "needs_review", "delivered"}
      /\ \/ Refused(p)
         \/ /\ Saving(p, FinalPhase(mission'), FALSE)
            /\ mission' \in {"needs_review", "delivered"}
  BY DEF Verify, Shape
<1>5. \E y : /\ Moves(p, y)
             /\ \/ y = None
                \/ /\ y \in Runs /\ Follows(proc[p], y) /\ y.pc = "saving"
                   /\ y.phase \in Final
                   /\ y.phase = "delivered" => mission' = "delivered"
                   /\ mission' # "executing"
  BY <1>2, <1>3, <1>4
<1> QED BY <1>1, <1>4, <1>5 DEF Verify, Heeded

LEMMA BeginKind ==
  ASSUME Shape, NEW p \in Procs, NEW f \in Paths,
         Load(p, f) \/ Resume(p, f) \/ \E flow \in Flows : Quote(p, flow, f)
  PROVE  proc[p] = None /\ (Loaded(p, f) \/ Resumed(p, f) \/ Quoted(p, f))
<1>1. CASE Load(p, f)
  <2> DEFINE y == [pc |-> IF file[f].flow = "main" THEN "saving" ELSE "checking",
                   flow |-> file[f].flow, path |-> f, quote |-> file[f].quote,
                   phase |-> "payment_in_progress", proof |-> FALSE]
  <2>1. Exists(f) /\ file[f].phase = "quoted"
    BY <1>1 DEF Load, Payable
  <2>2. y \in Runs
    BY <2>1, FileType DEF Runs, Phases
  <2>3. Claiming(y) /\ y.quote = file[f].quote /\ y.path = f
    BY DEF Claiming
  <2>4. Moves(p, y)
    BY <1>1 DEF Load, Goes, Moves
  <2> HIDE DEF y
  <2> QED BY <1>1, <2>1, <2>2, <2>3, <2>4, FileType DEF Load, Turns, Loaded
<1>2. CASE Resume(p, f)
  <2> DEFINE y == [pc |-> "verifying", flow |-> "main", path |-> f,
                   quote |-> file[f].quote, phase |-> "paid_pending_verification",
                   proof |-> TRUE]
  <2>1. Exists(f) /\ file[f].phase = "paid_pending_verification"
    BY <1>2 DEF Resume
  <2>2. y \in Runs
    BY <2>1, FileType DEF Runs, Phases, Flows
  <2>3. y.pc = "verifying" /\ y.quote = file[f].quote /\ y.path = f
    OBVIOUS
  <2>4. Moves(p, y)
    BY <1>2 DEF Resume, Goes, Moves
  <2> HIDE DEF y
  <2> QED BY <1>2, <2>1, <2>2, <2>3, <2>4, FileType DEF Resume, Turns, Resumed
<1>3. ASSUME NEW flow \in Flows, Quote(p, flow, f) PROVE proc[p] = None /\ Quoted(p, f)
  <2> DEFINE y == [pc |-> "saving", flow |-> flow, path |-> f, quote |-> quotes + 1,
                   phase |-> "quoted", proof |-> FALSE]
  <2>1. quotes + 1 \in Quotes /\ quotes + 1 <= MaxQuotes
    BY <1>3, BuyerAssumption DEF Quote, Shape, Quotes
  <2>2. y \in Runs
    BY <2>1 DEF Runs, Phases
  <2>3. Quoting(y) /\ y.quote = quotes + 1 /\ y.path = f
    BY DEF Quoting
  <2>4. Moves(p, y)
    BY <1>3 DEF Quote, Goes, Moves
  <2> HIDE DEF y
  <2> QED BY <1>3, <2>1, <2>2, <2>3, <2>4 DEF Quote, Turns, Quoted
<1> QED BY <1>1, <1>2, <1>3

LEMMA StepKinds ==
  ASSUME Shape, Next
  PROVE  Kinds
<1>1. ASSUME NEW p \in Procs, Crash(p) PROVE Ended(p)
  BY <1>1 DEF Crash, Ends, Goes, Ended, Moves
<1>2. Expire => Aged
  BY DEF Expire, Aged, Shape
<1>3. ASSUME NEW p \in Procs, Start(p) PROVE Aged
  BY <1>3 DEF Start, Aged, Shape
<1> QED BY <1>1, <1>2, <1>3, CheckKind, SaveKind, PayKind, VerifyKind, BeginKind DEF Next, Kinds

-----------------------------------------------------------------------------
(* Each part of the invariant is kept. *)

LEMMA ShapeStep ==
  ASSUME Ind, Kinds
  PROVE  Shape'
<1> USE DEF Ind
<1>1. CASE Aged
  BY <1>1 DEF Aged, Shape
<1>2. ASSUME NEW p \in Procs, Saved(p) PROVE Shape'
  <2>1. Content(proc[p]) \in Files /\ proc[p].path \in Paths
    BY <1>2 DEF Saved, Content, Runs, Files
  <2>2. file' \in [Paths -> Files \cup {None, Torn}]
    BY <1>2, <2>1 DEF Saved, Shape
  <2>3. proc' \in [Procs -> Runs \cup {None}]
    BY <1>2 DEF Saved, Wrote, Moves, Shape
  <2> QED BY <1>2, <2>2, <2>3 DEF Saved, Shape
<1>3. ASSUME NEW p \in Procs, Paid(p) PROVE Shape'
  <2>1. proc' \in [Procs -> Runs \cup {None}]
    BY <1>3 DEF Paid, Moves, Shape
  <2>2. proc[p].quote \in Quotes
    BY <1>3 DEF Paid, Runs
  <2>3. pays' \in [Quotes -> Nat]
    BY <1>3, <2>2 DEF Paid, Shape
  <2> QED BY <1>3, <2>1, <2>3 DEF Paid, Shape
<1>4. ASSUME NEW p \in Procs, Heeded(p) PROVE Shape'
  <2>1. proc' \in [Procs -> Runs \cup {None}]
    BY <1>4 DEF Heeded, Moves, Shape
  <2> QED BY <1>4, <2>1 DEF Heeded, Shape
<1>5. ASSUME NEW p \in Procs, Ended(p) PROVE Shape'
  BY <1>5 DEF Ended, Moves, Shape
<1>9. ASSUME NEW p \in Procs, Tested(p) PROVE Shape'
  BY <1>9 DEF Tested, Moves, Shape
<1>6. ASSUME NEW p \in Procs, NEW f \in Paths, Resumed(p, f) PROVE Shape'
  BY <1>6 DEF Resumed, Moves, Shape
<1>7. ASSUME NEW p \in Procs, NEW f \in Paths, Quoted(p, f) PROVE Shape'
  <2>1. proc' \in [Procs -> Runs \cup {None}]
    BY <1>7 DEF Quoted, Moves, Shape
  <2>2. quotes' \in 0 .. MaxQuotes /\ 1 .. quotes \subseteq 1 .. quotes'
    BY <1>7, BuyerAssumption DEF Quoted, Shape
  <2> QED BY <1>7, <2>1, <2>2 DEF Quoted, Shape
<1>8. ASSUME NEW p \in Procs, NEW f \in Paths, Loaded(p, f) PROVE Shape'
  <2>1. proc' \in [Procs -> Runs \cup {None}]
    BY <1>8 DEF Loaded, Moves, Shape
  <2>2. file[f].quote \in 1 .. quotes
    <3>1. Exists(f) /\ file[f].quote \in Quotes
      BY <1>8, AbsentAssumption DEF Loaded, Files, Exists
    <3> QED BY <1>8, <3>1, BuyerAssumption DEF Numbered, Quotes, Shape
  <2> QED BY <1>8, <2>1, <2>2 DEF Loaded, Shape
<1> QED BY <1>1, <1>2, <1>3, <1>4, <1>5, <1>6, <1>7, <1>8, <1>9 DEF Kinds

\* Only a quote run brings a quote to a path.
LEMMA WhereStep ==
  ASSUME Ind, Kinds, NEW q \in Quotes, NEW f \in Paths, Where(q, f)'
  PROVE  Where(q, f) \/ (q = quotes + 1 /\ \E p \in Procs : Quoted(p, f))
<1> USE DEF Ind
<1>1. ASSUME file' = file, NEW p \in Procs, NEW y, Moves(p, y),
             y = None \/ (y.quote = proc[p].quote /\ y.path = proc[p].path
                          /\ proc[p] # None)
             \/ FileUses(y.path, y.quote)
      PROVE  Where(q, f)
  BY <1>1 DEF Where, FileUses, Exists, Uses, Moves, Shape
<1>2. CASE Aged
  BY <1>2 DEF Aged, Where, FileUses, Exists, Uses
<1>3. ASSUME NEW p \in Procs, Saved(p) PROVE Where(q, f)
  <2>1. proc[p] # None /\ proc[p].path \in Paths
    BY <1>3, AbsentAssumption DEF Saved, Runs
  <2>2. CASE file' = file /\ Moves(p, None)
    BY <1>1, <2>2
  <2>3. CASE file' = [file EXCEPT ![proc[p].path] = Torn] /\ Moves(p, None)
    BY <2>1, <2>3 DEF Where, FileUses, Exists, Uses, Moves, Shape
  <2>4. ASSUME file' = [file EXCEPT ![proc[p].path] = Content(proc[p])], NEW y,
               Moves(p, y), Wrote(proc[p], y)
        PROVE  Where(q, f)
    BY <2>1, <2>4 DEF Where, FileUses, Exists, Uses, Moves, Shape, Content, Wrote, Follows
  <2> QED BY <1>3, <2>2, <2>3, <2>4 DEF Saved
<1>4. ASSUME NEW p \in Procs, Tested(p) \/ Paid(p) \/ Heeded(p) \/ Ended(p) PROVE Where(q, f)
  <2>1. proc[p] \in Runs => proc[p] # None
    BY AbsentAssumption
  <2> QED BY <1>1, <1>4, <2>1 DEF Tested, Paid, Heeded, Ended, Follows
<1>5. ASSUME NEW p \in Procs, NEW g \in Paths, Loaded(p, g) \/ Resumed(p, g)
      PROVE  Where(q, f)
  <2>1. file[g] \in Files => Exists(g)
    BY AbsentAssumption DEF Exists
  <2> QED BY <1>1, <1>5, <2>1 DEF Loaded, Resumed, FileUses
<1>6. ASSUME NEW p \in Procs, NEW g \in Paths, Quoted(p, g)
      PROVE  Where(q, f) \/ (q = quotes + 1 /\ f = g)
  BY <1>6 DEF Quoted, Where, FileUses, Exists, Uses, Moves, Shape
<1> QED BY <1>2, <1>3, <1>4, <1>5, <1>6 DEF Kinds

\* The quote of a run or a file was given out before.
LEMMA WhereNumbered ==
  ASSUME Shape, Numbered, NEW q \in Quotes, NEW f \in Paths, Where(q, f)
  PROVE  q <= quotes
BY DEF Numbered, Where, FileUses, Uses

LEMMA OnePathStep ==
  ASSUME Ind, Kinds
  PROVE  OnePath'
<1> SUFFICES ASSUME NEW q \in Quotes, NEW f \in Paths, NEW g \in Paths,
                    Where(q, f)', Where(q, g)'
             PROVE  f = g
  BY DEF OnePath
<1>1. CASE q <= quotes
  <2>1. q # quotes + 1
    BY <1>1, BuyerAssumption DEF Quotes, Ind, Shape
  <2> QED BY <2>1, WhereStep DEF Ind, OnePath
<1>2. CASE ~(q <= quotes)
  <2>1. ~Where(q, f) /\ ~Where(q, g)
    BY <1>2, WhereNumbered DEF Ind
  <2>2. PICK p \in Procs : Quoted(p, f)
    BY <2>1, WhereStep
  <2>3. PICK o \in Procs : Quoted(o, g)
    BY <2>1, WhereStep
  <2>4. \A x \in Procs : proc[x] = None \/ proc[x].quote <= quotes
    BY DEF Ind, Numbered
  <2>5. proc'[p] # None /\ proc'[p].quote = quotes + 1 /\ proc'[p].path = f
    BY <2>2, AbsentAssumption DEF Quoted, Moves, Ind, Shape
  <2>6. proc'[o] # None /\ proc'[o].quote = quotes + 1 /\ proc'[o].path = g
    BY <2>3, AbsentAssumption DEF Quoted, Moves, Ind, Shape
  <2>7. quotes \in Int
    BY BuyerAssumption DEF Ind, Shape
  <2>8. p = o
    BY <2>2, <2>3, <2>4, <2>5, <2>6, <2>7 DEF Quoted, Moves, Ind, Shape
  <2> QED BY <2>5, <2>6, <2>8
<1> QED BY <1>1, <1>2

LEMMA NumberedStep ==
  ASSUME Ind, Kinds, Shape'
  PROVE  Numbered'
<1>1. /\ quotes \in Int /\ quotes' \in Int /\ quotes <= quotes'
      /\ \A p \in Procs, f \in Paths : Quoted(p, f) => quotes' = quotes + 1
  BY BuyerAssumption DEF Ind, Shape, Kinds, Aged, Saved, Tested, Paid, Heeded, Ended, Loaded,
     Resumed, Quoted
<1>2. \A q \in Quotes, f \in Paths : Where(q, f)' => q <= quotes'
  <2> SUFFICES ASSUME NEW q \in Quotes, NEW f \in Paths, Where(q, f)'
               PROVE  q <= quotes'
    OBVIOUS
  <2>1. CASE Where(q, f)
    <3>1. q <= quotes
      BY <2>1, WhereNumbered DEF Ind
    <3> QED BY <1>1, <3>1, BuyerAssumption DEF Quotes
  <2>2. CASE q = quotes + 1 /\ \E p \in Procs : Quoted(p, f)
    BY <1>1, <2>2
  <2> QED BY <2>1, <2>2, WhereStep
<1>3. ASSUME NEW p \in Procs, proc'[p] # None PROVE proc'[p].quote <= quotes'
  <2>1. proc'[p] \in Runs
    BY <1>3 DEF Shape
  <2>2. PICK q \in Quotes, f \in Paths : q = proc'[p].quote /\ f = proc'[p].path
    BY <2>1 DEF Runs
  <2>3. Where(q, f)'
    BY <1>3, <2>2 DEF Where, Uses
  <2> QED BY <1>2, <2>2, <2>3
<1>4. ASSUME NEW f \in Paths, Exists(f)' PROVE file'[f].quote <= quotes'
  <2>1. PICK q \in Quotes : q = file'[f].quote
    BY <1>4 DEF Shape, Exists, Files
  <2>2. Where(q, f)'
    BY <1>4, <2>1 DEF Where, FileUses
  <2> QED BY <1>2, <2>1, <2>2
<1>5. ASSUME NEW q \in Quotes, q > quotes' PROVE pays'[q] = 0
  <2>1. q > quotes /\ pays[q] = 0
    BY <1>1, <1>5, BuyerAssumption DEF Ind, Numbered, Quotes
  <2>2. ASSUME NEW p \in Procs, proc[p] \in Runs PROVE proc[p].quote # q
    <3>1. proc[p].quote <= quotes /\ proc[p].quote \in Quotes
      BY <2>2, AbsentAssumption DEF Ind, Numbered, Runs
    <3> QED BY <1>1, <2>1, <3>1, BuyerAssumption DEF Quotes
  <2> QED BY <2>1, <2>2 DEF Kinds, Aged, Saved, Tested, Paid, Heeded, Ended, Loaded, Resumed,
       Quoted, Ind, Shape
<1> QED BY <1>3, <1>4, <1>5 DEF Numbered

LEMMA RunsAfter ==
  ASSUME Shape, NEW p \in Procs, NEW y, Moves(p, y)
  PROVE  proc'[p] = y /\ \A o \in Procs \ {p} : proc'[o] = proc[o]
BY DEF Moves, Shape

LEMMA UnsavedStep ==
  ASSUME Ind, Kinds
  PROVE  Unsaved'
<1> USE DEF Ind
<1> SUFFICES ASSUME NEW p \in Procs, proc'[p] # None, Quoting(proc'[p]),
                    NEW q, q = proc'[p].quote
             PROVE  /\ pays'[q] = 0
                    /\ \A f \in Paths : ~FileUses(f, q)'
                    /\ \A o \in Procs \ {p} : ~Uses(proc'[o], q)
  BY DEF Unsaved, FileUses, Exists
<1>1. CASE \E f \in Paths : Quoted(p, f)
  <2>1. PICK f \in Paths : Quoted(p, f)
    BY <1>1
  <2>2. q = quotes + 1 /\ q \in Quotes /\ quotes \in Int /\ ~(q <= quotes)
    BY <2>1, RunsAfter, BuyerAssumption DEF Quoted, Quotes, Shape
  <2>3. \A g \in Paths : ~Where(q, g)
    BY <2>2, WhereNumbered
  <2>4. \A g \in Paths : ~FileUses(g, q)
    BY <2>3 DEF Where
  <2>5. \A o \in Procs : ~Uses(proc[o], q)
    BY <2>2 DEF Numbered, Uses
  <2>6. pays[q] = 0
    BY <2>2 DEF Numbered
  <2> QED BY <2>1, <2>4, <2>5, <2>6, RunsAfter DEF Quoted, FileUses, Exists
<1>2. CASE ~\E f \in Paths : Quoted(p, f)
  <2>1. proc[p] # None /\ proc'[p] = proc[p]
    <3>1. ASSUME NEW o \in Procs, NEW y, Moves(o, y), y = None \/ ~Quoting(y)
          PROVE  proc[p] # None /\ proc'[p] = proc[p]
      BY <3>1, RunsAfter
    <3>2. CASE Aged
      BY <3>2 DEF Aged
    <3>3. ASSUME NEW o \in Procs, Saved(o)
          PROVE  \E y : Moves(o, y) /\ (y = None \/ ~Quoting(y))
      BY <3>3 DEF Saved, Wrote, Quoting
    <3>4. ASSUME NEW o \in Procs, Tested(o) \/ Paid(o) \/ Heeded(o) \/ Ended(o)
          PROVE  \E y : Moves(o, y) /\ (y = None \/ ~Quoting(y))
      BY <3>4 DEF Tested, Paid, Heeded, Ended, Quoting, Final
    <3>5. ASSUME NEW o \in Procs, NEW f \in Paths, Loaded(o, f) \/ Resumed(o, f)
          PROVE  \E y : Moves(o, y) /\ (y = None \/ ~Quoting(y))
      BY <3>5 DEF Loaded, Resumed, Quoting, Claiming
    <3>6. ASSUME NEW o \in Procs, NEW f \in Paths, Quoted(o, f)
          PROVE  proc[p] # None /\ proc'[p] = proc[p]
      <4>1. o # p
        BY <1>2, <3>6
      <4> QED BY <3>6, <4>1, RunsAfter DEF Quoted
    <3> QED BY <3>1, <3>2, <3>3, <3>4, <3>5, <3>6 DEF Kinds
  <2>2. /\ q \in Quotes /\ q <= quotes /\ quotes \in Int /\ q \in Int
        /\ pays[q] = 0 /\ proc[p].pc = "saving" /\ Quoting(proc[p])
        /\ \A f \in Paths : ~FileUses(f, q)
        /\ \A o \in Procs \ {p} : ~Uses(proc[o], q)
    BY <2>1, RunType, BuyerAssumption DEF Unsaved, Numbered, Quoting, Shape
  <2>3. CASE Aged
    BY <2>2, <2>3 DEF Aged, FileUses, Exists
  <2>4. ASSUME NEW o \in Procs, Saved(o)
        PROVE  /\ pays'[q] = 0
               /\ \A f \in Paths : ~FileUses(f, q)'
               /\ \A x \in Procs \ {p} : ~Uses(proc'[x], q)
    <3>1. o # p
      BY <2>1, <2>2, <2>4, RunsAfter DEF Saved, Wrote, Quoting
    <3>2. proc[o] # None /\ proc[o].quote # q /\ proc[o].path \in Paths
      BY <2>2, <2>4, <3>1, AbsentAssumption DEF Saved, Uses, Runs
    <3>3. \A f \in Paths : ~FileUses(f, q)'
      BY <2>2, <2>4, <3>2 DEF Saved, FileUses, Exists, Content, Shape
    <3>4. \A x \in Procs \ {p} : ~Uses(proc'[x], q)
      BY <2>2, <2>4, <3>2, RunsAfter DEF Saved, Wrote, Follows, Uses
    <3> QED BY <2>2, <2>4, <3>3, <3>4 DEF Saved
  <2>5. ASSUME NEW o \in Procs, Tested(o) \/ Paid(o) \/ Heeded(o) \/ Ended(o)
        PROVE  /\ pays'[q] = 0
               /\ \A f \in Paths : ~FileUses(f, q)'
               /\ \A x \in Procs \ {p} : ~Uses(proc'[x], q)
    <3>1. o # p
      BY <2>1, <2>2, <2>5, RunsAfter DEF Tested, Paid, Heeded, Ended
    <3>2. proc[o] # None => proc[o].quote # q
      BY <2>2, <3>1 DEF Uses
    <3>3. proc[o] \in Runs => proc[o] # None /\ proc[o].quote \in Quotes
      BY AbsentAssumption DEF Runs
    <3>4. pays'[q] = 0
      BY <2>2, <2>5, <3>2, <3>3 DEF Tested, Paid, Heeded, Ended, Shape
    <3>5. \A x \in Procs \ {p} : ~Uses(proc'[x], q)
      BY <2>2, <2>5, <3>2, <3>3, RunsAfter DEF Tested, Paid, Heeded, Ended, Follows, Uses
    <3> QED BY <2>2, <2>5, <3>4, <3>5 DEF Tested, Paid, Heeded, Ended, FileUses, Exists
  <2>6. ASSUME NEW o \in Procs, NEW f \in Paths, proc[o] = None,
               Loaded(o, f) \/ Resumed(o, f) \/ Quoted(o, f)
        PROVE  /\ pays'[q] = 0
               /\ \A g \in Paths : ~FileUses(g, q)'
               /\ \A x \in Procs \ {p} : ~Uses(proc'[x], q)
    <3>1. file[f] \in Files => FileUses(f, file[f].quote)
      BY AbsentAssumption DEF FileUses, Exists
    <3>2. \A x \in Procs \ {p} : ~Uses(proc'[x], q)
      BY <2>2, <2>6, <3>1, RunsAfter DEF Loaded, Resumed, Quoted, Uses
    <3> QED BY <2>2, <2>6, <3>2 DEF Loaded, Resumed, Quoted, FileUses, Exists
  <2> QED BY <2>3, <2>4, <2>5, <2>6 DEF Kinds
<1> QED BY <1>1, <1>2

LEMMA UnclaimedStep ==
  ASSUME Ind, Kinds
  PROVE  Unclaimed'
<1> USE DEF Ind
<1> SUFFICES ASSUME NEW f \in Paths, Exists(f)', file'[f].phase = "quoted",
                    NEW q, q = file'[f].quote
             PROVE  /\ pays'[q] = 0
                    /\ \A p \in Procs : Uses(proc'[p], q) => Claiming(proc'[p])
  BY DEF Unclaimed
<1>1. CASE file'[f] = file[f]
  <2>1. /\ Exists(f) /\ FileUses(f, q) /\ file[f].phase = "quoted" /\ q \in Quotes
        /\ pays[q] = 0 /\ q <= quotes /\ quotes \in Int /\ q \in Int
        /\ \A p \in Procs : Uses(proc[p], q) => Claiming(proc[p])
    BY <1>1, FileType, BuyerAssumption DEF Unclaimed, Exists, FileUses, Numbered, Shape
  <2>2. \A p \in Procs : Uses(proc[p], q) => proc[p].path = f
    BY <2>1, RunType DEF OnePath, Where, Uses
  <2>3. \A g \in Paths : FileUses(g, q) => g = f
    BY <2>1 DEF OnePath, Where
  <2>4. CASE Aged
    BY <2>1, <2>4 DEF Aged
  <2>5. ASSUME NEW p \in Procs, Saved(p)
        PROVE  /\ pays'[q] = 0
               /\ \A x \in Procs : Uses(proc'[x], q) => Claiming(proc'[x])
    <3>1. CASE Moves(p, None)
      BY <2>1, <2>5, <3>1, RunsAfter DEF Saved, Uses
    <3>2. CASE ~Moves(p, None)
      <4>1. PICK y : Moves(p, y) /\ Wrote(proc[p], y) /\ y # None
        BY <2>5, <3>2 DEF Saved
      <4>2. proc[p] # None /\ proc[p].path \in Paths
        BY <2>5, AbsentAssumption DEF Saved, Runs
      <4>3. file' = [file EXCEPT ![proc[p].path] = Content(proc[p])]
        BY <2>5, <3>2 DEF Saved
      <4>4. ~Uses(proc[p], q)
        <5>1. ASSUME Uses(proc[p], q) PROVE FALSE
          <6>1. proc[p].path = f
            BY <2>2, <5>1
          <6>2. file'[f].phase = "payment_in_progress"
            BY <2>1, <2>5, <4>3, <5>1, <6>1 DEF Saved, Content, Claiming, Shape
          <6> QED BY <6>2
        <5> QED BY <5>1
      <4> QED BY <2>1, <2>5, <4>1, <4>2, <4>4, RunsAfter DEF Saved, Wrote, Follows, Uses
    <3> QED BY <3>1, <3>2
  <2>6. ASSUME NEW p \in Procs, Tested(p) \/ Paid(p) \/ Heeded(p) \/ Ended(p)
        PROVE  /\ pays'[q] = 0
               /\ \A x \in Procs : Uses(proc'[x], q) => Claiming(proc'[x])
    <3>1. CASE Ended(p)
      BY <2>1, <3>1, RunsAfter DEF Ended, Uses
    <3>2. CASE Paid(p) \/ Heeded(p)
      <4>1. proc[p] \in Runs /\ proc[p] # None /\ proc[p].quote \in Quotes
        BY <3>2, AbsentAssumption DEF Tested, Paid, Heeded, Runs
      <4>2. proc[p].quote # q
        BY <2>1, <3>2, <4>1 DEF Tested, Paid, Heeded, Uses, Claiming
      <4>3. pays'[q] = 0
        BY <2>1, <3>2, <4>1, <4>2 DEF Tested, Paid, Heeded, Shape
      <4> QED BY <2>1, <3>2, <4>1, <4>2, <4>3, RunsAfter DEF Tested, Paid, Heeded, Follows, Uses
    <3>3. CASE Tested(p)
      <4>1. proc[p] \in Runs => proc[p] # None
        BY AbsentAssumption
      <4> QED BY <2>1, <3>3, <4>1, RunsAfter DEF Tested, Follows, Uses, Claiming
    <3> QED BY <2>6, <3>1, <3>2, <3>3
  <2>7. ASSUME NEW p \in Procs, NEW g \in Paths, proc[p] = None,
               Loaded(p, g) \/ Resumed(p, g) \/ Quoted(p, g)
        PROVE  /\ pays'[q] = 0
               /\ \A x \in Procs : Uses(proc'[x], q) => Claiming(proc'[x])
    <3>1. CASE Loaded(p, g)
      BY <2>1, <3>1, RunsAfter DEF Loaded
    <3>2. CASE Resumed(p, g)
      <4>1. file[g].quote # q
        BY <2>1, <2>3, <3>2, AbsentAssumption DEF Resumed, FileUses, Exists
      <4> QED BY <2>1, <3>2, <4>1, RunsAfter DEF Resumed, Uses
    <3>3. CASE Quoted(p, g)
      BY <2>1, <3>3, RunsAfter DEF Quoted, Uses
    <3> QED BY <2>7, <3>1, <3>2, <3>3
  <2> QED BY <2>4, <2>5, <2>6, <2>7 DEF Kinds
<1>2. CASE file'[f] # file[f]
  <2>1. PICK p \in Procs : Saved(p)
    BY <1>2 DEF Kinds, Aged, Tested, Paid, Heeded, Ended, Loaded, Resumed, Quoted
  <2>2. proc[p] # None /\ proc[p].path \in Paths
    BY <2>1, AbsentAssumption DEF Saved, Runs
  <2>3. /\ file' = [file EXCEPT ![proc[p].path] = Content(proc[p])]
        /\ \E y : Moves(p, y) /\ Wrote(proc[p], y)
    BY <1>2, <2>1, <2>2 DEF Saved, Exists, Shape
  <2>4. f = proc[p].path /\ proc[p].phase = "quoted" /\ q = proc[p].quote
    BY <1>2, <2>2, <2>3 DEF Content, Shape
  <2>5. /\ Quoting(proc[p]) /\ pays[q] = 0
        /\ \A o \in Procs \ {p} : ~Uses(proc[o], q)
    BY <2>1, <2>2, <2>4 DEF Saved, Quoting, Unsaved
  <2>6. Moves(p, None)
    BY <2>3, <2>4 DEF Wrote
  <2> QED BY <2>1, <2>5, <2>6, RunsAfter DEF Saved, Uses
<1> QED BY <1>1, <1>2

\* A run that neither claims nor pays changes nothing for the payers.
LEMMA QuietPayers ==
  ASSUME Ind, NEW p \in Procs, NEW y, Moves(p, y), y = None \/ ~Paying(y),
         file' = file, pays' = pays, NEW q \in Quotes \ raced
  PROVE  /\ pays'[q] <= 1
         /\ \A o \in Procs : Uses(proc'[o], q) /\ WillPay(proc'[o]) => pays'[q] = 0
         /\ \A o \in Procs : Uses(proc'[o], q) /\ Paying(proc'[o]) =>
              /\ ~Sealed(q)'
              /\ \A x \in Procs \ {o} : Uses(proc'[x], q) => ~Paying(proc'[x])
<1>1. \A z : WillPay(z) => Paying(z)
  BY DEF WillPay, Paying, Claiming, Final
<1>2. \A o \in Procs : Uses(proc'[o], q) /\ Paying(proc'[o]) => proc'[o] = proc[o]
  BY RunsAfter DEF Uses, Ind
<1>3. Sealed(q)' = Sealed(q)
  BY DEF Sealed, Exists
<1> QED BY <1>1, <1>2, <1>3 DEF Ind, OnePayer

LEMMA OnePayerStep ==
  ASSUME Ind, Kinds
  PROVE  OnePayer'
<1> USE DEF Ind
<1>0. raced \subseteq raced'
  BY DEF Kinds, Aged, Saved, Tested, Paid, Heeded, Ended, Loaded, Resumed, Quoted
<1> DEFINE G(q) ==
      /\ pays'[q] <= 1
      /\ \A o \in Procs : Uses(proc'[o], q) /\ WillPay(proc'[o]) => pays'[q] = 0
      /\ \A o \in Procs : Uses(proc'[o], q) /\ Paying(proc'[o]) =>
           /\ ~Sealed(q)'
           /\ \A x \in Procs \ {o} : Uses(proc'[x], q) => ~Paying(proc'[x])
<1> SUFFICES ASSUME NEW q \in Quotes \ raced'
             PROVE  G(q)
  BY DEF OnePayer
<1>1. /\ q \in Quotes \ raced /\ pays[q] <= 1 /\ pays[q] \in Nat
      /\ \A o \in Procs : Uses(proc[o], q) /\ WillPay(proc[o]) => pays[q] = 0
      /\ \A o \in Procs : Uses(proc[o], q) /\ Paying(proc[o]) =>
           /\ ~Sealed(q)
           /\ \A x \in Procs \ {o} : Uses(proc[x], q) => ~Paying(proc[x])
  BY <1>0 DEF OnePayer, Shape
<1>2. \A z : WillPay(z) => Paying(z)
  BY DEF WillPay, Paying, Claiming, Final
<1>3. CASE Aged
  <2>1. Sealed(q)' = Sealed(q)
    BY <1>3 DEF Aged, Sealed, Exists
  <2> QED BY <1>1, <1>3, <2>1 DEF Aged
<1>4. ASSUME NEW p \in Procs, Paid(p) PROVE G(q)
  <2>1. PICK y : /\ Moves(p, y)
                 /\ \/ y = None
                    \/ /\ y \in Runs /\ Follows(proc[p], y) /\ y.pc = "saving"
                       /\ y.phase \notin {"quoted", "payment_in_progress"} \cup Final
    BY <1>4 DEF Paid
  <2>2. proc[p] # None /\ proc[p].pc = "paying" /\ proc[p].quote \in Quotes
    BY <1>4, AbsentAssumption DEF Paid, Runs
  <2>3. Sealed(q)' = Sealed(q)
    BY <1>4 DEF Paid, Sealed, Exists
  <2>4. proc'[p] = y /\ \A o \in Procs \ {p} : proc'[o] = proc[o]
    BY <2>1, RunsAfter
  <2>5. CASE proc[p].quote # q
    <3>1. pays'[q] = pays[q]
      BY <1>4, <2>2, <2>5 DEF Paid, Shape
    <3>2. ~Uses(proc'[p], q)
      BY <2>1, <2>4, <2>5 DEF Uses, Follows
    <3> QED BY <1>1, <2>3, <2>4, <3>1, <3>2
  <2>6. CASE proc[p].quote = q
    <3>1. /\ Uses(proc[p], q) /\ WillPay(proc[p]) /\ Paying(proc[p])
          /\ pays[q] = 0 /\ ~Sealed(q)
          /\ \A x \in Procs \ {p} : Uses(proc[x], q) => ~Paying(proc[x])
      BY <1>1, <2>2, <2>6 DEF Uses, WillPay, Paying
    <3>2. pays'[q] <= 1
      BY <1>1, <1>4, <3>1, <2>6 DEF Paid, Shape
    <3>3. ~(Uses(proc'[p], q) /\ WillPay(proc'[p]))
      BY <2>1, <2>4 DEF Uses, WillPay, Claiming
    <3>4. \A x \in Procs \ {p} : Uses(proc'[x], q) => ~Paying(proc'[x])
      BY <2>4, <3>1
    <3> QED BY <1>2, <2>3, <3>1, <3>2, <3>3, <3>4
  <2> QED BY <2>5, <2>6
<1>5. ASSUME NEW p \in Procs, Heeded(p) \/ Ended(p) PROVE G(q)
  <2>1. \E y : Moves(p, y) /\ (y = None \/ ~Paying(y))
    BY <1>5 DEF Heeded, Ended, Paying
  <2>2. file' = file /\ pays' = pays
    BY <1>5 DEF Heeded, Ended
  <2> QED BY <1>1, <2>1, <2>2, QuietPayers
<1>6. ASSUME NEW p \in Procs, NEW f \in Paths, Resumed(p, f) \/ Quoted(p, f) PROVE G(q)
  <2>1. \E y : Moves(p, y) /\ (y = None \/ ~Paying(y))
    BY <1>6 DEF Resumed, Quoted, Quoting, Paying
  <2>2. file' = file /\ pays' = pays
    BY <1>6 DEF Resumed, Quoted
  <2> QED BY <1>1, <2>1, <2>2, QuietPayers
<1>7. ASSUME NEW p \in Procs, NEW f \in Paths, Loaded(p, f) PROVE G(q)
  <2>1. PICK y : /\ Moves(p, y) /\ y \in Runs /\ Claiming(y)
                 /\ y.quote = file[f].quote /\ y.path = f
    BY <1>7 DEF Loaded
  <2>2. proc'[p] = y /\ \A o \in Procs \ {p} : proc'[o] = proc[o]
    BY <2>1, RunsAfter
  <2>3. Sealed(q)' = Sealed(q)
    BY <1>7 DEF Loaded, Sealed, Exists
  <2>4. CASE file[f].quote # q
    <3>1. ~Uses(proc'[p], q)
      BY <2>1, <2>2, <2>4 DEF Uses
    <3> QED BY <1>1, <1>7, <2>2, <2>3, <3>1 DEF Loaded
  <2>5. CASE file[f].quote = q
    <3>1. FileUses(f, q) /\ file[f].phase = "quoted"
      BY <1>7, <2>5, AbsentAssumption DEF Loaded, FileUses, Exists
    <3>2. pays[q] = 0 /\ \A o \in Procs : Uses(proc[o], q) => Claiming(proc[o])
      BY <3>1 DEF Unclaimed, FileUses
    <3>3. ~AlsoRead(p, q)
      BY <1>7, <2>5 DEF Loaded
    <3>4. \A o \in Procs \ {p} : ~Uses(proc[o], q)
      BY <3>2, <3>3 DEF AlsoRead, At, Uses, Claiming
    <3>5. ~Sealed(q)
      BY <1>1, <3>1 DEF Sealed, OnePath, Where, FileUses
    <3> QED BY <1>7, <2>2, <2>3, <3>2, <3>4, <3>5 DEF Loaded
  <2> QED BY <2>4, <2>5
<1>8. ASSUME NEW p \in Procs, Saved(p) PROVE G(q)
  <2>1. proc[p] # None /\ proc[p].path \in Paths /\ proc[p].pc = "saving"
    BY <1>8, AbsentAssumption DEF Saved, Runs
  <2>2. pays' = pays
    BY <1>8 DEF Saved
  <2>3. CASE file' = file /\ Moves(p, None)
    BY <1>1, <2>2, <2>3, QuietPayers
  <2>4. CASE file' = [file EXCEPT ![proc[p].path] = Torn] /\ Moves(p, None)
    <3>1. Sealed(q)' => Sealed(q)
      BY <2>1, <2>4 DEF Sealed, Exists, Shape
    <3>2. ~Uses(proc'[p], q) /\ \A o \in Procs \ {p} : proc'[o] = proc[o]
      BY <2>4, RunsAfter DEF Uses
    <3> QED BY <1>1, <2>2, <3>1, <3>2
  <2>5. ASSUME file' = [file EXCEPT ![proc[p].path] = Content(proc[p])],
               NEW y, Moves(p, y), Wrote(proc[p], y)
        PROVE  G(q)
    <3>1. proc'[p] = y /\ \A o \in Procs \ {p} : proc'[o] = proc[o]
      BY <2>5, RunsAfter
    <3>2. Sealed(q)' =>
            \/ Sealed(q)
            \/ proc[p].quote = q /\ proc[p].phase = "paid_pending_verification"
      BY <2>1, <2>5 DEF Sealed, Exists, Content, Shape
    <3>3. Uses(y, q) => Uses(proc[p], q)
      BY <2>1, <2>5 DEF Wrote, Uses, Follows
    <3>4. Uses(y, q) /\ WillPay(y) => WillPay(proc[p])
      BY <2>1, <2>5 DEF Wrote, WillPay, Claiming, Uses
    <3>5. Uses(y, q) /\ Paying(y) =>
            Paying(proc[p]) /\ proc[p].phase # "paid_pending_verification"
      BY <2>1, <2>5 DEF Wrote, Paying, Final, Uses
    <3>6. proc[p].phase = "paid_pending_verification" => Paying(proc[p])
      BY <2>1 DEF Paying, Final
    <3>7. proc[p].quote = q => Uses(proc[p], q)
      BY <2>1 DEF Uses
    <3>8. \A o \in Procs : Uses(proc'[o], q) /\ WillPay(proc'[o]) => pays'[q] = 0
      BY <1>1, <2>2, <3>1, <3>3, <3>4
    <3>9. ASSUME NEW o \in Procs, Uses(proc'[o], q), Paying(proc'[o])
          PROVE  /\ ~Sealed(q)'
                 /\ \A x \in Procs \ {o} : Uses(proc'[x], q) => ~Paying(proc'[x])
      <4>1. CASE o = p
        BY <1>1, <3>1, <3>2, <3>3, <3>5, <3>9, <4>1
      <4>2. CASE o # p
        BY <1>1, <3>1, <3>2, <3>3, <3>5, <3>6, <3>7, <3>9, <4>2
      <4> QED BY <4>1, <4>2
    <3> QED BY <1>1, <2>2, <3>8, <3>9
  <2> QED BY <1>8, <2>3, <2>4, <2>5 DEF Saved
<1>9. ASSUME NEW p \in Procs, Tested(p) PROVE G(q)
  <2>1. PICK y : /\ Moves(p, y)
                 /\ \/ y = None
                    \/ /\ y \in Runs /\ Follows(proc[p], y) /\ y.pc = "saving"
                       /\ y.phase = "payment_in_progress"
    BY <1>9 DEF Tested
  <2>2. /\ proc[p] # None /\ Paying(proc[p]) /\ WillPay(proc[p])
        /\ file' = file /\ pays' = pays
    BY <1>9, AbsentAssumption DEF Tested, Paying, WillPay, Claiming
  <2>3. Sealed(q)' = Sealed(q)
    BY <2>2 DEF Sealed, Exists
  <2>4. proc'[p] = y /\ \A o \in Procs \ {p} : proc'[o] = proc[o]
    BY <2>1, RunsAfter
  <2>5. Uses(y, q) => Uses(proc[p], q)
    BY <2>1, <2>2 DEF Uses, Follows
  <2>6. \A o \in Procs :
          /\ Uses(proc'[o], q) => Uses(proc[o], q)
          /\ Uses(proc'[o], q) /\ WillPay(proc'[o]) => WillPay(proc[o])
          /\ Uses(proc'[o], q) /\ Paying(proc'[o]) => Paying(proc[o])
    BY <2>2, <2>4, <2>5
  <2> QED BY <1>1, <2>2, <2>3, <2>6
<1> QED BY <1>3, <1>4, <1>5, <1>6, <1>7, <1>8, <1>9 DEF Kinds

LEMMA HeardStep ==
  ASSUME Ind, Kinds
  PROVE  Heard' /\ DeliveredIsTrue'
<1> USE DEF Ind
<1>1. /\ mission = "delivered" => mission' = "delivered"
      /\ mission # "executing" => mission' # "executing"
  BY DEF Kinds, Aged, Saved, Tested, Paid, Heeded, Ended, Loaded, Resumed, Quoted, Shape
<1>2. ASSUME NEW p \in Procs, NEW y, Moves(p, y),
             \/ y = None
             \/ y.pc # "saving"
             \/ y.phase \notin Final
             \/ /\ y.phase = "delivered" => mission' = "delivered"
                /\ mission' # "executing"
      PROVE  Heard'
  <2>1. proc'[p] = y /\ \A o \in Procs \ {p} : proc'[o] = proc[o]
    BY <1>2, RunsAfter
  <2> SUFFICES ASSUME NEW o \in Procs, proc'[o] # None, proc'[o].pc = "saving"
               PROVE  /\ proc'[o].phase = "delivered" => mission' = "delivered"
                      /\ proc'[o].phase = "needs_review" => mission' # "executing"
    BY DEF Heard
  <2>2. CASE o = p
    BY <1>2, <2>1, <2>2 DEF Final
  <2>3. CASE o # p
    BY <1>1, <2>1, <2>3 DEF Heard
  <2> QED BY <2>2, <2>3
<1>3. CASE Aged
  BY <1>3 DEF Aged, Heard, DeliveredIsTrue, Exists
<1>4. ASSUME NEW p \in Procs, Saved(p) PROVE Heard' /\ DeliveredIsTrue'
  <2>1. proc[p] # None /\ proc[p].path \in Paths /\ proc[p].pc = "saving"
    BY <1>4, AbsentAssumption DEF Saved, Runs
  <2>2. Heard'
    <3>1. \E y : Moves(p, y) /\ (y = None \/ y.pc # "saving" \/ y.phase \notin Final)
      BY <1>4 DEF Saved, Wrote, Final
    <3> QED BY <1>2, <3>1
  <2>3. mission' = mission
    BY <1>4 DEF Saved
  <2>4. proc[p].phase = "delivered" => mission = "delivered"
    BY <2>1 DEF Heard
  <2>5. \A f \in Paths : Exists(f)' /\ file'[f].phase = "delivered" =>
          \/ Exists(f) /\ file[f].phase = "delivered"
          \/ proc[p].phase = "delivered"
    BY <1>4, <2>1 DEF Saved, Exists, Content, Shape
  <2> QED BY <2>2, <2>3, <2>4, <2>5 DEF DeliveredIsTrue
<1>5. ASSUME NEW p \in Procs, Tested(p) \/ Paid(p) \/ Heeded(p) \/ Ended(p)
      PROVE  Heard' /\ DeliveredIsTrue'
  <2>1. file' = file
    BY <1>5 DEF Tested, Paid, Heeded, Ended
  <2>2. DeliveredIsTrue'
    BY <1>1, <2>1 DEF DeliveredIsTrue, Exists
  <2>3. CASE Tested(p) \/ Paid(p) \/ Ended(p)
    BY <1>2, <2>2, <2>3 DEF Tested, Paid, Ended, Final
  <2>4. CASE Heeded(p)
    BY <1>2, <2>2, <2>4 DEF Heeded
  <2> QED BY <1>5, <2>3, <2>4
<1>6. ASSUME NEW p \in Procs, NEW f \in Paths,
             Loaded(p, f) \/ Resumed(p, f) \/ Quoted(p, f)
      PROVE  Heard' /\ DeliveredIsTrue'
  <2>1. \E y : Moves(p, y) /\ (y.pc # "saving" \/ y.phase \notin Final)
    BY <1>6 DEF Loaded, Resumed, Quoted, Claiming, Quoting, Final
  <2>2. file' = file
    BY <1>6 DEF Loaded, Resumed, Quoted
  <2> QED BY <1>1, <1>2, <2>1, <2>2 DEF DeliveredIsTrue, Exists
<1> QED BY <1>3, <1>4, <1>5, <1>6 DEF Kinds

LEMMA PayersFinite ==
  ASSUME NEW q
  PROVE  /\ IsFiniteSet(Payers(q)) /\ Cardinality(Payers(q)) \in Nat
         /\ Cardinality(Payers(q)) <= Cardinality(Procs) /\ Cardinality(Procs) \in Nat
<1>1. Payers(q) \subseteq Procs
  BY DEF Payers
<1> QED BY <1>1, BuyerAssumption, FS_Subset, FS_CardinalityType

LEMMA CountedStep ==
  ASSUME Ind, Kinds
  PROVE  Counted'
<1> USE DEF Ind
<1> DEFINE P(q) == {p \in Procs : Uses(proc'[p], q) /\ WillPay(proc'[p])}
<1> SUFFICES ASSUME NEW q \in Quotes
             PROVE  pays'[q] + Cardinality(P(q)) <= Cardinality(Procs)
  BY DEF Counted, Payers
<1>1. /\ pays[q] \in Nat /\ pays[q] + Cardinality(Payers(q)) <= Cardinality(Procs)
  BY DEF Counted, Shape
<1>2. ASSUME P(q) \subseteq Payers(q), pays'[q] = pays[q]
      PROVE  pays'[q] + Cardinality(P(q)) <= Cardinality(Procs)
  <2>1. Cardinality(P(q)) <= Cardinality(Payers(q)) /\ Cardinality(P(q)) \in Nat
    BY <1>2, PayersFinite, FS_Subset, FS_CardinalityType
  <2> QED BY <1>1, <1>2, <2>1, PayersFinite
<1>3. ASSUME NEW p \in Procs, NEW y, Moves(p, y),
             y = None \/ ~WillPay(y) \/ ~Uses(y, q)
             \/ (Uses(proc[p], q) /\ WillPay(proc[p]))
      PROVE  P(q) \subseteq Payers(q)
  BY <1>3, RunsAfter DEF Payers, Uses
<1>4. CASE Aged
  BY <1>2, <1>4 DEF Aged, Payers
<1>5. ASSUME NEW p \in Procs, Saved(p)
      PROVE  pays'[q] + Cardinality(P(q)) <= Cardinality(Procs)
  <2>1. proc[p] # None /\ proc[p].pc = "saving"
    BY <1>5, AbsentAssumption DEF Saved
  <2>2. \E y : /\ Moves(p, y)
               /\ \/ y = None
                  \/ ~WillPay(y)
                  \/ ~Uses(y, q)
                  \/ Uses(proc[p], q) /\ WillPay(proc[p])
    BY <1>5, <2>1 DEF Saved, Wrote, Follows, Uses, WillPay, Claiming
  <2> QED BY <1>2, <1>3, <1>5, <2>2 DEF Saved
<1>6. ASSUME NEW p \in Procs, Paid(p)
      PROVE  pays'[q] + Cardinality(P(q)) <= Cardinality(Procs)
  <2>1. PICK y : Moves(p, y) /\ (y = None \/ ~WillPay(y))
    BY <1>6 DEF Paid, WillPay, Claiming
  <2>2. P(q) \subseteq Payers(q) \ {p}
    BY <2>1, RunsAfter DEF Payers, Uses
  <2>3. proc[p] # None /\ proc[p].pc = "paying" /\ proc[p].quote \in Quotes
    BY <1>6, AbsentAssumption DEF Paid, Runs
  <2>4. CASE pays'[q] = pays[q]
    BY <1>2, <2>2, <2>4
  <2>5. CASE pays'[q] # pays[q]
    <3>1. proc[p].quote = q /\ pays'[q] = pays[q] + 1
      BY <1>1, <1>6, <2>3, <2>5 DEF Paid, Shape
    <3>2. p \in Payers(q)
      BY <2>3, <3>1 DEF Payers, Uses, WillPay
    <3>3. /\ IsFiniteSet(Payers(q) \ {p})
          /\ Cardinality(Payers(q) \ {p}) = Cardinality(Payers(q)) - 1
      BY <3>2, PayersFinite, FS_RemoveElement
    <3>4. /\ Cardinality(P(q)) <= Cardinality(Payers(q)) - 1
          /\ Cardinality(P(q)) \in Nat
      BY <2>2, <3>3, FS_Subset, FS_CardinalityType
    <3> QED BY <1>1, <3>1, <3>4, PayersFinite
  <2> QED BY <2>4, <2>5
<1>7. ASSUME NEW p \in Procs, Heeded(p) \/ Ended(p)
      PROVE  pays'[q] + Cardinality(P(q)) <= Cardinality(Procs)
  <2>1. \E y : Moves(p, y) /\ (y = None \/ ~WillPay(y))
    BY <1>7 DEF Heeded, Ended, WillPay, Claiming, Final
  <2> QED BY <1>2, <1>3, <1>7, <2>1 DEF Heeded, Ended
<1>8. ASSUME NEW p \in Procs, NEW f \in Paths, Resumed(p, f) \/ Quoted(p, f)
      PROVE  pays'[q] + Cardinality(P(q)) <= Cardinality(Procs)
  <2>1. \E y : Moves(p, y) /\ ~WillPay(y)
    BY <1>8 DEF Resumed, Quoted, Quoting, WillPay, Claiming
  <2> QED BY <1>2, <1>3, <1>8, <2>1 DEF Resumed, Quoted
<1>9. ASSUME NEW p \in Procs, NEW f \in Paths, Loaded(p, f)
      PROVE  pays'[q] + Cardinality(P(q)) <= Cardinality(Procs)
  <2>1. PICK y : Moves(p, y) /\ y \in Runs /\ y.quote = file[f].quote
    BY <1>9 DEF Loaded
  <2>2. pays' = pays
    BY <1>9 DEF Loaded
  <2>3. CASE file[f].quote # q
    BY <1>2, <1>3, <2>1, <2>2, <2>3 DEF Uses
  <2>4. CASE file[f].quote = q
    <3>1. pays[q] = 0
      BY <1>9, <2>4, AbsentAssumption DEF Loaded, Exists, Unclaimed
    <3>2. P(q) \subseteq Procs
      OBVIOUS
    <3>3. Cardinality(P(q)) <= Cardinality(Procs) /\ Cardinality(P(q)) \in Nat
      BY <3>2, BuyerAssumption, FS_Subset, FS_CardinalityType
    <3> QED BY <2>2, <3>1, <3>3
  <2> QED BY <2>3, <2>4
<1>10. ASSUME NEW p \in Procs, Tested(p)
       PROVE  pays'[q] + Cardinality(P(q)) <= Cardinality(Procs)
  <2>1. proc[p] # None /\ WillPay(proc[p])
    BY <1>10, AbsentAssumption DEF Tested, WillPay, Claiming
  <2>2. \E y : /\ Moves(p, y)
               /\ \/ y = None
                  \/ ~Uses(y, q)
                  \/ Uses(proc[p], q) /\ WillPay(proc[p])
    BY <1>10, <2>1 DEF Tested, Follows, Uses
  <2> QED BY <1>2, <1>3, <1>10, <2>2 DEF Tested
<1> QED BY <1>4, <1>5, <1>6, <1>7, <1>8, <1>9, <1>10 DEF Kinds

-----------------------------------------------------------------------------
(* The invariant is inductive. *)

LEMMA IndInit == Init => Ind
<1> SUFFICES ASSUME Init PROVE Ind
  OBVIOUS
<1>1. Shape
  BY BuyerAssumption DEF Init, Shape
<1>2. \A f \in Paths : ~Exists(f)
  BY DEF Init, Exists
<1>3. \A p \in Procs : proc[p] = None
  BY DEF Init
<1>4. \A q \in Quotes : pays[q] = 0
  BY DEF Init
<1>5. Numbered /\ Unsaved /\ Unclaimed /\ Heard /\ DeliveredIsTrue
  BY <1>2, <1>3, <1>4 DEF Numbered, Unsaved, Unclaimed, Heard, DeliveredIsTrue
<1>6. OnePath
  BY <1>2, <1>3 DEF OnePath, Where, FileUses, Uses
<1>7. OnePayer
  BY <1>3, <1>4 DEF OnePayer, Uses
<1>8. Counted
  BY <1>4, PayersFinite DEF Counted
<1>9. Started
  BY DEF Init, Started
<1> QED BY <1>1, <1>5, <1>6, <1>7, <1>8, <1>9 DEF Ind

LEMMA IndNext == Ind /\ [Next]_vars => Ind'
<1> SUFFICES ASSUME Ind, [Next]_vars PROVE Ind'
  OBVIOUS
<1>1. CASE Next
  <2>1. Kinds
    BY <1>1, StepKinds DEF Ind
  <2>2. Shape'
    BY <2>1, ShapeStep
  <2>3. Started'
    BY <1>1 DEF Next, Start, Check, Save, PayMain, PayCompat, Verify, Crash, Expire, Load,
       Resume, Quote, Turns, Ind, Started
  <2> QED BY <2>1, <2>2, <2>3, NumberedStep, OnePathStep, UnsavedStep, UnclaimedStep,
       OnePayerStep, HeardStep, CountedStep DEF Ind
<1>2. CASE UNCHANGED vars
  <2>1. Shape' /\ Numbered' /\ Unsaved' /\ Unclaimed' /\ Heard' /\ DeliveredIsTrue'
    BY <1>2 DEF vars, Ind, Shape, Numbered, Unsaved, Unclaimed, Heard, DeliveredIsTrue,
       Exists, FileUses
  <2>2. OnePath' /\ OnePayer' /\ Counted' /\ Started'
    BY <1>2 DEF vars, Ind, Started, OnePath, Where, FileUses, Exists, OnePayer, Sealed, Counted,
       Payers
  <2> QED BY <2>1, <2>2 DEF Ind
<1> QED BY <1>1, <1>2

LEMMA Inductive == Spec => []Ind
BY IndInit, IndNext, PTL DEF Spec

-----------------------------------------------------------------------------
(* Theorems. *)

\* No quote is handed to the wallet more often than there are runs.
THEOREM TypeCorrect == Spec => []TypeOK
<1>1. Ind => TypeOK
  <2> SUFFICES ASSUME Ind PROVE TypeOK
    OBVIOUS
  <2>1. ASSUME NEW q \in Quotes PROVE pays[q] \in 0 .. Cardinality(Procs)
    BY PayersFinite DEF Ind, Shape, Counted
  <2>2. pays \in [Quotes -> 0 .. Cardinality(Procs)]
    BY <2>1 DEF Ind, Shape
  <2> QED BY <2>2 DEF Ind, Shape, Started, TypeOK
<1> QED BY <1>1, Inductive, PTL

\* prepare-okx-bill.mjs marks the payment in progress before it pays: a quote is paid
\* twice only if two confirmations read it before either marked it.
THEOREM PaidOnce == Spec => []PaidOncePerQuote
<1>1. Ind => PaidOncePerQuote
  BY DEF Ind, Shape, OnePayer, PaidOncePerQuote
<1> QED BY <1>1, Inductive, PTL

\* A file says delivered only after the service said so, and a delivery is final.
THEOREM DeliveredTrue == Spec => []DeliveredIsTrue
BY Inductive, PTL DEF Ind

\* The main client writes a quote only where there is no file.
THEOREM PaymentKept == Spec => PaymentStateIsKept
<1>1. ASSUME Ind, Next, NEW f \in Paths, Exists(f), file[f].phase # "quoted",
             file'[f] \in Files, file'[f].phase = "quoted"
      PROVE  file'[f].flow = "compat"
  <2>1. Kinds
    BY <1>1, StepKinds DEF Ind
  <2>2. file'[f] # file[f]
    BY <1>1
  <2>3. PICK p \in Procs : Saved(p)
    BY <2>1, <2>2 DEF Kinds, Aged, Tested, Paid, Heeded, Ended, Loaded, Resumed, Quoted
  <2>4. proc[p] \in Runs /\ proc[p].path \in Paths /\ proc[p].flow \in Flows
    BY <2>3 DEF Saved, Runs
  <2>5. /\ file' = [file EXCEPT ![proc[p].path] = Content(proc[p])]
        /\ Quoting(proc[p]) /\ proc[p].flow = "main" => file[proc[p].path] = None
    BY <1>1, <2>2, <2>3, <2>4, AbsentAssumption DEF Saved, Ind, Shape
  <2>6. f = proc[p].path /\ file'[f] = Content(proc[p])
    BY <2>2, <2>4, <2>5 DEF Ind, Shape
  <2>7. proc[p].pc = "saving" /\ proc[p].phase = "quoted"
    BY <1>1, <2>3, <2>6 DEF Saved, Content
  <2>8. proc[p].flow # "main"
    BY <1>1, <2>5, <2>6, <2>7 DEF Quoting, Exists
  <2> QED BY <2>4, <2>6, <2>8 DEF Content, Flows
<1>2. /\ Ind
      /\ [Next]_vars
      => [\A f \in Paths :
            Exists(f) /\ file[f].phase # "quoted" /\ file'[f] \in Files
              => (file'[f].phase = "quoted" => file'[f].flow = "compat")]_vars
  BY <1>1
<1> QED BY <1>2, Inductive, PTL DEF Spec, PaymentStateIsKept

\* The sealed proof of a payment stays until the service has answered, unless two
\* runs raced or a run for another quote writes over it.
THEOREM SealedKept == Spec => SealedProofIsKept
<1>1. ASSUME Ind, Next, NEW q \in Quotes, Sealed(q), ~Sealed(q)',
             mission = "executing", q \notin raced
      PROVE  \E p \in Procs : At(p, "saving") /\ proc[p].quote # q /\ proc'[p] # proc[p]
  <2>1. Kinds
    BY <1>1, StepKinds DEF Ind
  <2>2. PICK f \in Paths : /\ Exists(f) /\ file[f].quote = q
                           /\ file[f].phase = "paid_pending_verification"
    BY <1>1 DEF Sealed
  <2>3. file'[f] # file[f]
    BY <1>1, <2>2 DEF Sealed, Exists
  <2>4. PICK p \in Procs : Saved(p)
    BY <2>1, <2>3 DEF Kinds, Aged, Tested, Paid, Heeded, Ended, Loaded, Resumed, Quoted
  <2>5. proc[p] \in Runs /\ proc[p] # None /\ proc[p].pc = "saving"
    BY <2>4, AbsentAssumption DEF Saved
  <2>6. ASSUME proc[p].quote = q PROVE FALSE
    <3>1. Uses(proc[p], q) /\ FileUses(f, q)
      BY <2>2, <2>5, <2>6 DEF Uses, FileUses
    <3>2. ~Quoting(proc[p])
      BY <1>1, <2>2, <2>5, <2>6, <3>1 DEF Ind, Unsaved
    <3>3. proc[p].phase \notin Final
      BY <1>1, <2>5 DEF Ind, Heard, Final
    <3>4. Paying(proc[p])
      BY <2>5, <3>2, <3>3 DEF Paying, Quoting
    <3> QED BY <1>1, <3>1, <3>4 DEF Ind, OnePayer
  <2>7. proc'[p] # proc[p]
    <3>1. \E y : Moves(p, y) /\ (y = None \/ Wrote(proc[p], y))
      BY <2>4 DEF Saved
    <3> QED BY <1>1, <2>5, <3>1, RunsAfter DEF Wrote, Ind
  <2> QED BY <2>5, <2>6, <2>7 DEF At
<1>2. /\ Ind
      /\ [Next]_vars
      => [\A q \in Quotes :
            Sealed(q) /\ ~Sealed(q)' =>
              \/ mission # "executing" \/ q \in raced
              \/ \E p \in Procs : At(p, "saving") /\ proc[p].quote # q
                                 /\ proc[p]' # proc[p]]_vars
  BY <1>1
<1> QED BY <1>2, Inductive, PTL DEF Spec, SealedProofIsKept
=============================================================================
