---------------------------- MODULE BuyerClient ----------------------------
(***************************************************************************)
(* The clients that buy one approved action of a mission: the two-run      *)
(* client examples/prepare-okx-bill.mjs ("main") and the compatibility     *)
(* pair prepare-compat-quote.mjs and confirm-compat-payment.mjs            *)
(* ("compat").  Each run is a process of its own that reads a state file,  *)
(* acts and writes it back; several may run at once on one file, and each  *)
(* may end anywhere, in the middle of a write too.  The wallet CLI, the    *)
(* merchant and the service are outside; the service's part is mission.    *)
(***************************************************************************)
EXTENDS Integers, FiniteSets

CONSTANTS Procs,     \* client runs at one time
          Paths,     \* state files
          MaxQuotes, \* bound: payment quotes obtained
          None,      \* no file, no process
          Torn       \* a file whose write was cut short

ASSUME BuyerAssumption == MaxQuotes \in Nat /\ IsFiniteSet(Procs)

VARIABLES file,     \* the state files
          started,  \* the main runs whose action the service started, before they turn
                    \* to the file
          proc,     \* the client runs that hold a quote
          mission,  \* the action at the service
          quotes,   \* how many quotes were obtained; they are numbered
          expired,  \* the quotes whose expiresAt has passed
          pays,     \* how often each quote was handed to the wallet for payment
          raced     \* history: quotes two runs read before either recorded it

vars == <<file, started, proc, mission, quotes, expired, pays, raced>>

Quotes == 1 .. MaxQuotes
Flows == {"main", "compat"}
Phases == {"quoted", "payment_in_progress", "payment_failed", "payment_ambiguous",
           "paid_response_received", "paid_response_missing_proof",
           "paid_pending_verification", "delivered", "needs_review"}
Files == [flow : Flows, phase : Phases, quote : Quotes]
Runs == [pc : {"checking", "saving", "paying", "verifying"}, flow : Flows, path : Paths,
         quote : Quotes, phase : Phases, proof : BOOLEAN]

ASSUME AbsentAssumption == None # Torn /\ {None, Torn} \cap (Files \cup Runs) = {}

TypeOK ==
  /\ file \in [Paths -> Files \cup {None, Torn}]
  /\ proc \in [Procs -> Runs \cup {None}] /\ started \subseteq Procs
  /\ mission \in {"executing", "needs_review", "delivered"}
  /\ quotes \in 0 .. MaxQuotes
  /\ expired \subseteq 1 .. quotes /\ raced \subseteq 1 .. quotes
  /\ pays \in [Quotes -> 0 .. Cardinality(Procs)]

Init ==
  /\ file = [f \in Paths |-> None] /\ proc = [p \in Procs |-> None]
  /\ started = {} /\ mission = "executing" /\ quotes = 0 /\ expired = {} /\ raced = {}
  /\ pays = [q \in Quotes |-> 0]

-----------------------------------------------------------------------------
Goes(p, run) == proc' = [proc EXCEPT ![p] = run]
Ends(p) == Goes(p, None)
At(p, pc) == proc[p] # None /\ proc[p].pc = pc
Exists(f) == file[f] \notin {None, Torn}

\* The run p will next write this phase, holding a status proof or not.
Saving(p, phase, proof) ==
  Goes(p, [proc[p] EXCEPT !.pc = "saving", !.phase = phase, !.proof = proof])

\* A main run first has the service start the action, or say that it is started.
Start(p) ==
  /\ proc[p] = None /\ p \notin started /\ mission = "executing"
  /\ started' = started \cup {p}
  /\ UNCHANGED <<file, proc, mission, quotes, expired, pays, raced>>

\* The run p may turn to the file: only a main run has started the action before.
Turns(p, flow) ==
  /\ proc[p] = None /\ (p \in started <=> flow = "main")
  /\ started' = started \ {p}

\* The quote runs: the main client looks for the file first, the compatibility
\* client for the mission.
Quote(p, flow, f) ==
  /\ Turns(p, flow) /\ quotes < MaxQuotes
  /\ IF flow = "main" THEN file[f] = None ELSE mission = "executing"
  /\ quotes' = quotes + 1
  /\ Goes(p, [pc |-> "saving", flow |-> flow, path |-> f, quote |-> quotes + 1,
              phase |-> "quoted", proof |-> FALSE])
  /\ UNCHANGED <<file, mission, expired, pays, raced>>

\* Mutant: a payment whose outcome is unknown may be confirmed again.
PayableAgain(f) ==
  Exists(f) /\ file[f].phase \in {"quoted", "payment_in_progress"} /\ file[f].quote \notin expired

\* The tests before a payment.
Payable(f) == Exists(f) /\ file[f].phase = "quoted" /\ file[f].quote \notin expired

\* Another run has read the same quote and not yet recorded it.
AlsoRead(p, q) ==
  \E o \in Procs \ {p} :
    /\ At(o, "checking") \/ (At(o, "saving") /\ proc[o].phase = "payment_in_progress")
    /\ proc[o].quote = q

\* The confirmation runs read the file: each accepts the files of its own flow only.
Load(p, f) ==
  /\ Payable(f) /\ Turns(p, file[f].flow)
  /\ Goes(p, [pc |-> IF file[f].flow = "main" THEN "saving" ELSE "checking",
              flow |-> file[f].flow, path |-> f, quote |-> file[f].quote,
              phase |-> "payment_in_progress", proof |-> FALSE])
  /\ raced' = IF AlsoRead(p, file[f].quote) THEN raced \cup {file[f].quote} ELSE raced
  /\ UNCHANGED <<file, mission, quotes, expired, pays>>

\* The compatibility client asks for the mission only now.
Check(p) ==
  /\ At(p, "checking")
  /\ IF mission = "executing" THEN Saving(p, "payment_in_progress", FALSE) ELSE Ends(p)
  /\ UNCHANGED <<file, started, mission, quotes, expired, pays, raced>>

\* Mutant: saveState never creates exclusively.
NeverExclusive(p) == FALSE

\* saveState(..., true): fails if the file exists.
Exclusive(p) == proc[p].flow = "main" /\ proc[p].phase = "quoted"

\* What a run does after writing a phase.
AfterSave(p) ==
  CASE proc[p].phase = "payment_in_progress" -> Goes(p, [proc[p] EXCEPT !.pc = "paying"])
    [] proc[p].phase = "paid_response_received" /\ proc[p].proof ->
         Saving(p, "paid_pending_verification", TRUE)
    [] proc[p].phase = "paid_pending_verification" ->
         Goes(p, [proc[p] EXCEPT !.pc = "verifying"])
    [] OTHER -> Ends(p)

\* saveState, whole, cut short by the end of the process, or refused.
Save(p) ==
  /\ At(p, "saving")
  /\ LET f == proc[p].path
     IN  IF Exclusive(p) /\ file[f] # None
         THEN Ends(p) /\ UNCHANGED file
         ELSE \/ /\ file' = [file EXCEPT ![f] = [flow |-> proc[p].flow, phase |-> proc[p].phase,
                                                 quote |-> proc[p].quote]]
                 /\ AfterSave(p)
              \/ file' = [file EXCEPT ![f] = Torn] /\ Ends(p)
  /\ UNCHANGED <<started, mission, quotes, expired, pays, raced>>

\* onchainos payment pay: the money moves or not, and the answer says so, says
\* something else, or does not come.
PayMain(p) ==
  /\ At(p, "paying") /\ proc[p].flow = "main"
  /\ \/ \E proof \in BOOLEAN : Saving(p, "paid_response_received", proof)
     \/ Saving(p, "payment_failed", FALSE)
     \/ Ends(p)
  /\ pays' = [pays EXCEPT ![proc[p].quote] = @ + 1]
  /\ UNCHANGED <<file, started, mission, quotes, expired, raced>>

\* onchainos signs, and the signed request is replayed.
PayCompat(p) ==
  /\ At(p, "paying") /\ proc[p].flow = "compat"
  /\ \/ /\ \/ Saving(p, "paid_pending_verification", TRUE)
           \/ \E phase \in {"paid_response_missing_proof", "payment_failed",
                            "payment_ambiguous"} : Saving(p, phase, FALSE)
        /\ pays' = [pays EXCEPT ![proc[p].quote] = @ + 1]
     \/ Saving(p, "payment_failed", FALSE) /\ UNCHANGED pays
  /\ UNCHANGED <<file, started, mission, quotes, expired, raced>>

\* The recovery run, of the main client only.
Resume(p, f) ==
  /\ Turns(p, "main")
  /\ Exists(f) /\ file[f].flow = "main" /\ file[f].phase = "paid_pending_verification"
  /\ Goes(p, [pc |-> "verifying", flow |-> "main", path |-> f, quote |-> file[f].quote,
              phase |-> "paid_pending_verification", proof |-> TRUE])
  /\ UNCHANGED <<file, mission, quotes, expired, pays, raced>>

\* Mutant: every answer is a delivery.
FinalPhaseOfAny(state) == "delivered"

FinalPhase(state) == IF state = "delivered" THEN "delivered" ELSE "needs_review"

\* Mutant: a refused verification needs review.
RefusedToReview(p) == Saving(p, "needs_review", FALSE)

\* The verification was refused or its answer is lost: the file stays as it is.
Refused(p) == Ends(p)

\* The service verifies the proof; a delivery is final.
Verify(p) ==
  /\ At(p, "verifying")
  /\ \/ Refused(p) /\ UNCHANGED mission
     \/ /\ mission' \in IF mission = "delivered" THEN {mission}
                                                ELSE {"needs_review", "delivered"}
        /\ Saving(p, FinalPhase(mission'), FALSE) \/ Refused(p)
  /\ UNCHANGED <<file, started, quotes, expired, pays, raced>>

Crash(p) ==
  /\ proc[p] # None \/ p \in started
  /\ Ends(p) /\ started' = started \ {p}
  /\ UNCHANGED <<file, mission, quotes, expired, pays, raced>>

Expire ==
  /\ \E q \in (1 .. quotes) \ expired : expired' = expired \cup {q}
  /\ UNCHANGED <<file, started, proc, mission, quotes, pays, raced>>

Next ==
  \/ Expire
  \/ \E p \in Procs :
       \/ Start(p) \/ Check(p) \/ Save(p) \/ PayMain(p) \/ PayCompat(p) \/ Verify(p) \/ Crash(p)
       \/ \E f \in Paths :
            Load(p, f) \/ Resume(p, f) \/ \E flow \in Flows : Quote(p, flow, f)

Spec == Init /\ [][Next]_vars

-----------------------------------------------------------------------------
(* Properties. *)

\* "irreversibly marks it payment_in_progress, preventing a blind second payment
\* after a crash or ambiguous CLI result" (README.md): a quote is paid twice only if
\* two confirmations read it before either marked it.
PaidOncePerQuote ==
  \A q \in Quotes : pays[q] > 1 => q \in raced

\* "never overwrite payment state" (prepare-okx-bill.mjs): a file that records a
\* payment becomes a quote again only by the compatibility client, which writes
\* over whatever is there.
PaymentStateIsKept ==
  [][\A f \in Paths :
       Exists(f) /\ file[f].phase # "quoted" /\ file'[f] \in Files
         => (file'[f].phase = "quoted" => file'[f].flow = "compat")]_vars

Sealed(q) ==
  \E f \in Paths :
    Exists(f) /\ file[f].quote = q /\ file[f].phase = "paid_pending_verification"

\* The sealed proof of a payment is the only way to its delivery: it stays until the
\* service has verified it, unless two runs raced for the payment, or a run for
\* another quote writes the file, which only the compatibility client leads to.
SealedProofIsKept ==
  [][\A q \in Quotes :
       Sealed(q) /\ ~Sealed(q)' =>
         \/ mission # "executing" \/ q \in raced
         \/ \E p \in Procs : At(p, "saving") /\ proc[p].quote # q /\ proc[p]' # proc[p]]_vars

\* What a buyer reads in a file as delivered is delivered at the service.
DeliveredIsTrue ==
  \A f \in Paths : Exists(f) /\ file[f].phase = "delivered" => mission = "delivered"
=============================================================================
