--------------------------- MODULE ServiceShepherd ---------------------------
(***************************************************************************)
(* Agent Smith's service shepherd, scripts/smith-service-shepherd.py: one   *)
(* process under launchd that looks at the services, compares what it finds *)
(* critical with what its status file says it found last, alerts the        *)
(* operator when a healthy record turns critical, and overwrites the file.  *)
(***************************************************************************)
EXTENDS Naturals, FiniteSets

CONSTANTS
    Checks,         \* what is looked at: launch agents, Docker, the model route
    MaxShDeaths,    \* bound: deaths of the process, which launchd restarts
    MaxRefusals     \* bound: alerts that Discord does not take

(* A status file that is not there, or was cut off while it was written.     *)
Missing == "missing"
Torn    == "torn"

ASSUME ShepherdOK ==
    /\ IsFiniteSet(Checks) /\ Checks # {}
    /\ MaxShDeaths \in Nat /\ MaxRefusals \in Nat

(* What the file may hold.  The empty set is a healthy record; so is the file *)
(* of an earlier version, which has no escalation in it.                     *)
Healthy == [is |-> "report", reasons |-> {}]
Reports == [is : {"report"}, reasons : SUBSET Checks]
Unread(what) == [is |-> what, reasons |-> {}]
Files   == Reports \cup {Unread(Missing), Unread(Torn)}

VARIABLES
    failing,    \* the checks that would fail now
    statusFile, \* STATUS_PATH
    shPhase,    \* "idle", "looking", "alerting", "writing" or "cut"
    toLook,     \* checks this cycle has not made yet
    reasons,    \* what it found critical
    told,       \* history: alerts delivered since the file last turned healthy
    silent,     \* history: recorded outages that no alert was delivered for
    quiet,      \* history: the outage on record is counted in silent
    unseen,     \* history: 1 when there was no healthy record to begin with
    shDeaths, refusals

shVars == <<failing, statusFile, shPhase, toLook, reasons, told, silent, quiet, unseen,
            shDeaths, refusals>>
told3  == <<told, silent, quiet>>
faults == <<unseen, shDeaths, refusals>>

ShepherdInit ==
    /\ failing \in SUBSET Checks
    /\ statusFile \in Files
    /\ shPhase = "idle"
    /\ toLook = {} /\ reasons = {}
    /\ told = 0 /\ silent = 0 /\ quiet = FALSE
    /\ unseen = IF statusFile = Healthy THEN 0 ELSE 1
    /\ shDeaths = 0 /\ refusals = 0

(* Services fail and recover as they like, in the middle of a cycle too.      *)
ServiceChanges(c) ==
    /\ failing' = IF c \in failing THEN failing \ {c} ELSE failing \cup {c}
    /\ UNCHANGED <<statusFile, shPhase, toLook, reasons, told3, faults>>

BeginCycle ==
    /\ shPhase = "idle"
    /\ shPhase' = "looking"
    /\ toLook' = Checks
    /\ reasons' = {}
    /\ UNCHANGED <<failing, statusFile, told3, faults>>

Look(c) ==
    /\ shPhase = "looking"
    /\ c \in toLook
    /\ toLook' = toLook \ {c}
    /\ reasons' = reasons \cup ({c} \cap failing)
    /\ UNCHANGED <<failing, statusFile, shPhase, told3, faults>>

(* Mutant: alerts whenever what is critical has changed.                     *)
CompareReasons ==
    /\ shPhase = "looking" /\ toLook = {}
    /\ shPhase' = IF reasons # {} /\ statusFile.is = "report" /\ reasons # statusFile.reasons
                  THEN "alerting" ELSE "writing"
    /\ UNCHANGED <<failing, statusFile, toLook, reasons, told3, faults>>

(* Only a healthy record that turns critical is worth an alert: neither a     *)
(* file that cannot be read nor a change from one failure to another.        *)
Compare ==
    /\ shPhase = "looking" /\ toLook = {}
    /\ shPhase' = IF reasons # {} /\ statusFile = Healthy THEN "alerting" ELSE "writing"
    /\ UNCHANGED <<failing, statusFile, toLook, reasons, told3, faults>>

(* Discord takes the alert, whether or not the shepherd learns of it.         *)
AlertDelivered ==
    /\ shPhase = "alerting"
    /\ shPhase' = "writing"
    /\ told' = told + 1
    /\ UNCHANGED <<failing, statusFile, toLook, reasons, silent, quiet, faults>>

(* It does not, or no credential is there: the report says so, and nothing    *)
(* else comes of it.                                                         *)
AlertRefused ==
    /\ shPhase = "alerting"
    /\ refusals < MaxRefusals
    /\ shPhase' = "writing"
    /\ refusals' = refusals + 1
    /\ UNCHANGED <<failing, statusFile, toLook, reasons, told3, unseen, shDeaths>>

(* write_text empties the file before it writes.                             *)
TruncateFile ==
    /\ shPhase = "writing"
    /\ shPhase' = "cut"
    /\ statusFile' = Unread(Torn)
    /\ UNCHANGED <<failing, toLook, reasons, told3, faults>>

WriteReport ==
    /\ shPhase = "cut"
    /\ shPhase' = "idle"
    /\ statusFile' = [is |-> "report", reasons |-> reasons]
    /\ reasons' = {}
    /\ IF reasons = {}
       THEN told' = 0 /\ quiet' = FALSE /\ UNCHANGED silent
       ELSE /\ UNCHANGED told
            /\ quiet' = (quiet \/ told = 0)
            /\ silent' = IF told = 0 /\ ~quiet THEN silent + 1 ELSE silent
    /\ UNCHANGED <<failing, toLook, faults>>

(* Killed, or ended by an exception: a log that cannot be appended to, an      *)
(* answer of Discord's that is none.  launchd starts it again.               *)
ShepherdDies ==
    /\ shPhase # "idle"
    /\ shDeaths < MaxShDeaths
    /\ shDeaths' = shDeaths + 1
    /\ shPhase' = "idle"
    /\ toLook' = {} /\ reasons' = {}
    /\ UNCHANGED <<failing, statusFile, told3, unseen, refusals>>

ShepherdNext ==
    \/ \E c \in Checks : ServiceChanges(c) \/ Look(c)
    \/ BeginCycle \/ Compare \/ AlertDelivered \/ AlertRefused
    \/ TruncateFile \/ WriteReport \/ ShepherdDies

ShepherdSpec == ShepherdInit /\ [][ShepherdNext]_shVars
-----------------------------------------------------------------------------
(* Every variable holds what the code may store in it.                       *)
ShepherdTypeOK ==
    /\ failing \subseteq Checks
    /\ statusFile \in Files
    /\ shPhase \in {"idle", "looking", "alerting", "writing", "cut"}
    /\ toLook \subseteq Checks /\ reasons \subseteq Checks
    /\ told \in Nat /\ silent \in Nat /\ quiet \in BOOLEAN
    /\ unseen \in {0, 1} /\ shDeaths \in Nat /\ refusals \in Nat

(* An outage is told once, and once more at most for a shepherd that died      *)
(* between the alert and the file; one that goes by in silence has a reason   *)
(* of its own: the shepherd first looked when it was there, it died while it  *)
(* wrote the file, or Discord refused the alert, which is not tried again.    *)
OutagesAreTold ==
    /\ told <= 1 + shDeaths
    /\ silent <= unseen + shDeaths + refusals

=============================================================================
