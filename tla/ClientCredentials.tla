-------------------------- MODULE ClientCredentials --------------------------
(***************************************************************************)
(* The credential plugin, client/kerbernetes: kubectl runs it for every    *)
(* command, so that several invocations of one user may be under way over  *)
(* one credentials file.  An invocation prints the file while what it      *)
(* holds has not expired, and otherwise asks the server for a new one,     *)
(* writes it to the file and prints the file.                              *)
(*                                                                         *)
(* Each command that looks at the file or changes it is a step, a redirect *)
(* being two: the shell truncates the file before echo writes it.  The     *)
(* script runs under set -e.  Credentials are told apart by their expiry   *)
(* alone; they have one length, so that of two writes the later one stands.*)
(*                                                                         *)
(* The clock never stops.  A time is written as what is left until then,   *)
(* and a tick of the clock takes one from every time there is.             *)
(*                                                                         *)
(* Operators announced as "Faulty" are what a slip in the code would have  *)
(* made of the operator after them; no specification uses them.            *)
(***************************************************************************)
EXTENDS Integers, Sequences

CONSTANTS
  Invocations,   \* slots for concurrent invocations; a slot is reused
  Lifetime,      \* how long the server's credentials last, TOKEN_DURATION
  Absent,        \* no file, no output
  MaxWait,       \* bound on the ticks an invocation waits after a look at the time
  MaxKills,      \* bound on invocations that are killed
  MaxRemovals    \* bound on removals of the file by the user

ASSUME LifetimeAssumption == Lifetime \in Nat \ {0}

ASSUME BoundAssumption ==
  MaxWait \in Nat /\ MaxKills \in Nat /\ MaxRemovals \in Nat

(* The time left until an expiry, negative after it; how long ago is told  *)
(* apart only as far as an invocation can have waited meanwhile.           *)
TimeLeft == -MaxWait .. Lifetime

(* The text of credentials, by their expiry; an empty text has none.       *)
Credentials == {<<>>} \cup {<<left>> : left \in TimeLeft}

ASSUME AbsentAssumption == Absent \notin Credentials

VARIABLES
  file,          \* CACHE_FILE: Absent, or the credentials in it, none or one
  pc,            \* the command an invocation runs next, or how it ended
  expiry,        \* EXPIRY
  waited,        \* ticks since it read EXPIRY, NOW_UTC or the server's answer
  body,          \* BODY: the credentials the server sent
  opened,        \* whether the file it has open for writing is still there
  printed,       \* what the invocation wrote to its standard output
  meddled,       \* history: another one opened or wrote the file meanwhile
  kills, removals

locals == <<expiry, waited, body, opened, printed, meddled>>
vars   == <<file, pc, locals, kills, removals>>

Commands ==
  {"test", "jq", "date", "catCached", "curl", "test200", "truncate", "echo", "cat"}

Ended == {"idle", "succeeded", "failed", "killed"}

TypeOK ==
  /\ file \in Credentials \cup {Absent}
  /\ pc \in [Invocations -> Commands \cup Ended]
  /\ expiry \in [Invocations -> TimeLeft]
  /\ waited \in [Invocations -> 0 .. MaxWait]
  /\ body \in [Invocations -> Credentials]
  /\ opened \in [Invocations -> BOOLEAN]
  /\ printed \in [Invocations -> Credentials \cup {Absent}]
  /\ meddled \in [Invocations -> BOOLEAN]
  /\ kills \in 0 .. MaxKills /\ removals \in 0 .. MaxRemovals

Init ==
  /\ file = Absent
  /\ pc = [i \in Invocations |-> "idle"]
  /\ expiry = [i \in Invocations |-> 0]
  /\ waited = [i \in Invocations |-> 0]
  /\ body = [i \in Invocations |-> <<>>]
  /\ opened = [i \in Invocations |-> FALSE]
  /\ printed = [i \in Invocations |-> Absent]
  /\ meddled = [i \in Invocations |-> FALSE]
  /\ kills = 0 /\ removals = 0

-----------------------------------------------------------------------------
(* The cached credentials. *)

GoTo(i, command) == pc' = [pc EXCEPT ![i] = command]

(* kubectl runs the plugin. *)
Start(i) ==
  /\ pc[i] \in Ended
  /\ GoTo(i, "test")
  /\ expiry' = [expiry EXCEPT ![i] = 0]
  /\ waited' = [waited EXCEPT ![i] = 0]
  /\ body' = [body EXCEPT ![i] = <<>>]
  /\ opened' = [opened EXCEPT ![i] = FALSE]
  /\ printed' = [printed EXCEPT ![i] = Absent]
  /\ meddled' = [meddled EXCEPT ![i] = FALSE]
  /\ UNCHANGED <<file, kills, removals>>

TestFile(i) ==
  /\ pc[i] = "test"
  /\ GoTo(i, IF file = Absent THEN "curl" ELSE "jq")
  /\ UNCHANGED <<file, locals, kills, removals>>

(* No expiry is found in an empty file, nor in one that is gone by now.    *)
ReadExpiry(i) ==
  /\ pc[i] = "jq"
  /\ \/ /\ file # Absent /\ file # <<>>
        /\ expiry' = [expiry EXCEPT ![i] = file[1]]
        /\ waited' = [waited EXCEPT ![i] = 0]
        /\ GoTo(i, "date")
     \/ /\ file = Absent \/ file = <<>>
        /\ GoTo(i, "failed")
        /\ UNCHANGED <<expiry, waited>>
  /\ UNCHANGED <<file, body, opened, printed, meddled, kills, removals>>

(* Faulty: credentials that expire this very second still count. *)
CompareLate(i) ==
  /\ pc[i] = "date"
  /\ waited' = [waited EXCEPT ![i] = 0]
  /\ IF expiry[i] >= 0
     THEN GoTo(i, "catCached")
     ELSE GoTo(i, "curl")
  /\ UNCHANGED <<file, expiry, body, opened, printed, meddled, kills, removals>>

(* Faulty: expired credentials end the invocation. *)
CompareOrFail(i) ==
  /\ pc[i] = "date"
  /\ waited' = [waited EXCEPT ![i] = 0]
  /\ IF expiry[i] > 0
     THEN GoTo(i, "catCached")
     ELSE GoTo(i, "failed")
  /\ UNCHANGED <<file, expiry, body, opened, printed, meddled, kills, removals>>

(* Both are UTC times of one format, so that their order as strings is     *)
(* that of the times.                                                      *)
Compare(i) ==
  /\ pc[i] = "date"
  /\ waited' = [waited EXCEPT ![i] = 0]
  /\ IF expiry[i] > 0
     THEN GoTo(i, "catCached")
     ELSE GoTo(i, "curl")
  /\ UNCHANGED <<file, expiry, body, opened, printed, meddled, kills, removals>>

(* A cat that fails takes the invocation to the request for new ones.      *)
PrintCached(i) ==
  /\ pc[i] = "catCached"
  /\ \/ /\ file # Absent
        /\ printed' = [printed EXCEPT ![i] = file]
        /\ GoTo(i, "succeeded")
     \/ /\ file = Absent
        /\ GoTo(i, "curl")
        /\ UNCHANGED printed
  /\ UNCHANGED <<file, expiry, waited, body, opened, meddled, kills, removals>>

-----------------------------------------------------------------------------
(* New credentials.  curl writes to a temporary file of the invocation's own *)
(* which it reads back at once into BODY.                                  *)

(* The server's answer: credentials, or none with another status than 2xx. *)
Answered(i) ==
  /\ pc[i] = "curl"
  /\ \E answer \in {<<Lifetime>>, <<>>} : body' = [body EXCEPT ![i] = answer]
  /\ waited' = [waited EXCEPT ![i] = 0]
  /\ GoTo(i, "test200")
  /\ UNCHANGED <<file, expiry, opened, printed, meddled, kills, removals>>

(* Faulty: curl was told to write into the credentials file. *)
CurlFailsInPlace(i) ==
  /\ pc[i] = "curl"
  /\ file' = <<>>
  /\ GoTo(i, "failed")
  /\ UNCHANGED <<locals, kills, removals>>

(* curl fails, in an assignment, which under set -e ends the script: what  *)
(* stands below for this case, from CURL_EXIT=$? on, is not reached.       *)
CurlFails(i) ==
  /\ pc[i] = "curl"
  /\ GoTo(i, "failed")
  /\ UNCHANGED <<file, locals, kills, removals>>

CheckStatus(i) ==
  /\ pc[i] = "test200"
  /\ GoTo(i, IF body[i] # <<>> THEN "truncate" ELSE "failed")
  /\ UNCHANGED <<file, locals, kills, removals>>

(* The others find the file changed under their hands. *)
Meddle(i) == meddled' = [j \in Invocations |-> meddled[j] \/ j # i]

(* echo "$BODY" > "$CACHE_FILE" *)
Truncate(i) ==
  /\ pc[i] = "truncate"
  /\ file' = <<>>
  /\ opened' = [opened EXCEPT ![i] = TRUE]
  /\ Meddle(i)
  /\ GoTo(i, "echo")
  /\ UNCHANGED <<expiry, waited, body, printed, kills, removals>>

(* Faulty: the redirect appends. *)
WriteAppending(i) ==
  /\ pc[i] = "echo"
  /\ file' = IF opened[i] THEN file \o body[i] ELSE file
  /\ opened' = [opened EXCEPT ![i] = FALSE]
  /\ Meddle(i)
  /\ GoTo(i, "cat")
  /\ UNCHANGED <<expiry, waited, body, printed, kills, removals>>

(* A file removed since it was opened is written for nobody. *)
Write(i) ==
  /\ pc[i] = "echo"
  /\ file' = IF opened[i] THEN body[i] ELSE file
  /\ opened' = [opened EXCEPT ![i] = FALSE]
  /\ Meddle(i)
  /\ GoTo(i, "cat")
  /\ UNCHANGED <<expiry, waited, body, printed, kills, removals>>

PrintNew(i) ==
  /\ pc[i] = "cat"
  /\ printed' = [printed EXCEPT ![i] = file]
  /\ GoTo(i, IF file = Absent THEN "failed" ELSE "succeeded")
  /\ UNCHANGED <<file, expiry, waited, body, opened, meddled, kills, removals>>

-----------------------------------------------------------------------------
(* Around the invocations. *)

(* An invocation is interrupted, or its disk is full. *)
Kill(i) ==
  /\ pc[i] \in Commands
  /\ kills < MaxKills
  /\ kills' = kills + 1
  /\ GoTo(i, "killed")
  /\ opened' = [opened EXCEPT ![i] = FALSE]
  /\ UNCHANGED <<file, expiry, waited, body, printed, meddled, removals>>

(* The commands between a look at the time, in the file, at the clock or in *)
(* the server's answer, and the next one or the output.                    *)
Looked == {"date", "catCached", "test200", "truncate", "echo", "cat"}

Sooner(left) == IF left > -MaxWait THEN left - 1 ELSE left

Older(text) == IF text \in {Absent, <<>>} THEN text ELSE <<Sooner(text[1])>>

(* What was printed keeps the time left when it was.                       *)
Tick ==
  /\ \A i \in Invocations : pc[i] \in Looked => waited[i] < MaxWait
  /\ waited' = [i \in Invocations |-> IF pc[i] \in Looked THEN waited[i] + 1 ELSE waited[i]]
  /\ file' = Older(file)
  /\ expiry' = [i \in Invocations |-> Sooner(expiry[i])]
  /\ body' = [i \in Invocations |-> Older(body[i])]
  /\ UNCHANGED <<pc, opened, printed, meddled, kills, removals>>

UserRemovesFile ==
  /\ file # Absent
  /\ removals < MaxRemovals
  /\ removals' = removals + 1
  /\ file' = Absent
  /\ opened' = [i \in Invocations |-> FALSE]
  /\ UNCHANGED <<pc, expiry, waited, body, printed, meddled, kills>>

Run(i) ==
  \/ TestFile(i) \/ ReadExpiry(i) \/ Compare(i) \/ PrintCached(i)
  \/ Answered(i) \/ CurlFails(i) \/ CheckStatus(i)
  \/ Truncate(i) \/ Write(i) \/ PrintNew(i)

Next ==
  \/ \E i \in Invocations : Start(i) \/ Run(i) \/ Kill(i)
  \/ Tick \/ UserRemovesFile

Spec == Init /\ [][Next]_vars

(***************************************************************************)
(* A script that can run runs; the user goes on using kubectl, and the     *)
(* server does not refuse every request.                                   *)
(***************************************************************************)
Fairness ==
  /\ \A i \in Invocations : WF_vars(Run(i))
  /\ \A i \in Invocations : WF_vars(Start(i))
  /\ \A i \in Invocations : SF_vars(Answered(i) /\ body'[i] # <<>>)

FairSpec == Spec /\ Fairness

-----------------------------------------------------------------------------
(* Properties. *)

(***************************************************************************)
(* An invocation that succeeds, and during which no other one touched the  *)
(* file, prints credentials, and they had not expired when it last looked  *)
(* at the clock or heard from the server: whatever cut earlier invocations *)
(* short, whenever the user removes the file, and however the time passes  *)
(* between the commands (the comparison of EXPIRY with NOW_UTC and the two *)
(* cat commands).                                                          *)
(***************************************************************************)
PrintsUnexpired ==
  \A i \in Invocations : pc[i] = "succeeded" /\ ~meddled[i] =>
    \E left \in TimeLeft : printed[i] = <<left>> /\ left + waited[i] > 0

(***************************************************************************)
(* However invocations overlap, an empty file, which makes the others      *)
(* fail as "invalid", is one that an invocation is about to write, unless  *)
(* one was killed.                                                         *)
(***************************************************************************)
EmptyIsBeingWritten ==
  file = <<>> /\ kills = 0 => \E i \in Invocations : pc[i] = "echo" /\ opened[i]

GivesOut(i) == pc[i] = "succeeded" /\ printed[i] # <<>>

WasCut == <>[](file = <<>> /\ kills > 0)

(***************************************************************************)
(* However invocations overlap and however often credentials expire, some  *)
(* invocation goes on giving out credentials, or an interruption has left  *)
(* the file empty for good, as nothing but its removal by the user can     *)
(* mend.  Which one is not promised: an invocation fails as "invalid"      *)
(* whenever it meets another between truncate and echo, and nothing keeps  *)
(* it from meeting one every time.                                         *)
(* This rests on credentials that outlast the few commands between a look  *)
(* at the time and the output by far, 2 * MaxWait < Lifetime.              *)
(***************************************************************************)
GoesOnOrWasCut == []<>(\E i \in Invocations : GivesOut(i)) \/ WasCut

(***************************************************************************)
(* An invocation is kept from giving out credentials for ever only by      *)
(* others that renew theirs again and again, or by such an interruption.   *)
(***************************************************************************)
EachGoesOnOrIsOvertaken ==
  \A i \in Invocations :
    \/ []<>GivesOut(i)
    \/ []<>(\E j \in Invocations \ {i} : pc[j] = "truncate")
    \/ WasCut

=============================================================================
