------------------------ MODULE ClientCredentialsProofs ------------------------
(***************************************************************************)
(* Proofs about ClientCredentials: any number of invocations, of kills, of *)
(* removals of the file and of ticks of the clock.                         *)
(***************************************************************************)
EXTENDS ClientCredentials, TLAPS

-----------------------------------------------------------------------------
(* Types. *)

LEMMA RunType ==
  ASSUME TypeOK, NEW i \in Invocations, Run(i)
  PROVE  TypeOK'
<1> USE LifetimeAssumption, BoundAssumption
<1>1. CASE TestFile(i)
  BY <1>1 DEF TypeOK, TestFile, GoTo, locals, Commands
<1>2. CASE ReadExpiry(i)
  <2>1. file # Absent /\ file # <<>> => file[1] \in TimeLeft
    BY DEF TypeOK, Credentials
  <2> QED
    BY <1>2, <2>1 DEF TypeOK, ReadExpiry, GoTo, Commands, Ended
<1>3. CASE Compare(i)
  BY <1>3 DEF TypeOK, Compare, GoTo, Commands
<1>4. CASE PrintCached(i)
  BY <1>4 DEF TypeOK, PrintCached, GoTo, Commands, Ended
<1>5. CASE Answered(i)
  <2>1. {<<Lifetime>>, <<>>} \subseteq Credentials
    BY DEF Credentials, TimeLeft
  <2> QED
    BY <1>5, <2>1 DEF TypeOK, Answered, GoTo, Commands
<1>6. CASE CurlFails(i)
  BY <1>6 DEF TypeOK, CurlFails, GoTo, locals, Ended
<1>7. CASE CheckStatus(i)
  BY <1>7 DEF TypeOK, CheckStatus, GoTo, locals, Commands, Ended
<1>8. CASE Truncate(i)
  BY <1>8 DEF TypeOK, Truncate, GoTo, Meddle, Commands, Credentials
<1>9. CASE Write(i)
  BY <1>9 DEF TypeOK, Write, GoTo, Meddle, Commands
<1>10. CASE PrintNew(i)
  BY <1>10 DEF TypeOK, PrintNew, GoTo, Ended
<1> QED
  BY <1>1, <1>2, <1>3, <1>4, <1>5, <1>6, <1>7, <1>8, <1>9, <1>10 DEF Run

LEMMA InitType == Init => TypeOK
BY LifetimeAssumption, BoundAssumption DEF Init, TypeOK, Credentials, TimeLeft, Ended

LEMMA NextType == TypeOK /\ [Next]_vars => TypeOK'
<1> SUFFICES ASSUME TypeOK, [Next]_vars PROVE TypeOK'
  OBVIOUS
<1> USE LifetimeAssumption, BoundAssumption
<1>1. ASSUME NEW i \in Invocations, Start(i) PROVE TypeOK'
  <2>1. <<>> \in Credentials /\ 0 \in TimeLeft
    BY DEF Credentials, TimeLeft
  <2> QED
    BY <1>1, <2>1 DEF TypeOK, Start, GoTo, Commands
<1>2. ASSUME NEW i \in Invocations, Kill(i) PROVE TypeOK'
  BY <1>2 DEF TypeOK, Kill, GoTo, Ended
<1>3. CASE Tick
  <2>1. \A left \in TimeLeft : Sooner(left) \in TimeLeft
    BY DEF TimeLeft, Sooner
  <2>2. \A text \in Credentials : Older(text) \in Credentials
    BY <2>1 DEF Credentials, Older
  <2>3. file' \in Credentials \cup {Absent}
    BY <1>3, <2>2 DEF TypeOK, Tick, Older
  <2>4. expiry' \in [Invocations -> TimeLeft] /\ body' \in [Invocations -> Credentials]
    BY <1>3, <2>1, <2>2 DEF TypeOK, Tick
  <2>5. waited' \in [Invocations -> 0 .. MaxWait]
    BY <1>3 DEF TypeOK, Tick
  <2> QED
    BY <1>3, <2>3, <2>4, <2>5 DEF TypeOK, Tick
<1>4. CASE UserRemovesFile
  BY <1>4 DEF TypeOK, UserRemovesFile
<1>5. CASE UNCHANGED vars
  BY <1>5 DEF TypeOK, vars, locals
<1> QED
  BY <1>1, <1>2, <1>3, <1>4, <1>5, RunType DEF Next

(***************************************************************************)
(* Every reachable state is well typed: in particular the file never holds *)
(* the credentials of two invocations (echo > file).                       *)
(***************************************************************************)
THEOREM TypeCorrect == Spec => []TypeOK
BY InitType, NextType, PTL DEF Spec

-----------------------------------------------------------------------------
(* The empty file. *)

(* Who is about to write has something to write. *)
BringsCredentials == \A i \in Invocations : pc[i] \in {"truncate", "echo"} => body[i] # <<>>

FileInv == TypeOK /\ BringsCredentials /\ EmptyIsBeingWritten

LEMMA InitFileInv == Init => FileInv
BY InitType, AbsentAssumption
   DEF Init, FileInv, BringsCredentials, EmptyIsBeingWritten, Credentials

(* What the steps that leave the file alone must not take away. *)
LEMMA StillBeingWritten ==
  ASSUME FileInv, NEW i \in Invocations, file' = file,
         pc[i] \notin {"truncate", "echo"}, kills' = kills,
         \A j \in Invocations \ {i} :
           pc'[j] = pc[j] /\ opened'[j] = opened[j] /\ body'[j] = body[j],
         pc'[i] \in {"truncate", "echo"} => body'[i] # <<>>
  PROVE  BringsCredentials' /\ EmptyIsBeingWritten'
BY DEF FileInv, BringsCredentials, EmptyIsBeingWritten

LEMMA RunFileInv ==
  ASSUME FileInv, NEW i \in Invocations, Run(i)
  PROVE  BringsCredentials' /\ EmptyIsBeingWritten'
<1>1. CASE TestFile(i) \/ ReadExpiry(i) \/ Compare(i) \/ PrintCached(i)
  BY <1>1, StillBeingWritten
     DEF FileInv, TypeOK, TestFile, ReadExpiry, Compare, PrintCached, GoTo, locals
<1>2. CASE Answered(i) \/ CurlFails(i) \/ CheckStatus(i) \/ PrintNew(i)
  BY <1>2, StillBeingWritten
     DEF FileInv, TypeOK, Answered, CurlFails, CheckStatus, PrintNew, GoTo, locals
<1>3. CASE Truncate(i)
  BY <1>3 DEF FileInv, TypeOK, Truncate, GoTo, BringsCredentials, EmptyIsBeingWritten
<1>4. CASE Write(i)
  <2>1. BringsCredentials'
    BY <1>4 DEF FileInv, TypeOK, Write, GoTo, BringsCredentials
  <2>2. CASE opened[i]
    <3>1. file' # <<>>
      BY <1>4, <2>2 DEF FileInv, Write, BringsCredentials
    <3> QED
      BY <2>1, <3>1 DEF EmptyIsBeingWritten
  <2>3. CASE ~opened[i]
    BY <1>4, <2>1, <2>3 DEF FileInv, TypeOK, Write, GoTo, EmptyIsBeingWritten
  <2> QED
    BY <2>2, <2>3
<1> QED
  BY <1>1, <1>2, <1>3, <1>4 DEF Run

LEMMA NextFileInv == FileInv /\ [Next]_vars => FileInv'
<1> SUFFICES ASSUME FileInv, [Next]_vars PROVE BringsCredentials' /\ EmptyIsBeingWritten'
  BY NextType DEF FileInv
<1>1. ASSUME NEW i \in Invocations, Start(i) PROVE BringsCredentials' /\ EmptyIsBeingWritten'
  BY <1>1, StillBeingWritten DEF FileInv, TypeOK, Start, GoTo, Ended
<1>2. ASSUME NEW i \in Invocations, Kill(i) PROVE BringsCredentials' /\ EmptyIsBeingWritten'
  BY <1>2 DEF FileInv, TypeOK, Kill, GoTo, BringsCredentials, EmptyIsBeingWritten
<1>3. CASE Tick
  <2>1. /\ file' = <<>> <=> file = <<>>
        /\ \A j \in Invocations : body'[j] = <<>> <=> body[j] = <<>>
    BY <1>3, AbsentAssumption DEF FileInv, TypeOK, Tick, Older, Credentials
  <2> QED
    BY <1>3, <2>1 DEF FileInv, Tick, BringsCredentials, EmptyIsBeingWritten
<1>4. CASE UserRemovesFile
  BY <1>4, AbsentAssumption
     DEF FileInv, UserRemovesFile, BringsCredentials, EmptyIsBeingWritten, Credentials
<1>5. CASE UNCHANGED vars
  BY <1>5 DEF FileInv, vars, locals, BringsCredentials, EmptyIsBeingWritten
<1> QED
  BY <1>1, <1>2, <1>3, <1>4, <1>5, RunFileInv DEF Next

(***************************************************************************)
(* Unless an invocation was killed, an empty file is about to be written   *)
(* (echo > file), however many invocations overlap.                        *)
(***************************************************************************)
THEOREM EmptyNotForLong == Spec => []EmptyIsBeingWritten
<1>1. FileInv => EmptyIsBeingWritten
  BY DEF FileInv
<1> QED
  BY <1>1, InitFileInv, NextFileInv, PTL DEF Spec

-----------------------------------------------------------------------------
(* What is printed. *)

(* The text is that of credentials unexpired when i last looked.           *)
Unexpired(i, text) == \E left \in TimeLeft : text = <<left>> /\ left + waited[i] > 0

(* What an invocation that no other one has meddled with knows of the file. *)
Knows(i) ==
  ~meddled[i] =>
    /\ pc[i] = "date" => file \in {Absent, <<expiry[i]>>}
    /\ pc[i] = "catCached" => file = Absent \/ Unexpired(i, file)
    /\ pc[i] = "test200" => body[i] = <<>> \/ Unexpired(i, body[i])
    /\ pc[i] \in {"truncate", "echo", "cat"} => Unexpired(i, body[i])
    /\ pc[i] = "echo" /\ ~opened[i] => file = Absent
    /\ pc[i] = "cat" => file \in {Absent, body[i]}
    /\ pc[i] = "succeeded" => Unexpired(i, printed[i])

PrintInv == TypeOK /\ \A i \in Invocations : Knows(i)

LEMMA InitPrintInv == Init => PrintInv
BY InitType DEF Init, PrintInv, Knows

(* The invocation's own commands. *)
LEMMA RunKnows ==
  ASSUME PrintInv, TypeOK', NEW i \in Invocations, Run(i)
  PROVE  Knows(i)'
<1> USE LifetimeAssumption, BoundAssumption
<1> USE DEF PrintInv
<1>1. CASE TestFile(i)
  BY <1>1 DEF TypeOK, TestFile, GoTo, locals, Knows
<1>2. CASE ReadExpiry(i)
  <2>1. file # Absent /\ file # <<>> => file = <<file[1]>>
    BY DEF TypeOK, Credentials
  <2> QED
    BY <1>2, <2>1 DEF TypeOK, ReadExpiry, GoTo, Knows
<1>3. CASE Compare(i)
  <2>1. ~meddled[i] /\ expiry[i] > 0 => file = Absent \/ Unexpired(i, file)'
    BY <1>3 DEF TypeOK, Compare, Knows, Unexpired, TimeLeft
  <2> QED
    BY <1>3, <2>1 DEF TypeOK, Compare, GoTo, Knows
<1>4. CASE PrintCached(i)
  BY <1>4 DEF TypeOK, PrintCached, GoTo, Knows, Unexpired
<1>5. CASE Answered(i)
  <2>1. body'[i] = <<>> \/ Unexpired(i, body[i])'
    BY <1>5 DEF TypeOK, Answered, Unexpired, TimeLeft
  <2> QED
    BY <1>5, <2>1 DEF TypeOK, Answered, GoTo, Knows
<1>6. CASE CurlFails(i)
  BY <1>6 DEF TypeOK, CurlFails, GoTo, Knows
<1>7. CASE CheckStatus(i)
  BY <1>7 DEF TypeOK, CheckStatus, GoTo, locals, Knows, Unexpired
<1>8. CASE Truncate(i)
  BY <1>8 DEF TypeOK, Truncate, GoTo, Meddle, Knows, Unexpired
<1>9. CASE Write(i)
  BY <1>9 DEF TypeOK, Write, GoTo, Meddle, Knows, Unexpired
<1>10. CASE PrintNew(i)
  BY <1>10 DEF TypeOK, PrintNew, GoTo, Knows, Unexpired
<1> QED
  BY <1>1, <1>2, <1>3, <1>4, <1>5, <1>6, <1>7, <1>8, <1>9, <1>10 DEF Run

(* An invocation's commands leave the others what they know, or tell their *)
(* history that they do not.                                               *)
LEMMA OthersKnow ==
  ASSUME PrintInv, NEW i \in Invocations, NEW j \in Invocations \ {i},
         Start(i) \/ Run(i) \/ Kill(i)
  PROVE  Knows(j)'
<1>1. CASE Truncate(i) \/ Write(i)
  BY <1>1 DEF PrintInv, TypeOK, Truncate, Write, Meddle, Knows
<1>2. CASE ~(Truncate(i) \/ Write(i))
  <2>1. /\ file' = file
        /\ pc'[j] = pc[j] /\ expiry'[j] = expiry[j] /\ waited'[j] = waited[j]
        /\ body'[j] = body[j] /\ opened'[j] = opened[j]
        /\ printed'[j] = printed[j] /\ meddled'[j] = meddled[j]
    BY <1>2 DEF PrintInv, TypeOK, Start, Kill, Run, TestFile, ReadExpiry, Compare, PrintCached,
                Answered, CurlFails, CheckStatus, PrintNew, GoTo, locals
  <2> QED
    BY <2>1 DEF PrintInv, Knows, Unexpired
<1> QED
  BY <1>1, <1>2

(* Time passes for the texts and for who waits alike: the floor of TimeLeft *)
(* is lower than anything an invocation can have waited for.               *)
LEMMA TickKnows ==
  ASSUME PrintInv, Tick, NEW i \in Invocations
  PROVE  Knows(i)'
<1> USE LifetimeAssumption, BoundAssumption
<1>1. ASSUME pc[i] \in Looked, NEW text, Unexpired(i, text)
      PROVE  \E left \in TimeLeft : Older(text) = <<left>> /\ left + waited'[i] > 0
  <2>1. PICK left \in TimeLeft : text = <<left>> /\ left + waited[i] > 0
    BY <1>1 DEF Unexpired
  <2>2. waited[i] \in 0 .. MaxWait /\ waited[i] < MaxWait /\ waited'[i] = waited[i] + 1
    BY <1>1 DEF PrintInv, TypeOK, Tick
  <2>3. Sooner(left) = left - 1 /\ left - 1 \in TimeLeft
    BY <2>1, <2>2 DEF Sooner, TimeLeft
  <2>4. Older(text) = <<Sooner(left)>>
    BY <2>1, AbsentAssumption DEF Older, Credentials
  <2>5. (left - 1) + waited'[i] > 0
    BY <2>1, <2>2 DEF TimeLeft
  <2>6. Older(text) = <<left - 1>>
    BY <2>3, <2>4
  <2> QED
    BY <2>3, <2>5, <2>6
<1>2. pc' = pc /\ opened' = opened /\ meddled' = meddled /\ printed' = printed
  BY DEF Tick
<1>3. file' = Older(file) /\ body'[i] = Older(body[i]) /\ expiry'[i] = Sooner(expiry[i])
  BY DEF PrintInv, TypeOK, Tick
<1>4. pc[i] \notin Looked => waited'[i] = waited[i]
  BY DEF PrintInv, TypeOK, Tick
<1>5. Older(Absent) = Absent /\ Older(<<>>) = <<>> /\ Older(<<expiry[i]>>) = <<Sooner(expiry[i])>>
  BY AbsentAssumption DEF PrintInv, TypeOK, Older, Credentials
<1> QED
  BY <1>1, <1>2, <1>3, <1>4, <1>5 DEF PrintInv, Knows, Unexpired, Looked

LEMMA NextPrintInv == PrintInv /\ [Next]_vars => PrintInv'
<1> SUFFICES ASSUME PrintInv, [Next]_vars, TypeOK', NEW j \in Invocations PROVE Knows(j)'
  BY NextType DEF PrintInv
<1>1. ASSUME NEW i \in Invocations, Start(i) \/ Kill(i) PROVE Knows(j)'
  <2>1. CASE i = j
    BY <1>1, <2>1 DEF PrintInv, TypeOK, Start, Kill, GoTo, Knows
  <2> QED
    BY <1>1, <2>1, OthersKnow
<1>2. ASSUME NEW i \in Invocations, Run(i) PROVE Knows(j)'
  BY <1>2, RunKnows, OthersKnow
<1>3. CASE Tick
  BY <1>3, TickKnows
<1>4. CASE UserRemovesFile
  BY <1>4 DEF PrintInv, UserRemovesFile, Knows, Unexpired
<1>5. CASE UNCHANGED vars
  BY <1>5 DEF PrintInv, vars, locals, Knows, Unexpired
<1> QED
  BY <1>1, <1>2, <1>3, <1>4, <1>5 DEF Next

(***************************************************************************)
(* What an invocation without meddlers prints had not expired when it      *)
(* compared its expiry, or when the server answered: whenever the file is  *)
(* removed and whatever time passes between the commands.                  *)
(***************************************************************************)
THEOREM UnexpiredPrinted == Spec => []PrintsUnexpired
<1>1. PrintInv => PrintsUnexpired
  BY DEF PrintInv, Knows, PrintsUnexpired, Unexpired
<1> QED
  BY <1>1, InitPrintInv, NextPrintInv, PTL DEF Spec

=============================================================================
