----------------------------- MODULE AccessPolicy -----------------------------
(***************************************************************************)
(* What the service promises of the bindings it manages, without a word on *)
(* listings, items, calls or their order.                                  *)
(*                                                                         *)
(* A login settles what its account should have, gives and takes one grant *)
(* at a time, and may give up at any moment.  A token is issued only when  *)
(* the login has seen each grant of the account as it wants it, at some    *)
(* moment since it decided: not at the same moment, since other logins of  *)
(* the account may be under way.                                           *)
(***************************************************************************)
EXTENDS Naturals, TLAPS

CONSTANTS
  Requests,      \* slots for logins
  Users,         \* accounts
  Grants,        \* the bindings there can be
  OwnerOf,       \* the account a grant is for
  Asked,         \* for each account, the sets of grants that may be asked for
  Enforced,      \* whether grants are managed at all
  Nobody         \* no account

(* A binding is for one account, and accounts are granted their own.       *)
GrantsHaveOwners ==
  /\ OwnerOf \in [Grants -> Users]
  /\ \A u \in Users : \A wants \in Asked[u] : \A k \in wants : k \in Grants /\ OwnerOf[k] = u

VARIABLES
  held,          \* the grants in force
  phase,         \* how far a login is, or how it ended
  subject,       \* the account it is for
  wanted,        \* what it decided the account should have
  settled        \* the grants it has seen as it wants them

vars == <<held, phase, subject, wanted, settled>>

Ended == {"idle", "issued", "refused"}

Init ==
  /\ held = {}
  /\ phase = [r \in Requests |-> "idle"]
  /\ subject = [r \in Requests |-> Nobody]
  /\ wanted = [r \in Requests |-> {}]
  /\ settled = [r \in Requests |-> {}]

-----------------------------------------------------------------------------
Own(u) == {k \in Grants : OwnerOf[k] = u}

(* The grants of r's account that are as r wants them while grants are in force. *)
Right(r, grants) == {k \in Own(subject[r]) : k \in grants <=> k \in wanted[r]}

Begin(r, u) ==
  /\ phase[r] \in Ended
  /\ phase' = [phase EXCEPT ![r] = "preparing"]
  /\ subject' = [subject EXCEPT ![r] = u]
  /\ UNCHANGED <<held, wanted, settled>>

Decide(r) ==
  /\ phase[r] = "preparing"
  /\ phase' = [phase EXCEPT ![r] = "enforcing"]
  /\ \E wants \in IF Enforced THEN Asked[subject[r]] ELSE {{}} :
       wanted' = [wanted EXCEPT ![r] = wants]
  /\ UNCHANGED <<held, subject, settled>>

Give(r) == \E k \in wanted[r] \ held : held' = held \cup {k}

Take(r) == \E k \in (held \cap Own(subject[r])) \ wanted[r] : held' = held \ {k}

(* The login sees grants, before or after what it does, and goes on.       *)
Observe(r) ==
  /\ \E seen \in SUBSET (Right(r, held') \ settled[r]) :
       settled' = [settled EXCEPT ![r] = @ \cup seen]
  /\ UNCHANGED <<phase, subject, wanted>>

End(r, outcome) ==
  /\ phase' = [phase EXCEPT ![r] = outcome]
  /\ subject' = [subject EXCEPT ![r] = Nobody]
  /\ wanted' = [wanted EXCEPT ![r] = {}]
  /\ settled' = [settled EXCEPT ![r] = {}]

(* The login may give up with the effect of its last call in place.        *)
Enforce(r) ==
  /\ Enforced /\ phase[r] = "enforcing"
  /\ Give(r) \/ Take(r) \/ UNCHANGED held
  /\ Observe(r) \/ End(r, "refused")

Refuse(r) ==
  /\ phase[r] \notin Ended
  /\ End(r, "refused")
  /\ UNCHANGED held

Issue(r) ==
  /\ phase[r] = "enforcing"
  /\ Enforced => settled[r] = Own(subject[r])
  /\ End(r, "issued")
  /\ UNCHANGED held

Next ==
  \E r \in Requests :
    \/ \E u \in Users : Begin(r, u)
    \/ Decide(r) \/ Enforce(r) \/ Refuse(r) \/ Issue(r)

Spec == Init /\ [][Next]_vars

-----------------------------------------------------------------------------
(* Properties. *)

(***************************************************************************)
(* A grant that a login has seen as it wants it becomes otherwise only by  *)
(* another login of the same account that wants other grants: logins of    *)
(* other accounts, and logins that agree, undo nothing.                    *)
(***************************************************************************)
OnlyRivalsUnsettle ==
  [][\A r \in Requests : \A k \in settled[r] :
       (k \in held <=> k \in wanted[r]) /\ ~(k \in held' <=> k \in wanted[r]) =>
         \E s \in Requests \ {r} :
           /\ subject[s] = subject[r]
           /\ phase[s] = "enforcing" /\ wanted[s] # wanted[r]]_vars

-----------------------------------------------------------------------------
(* What is proved of the promise itself. *)

(* A login wants and has seen grants of its account only, and none before  *)
(* it has decided.                                                         *)
OwnGrants ==
  /\ phase \in [Requests -> Ended \cup {"preparing", "enforcing"}]
  /\ subject \in [Requests -> Users \cup {Nobody}]
  /\ wanted \in [Requests -> SUBSET Grants] /\ settled \in [Requests -> SUBSET Grants]
  /\ \A r \in Requests :
       /\ phase[r] \notin Ended => subject[r] \in Users
       /\ phase[r] # "enforcing" => wanted[r] = {} /\ settled[r] = {}
       /\ wanted[r] \cup settled[r] \subseteq Own(subject[r])

(***************************************************************************)
(* Logins want and settle grants of their own account only.                *)
(***************************************************************************)
LEMMA OwnGrantsOnly ==
  ASSUME GrantsHaveOwners
  PROVE  Spec => []OwnGrants
<1>1. Init => OwnGrants
  BY DEF Init, OwnGrants, Ended, Own
<1>2. OwnGrants /\ [Next]_vars => OwnGrants'
  <2> SUFFICES ASSUME OwnGrants, [Next]_vars PROVE OwnGrants'
    OBVIOUS
  <2>1. ASSUME NEW r \in Requests, NEW u \in Users, Begin(r, u) PROVE OwnGrants'
    BY <2>1 DEF OwnGrants, Begin, Own, Ended
  <2>2. ASSUME NEW r \in Requests, Decide(r) PROVE OwnGrants'
    <3>1. subject[r] \in Users /\ settled[r] = {}
      BY <2>2 DEF OwnGrants, Decide, Ended
    <3>2. PICK wants \in IF Enforced THEN Asked[subject[r]] ELSE {{}} :
            wanted' = [wanted EXCEPT ![r] = wants]
      BY <2>2 DEF Decide
    <3>3. wants \in SUBSET Grants /\ wants \subseteq Own(subject[r])
      BY <3>1 DEF GrantsHaveOwners, Own
    <3> QED
      BY <2>2, <3>1, <3>2, <3>3 DEF OwnGrants, Decide, Own, Ended
  <2>3. ASSUME NEW r \in Requests, NEW outcome \in {"issued", "refused"}, End(r, outcome)
        PROVE  OwnGrants'
    BY <2>3 DEF OwnGrants, End, Own, Ended
  <2>4. ASSUME NEW r \in Requests, phase[r] = "enforcing", Observe(r) PROVE OwnGrants'
    <3>1. PICK seen \in SUBSET (Right(r, held') \ settled[r]) :
            settled' = [settled EXCEPT ![r] = settled[r] \cup seen]
      BY <2>4 DEF Observe
    <3>2. seen \subseteq Own(subject[r]) /\ Own(subject[r]) \subseteq Grants
      BY <3>1 DEF Right, Own
    <3> QED
      BY <2>4, <3>1, <3>2 DEF OwnGrants, Observe, Own, Ended
  <2>5. CASE UNCHANGED vars
    BY <2>5 DEF OwnGrants, vars, Own
  <2> QED
    BY <2>1, <2>2, <2>3, <2>4, <2>5 DEF Next, Enforce, Refuse, Issue
<1> QED
  BY <1>1, <1>2, PTL DEF Spec

(***************************************************************************)
(* The promise implies OnlyRivalsUnsettle: what a login has seen as it     *)
(* wants it is undone by rivals only.                                      *)
(***************************************************************************)
THEOREM RivalsOnly ==
  ASSUME GrantsHaveOwners
  PROVE  Spec => OnlyRivalsUnsettle
<1> DEFINE Undone(r, k) == (k \in held <=> k \in wanted[r]) /\ ~(k \in held' <=> k \in wanted[r])
           Rival(s, r)  == subject[s] = subject[r] /\ phase[s] = "enforcing" /\ wanted[s] # wanted[r]
<1>1. ASSUME OwnGrants, [Next]_vars, NEW r \in Requests, NEW k \in settled[r], Undone(r, k)
      PROVE  \E s \in Requests \ {r} : Rival(s, r)
  <2>1. held' # held
    BY <1>1
  <2>2. PICK s \in Requests : Enforce(s) /\ (Give(s) \/ Take(s))
    BY <1>1, <2>1 DEF Next, Begin, Decide, Enforce, Refuse, Issue, vars
  <2>3. OwnerOf[k] = subject[r]
    BY <1>1 DEF OwnGrants, Own
  <2>4. CASE Give(s)
    <3>1. k \in wanted[s] /\ k \notin held /\ k \in held'
      BY <1>1, <2>4 DEF Give
    <3>2. OwnerOf[k] = subject[s]
      BY <1>1, <3>1 DEF OwnGrants, Own
    <3> QED
      BY <1>1, <2>2, <2>3, <3>1, <3>2 DEF Enforce
  <2>5. CASE Take(s)
    <3>1. k \in Own(subject[s]) /\ k \notin wanted[s] /\ k \in held
      BY <1>1, <2>5 DEF Take
    <3> QED
      BY <1>1, <2>2, <2>3, <3>1 DEF Enforce, Own
  <2> QED
    BY <2>2, <2>4, <2>5
<1>2. OwnGrants /\ [Next]_vars =>
        [\A r \in Requests : \A k \in settled[r] :
           (k \in held <=> k \in wanted[r]) /\ ~(k \in held' <=> k \in wanted[r]) =>
             \E s \in Requests \ {r} :
               /\ subject[s] = subject[r]
               /\ phase[s] = "enforcing" /\ wanted[s] # wanted[r]]_vars
  BY <1>1
<1> QED
  BY <1>2, OwnGrantsOnly, PTL DEF Spec, OnlyRivalsUnsettle

=============================================================================
