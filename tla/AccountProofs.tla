---------------------------- MODULE AccountProofs -----------------------------
(***************************************************************************)
(* Account for every set of accounts and calls and every bound: which      *)
(* tokens secrets.json holds, and whose delta link and profile are stored. *)
(*                                                                         *)
(* A task carries tokens of its own from the load of the file to its write *)
(* over it, so the file is right only if all these tokens are (Carried).   *)
(* They are: only main signs in, and alone (Roles), and a reset that does  *)
(* not find every refresh ended is named late.                             *)
(***************************************************************************)
EXTENDS Account, TLAPS

\* main works until the daemon is up, the others from then on.
Roles ==
    /\ phase \in {"down", "connect", "up"} => task["main"].pc = "idle"
    /\ phase = "authorize" => task["main"].pc \in {"idle", "exchange", "save", "write"}
    /\ phase # "authorize" => task["main"].pc # "exchange"
    /\ task["main"].pc # "orphan"

\* Tokens are of an account.
Owned == \A t \in Tasks : task[t].pc # "idle" => task[t].tok.of \in Accounts

\* The parts of TypeOK.
TaskTypes == task \in [Tasks -> Step]
FileTypes == file \in Content /\ (file.state = "whole" => file.tok.of \in Accounts)
AtRest == phase # "up" => reset = "no" /\ \A t \in Tasks \ {"main"} : task[t] = Idle
RowTypes ==
    /\ phase \in {"down", "authorize", "connect", "profile", "up"}
    /\ reset \in {"no", "link", "profile", "file"}
    /\ link \in Owners /\ profile \in Owners /\ owner \in Owners
    /\ events \in 0..MaxEvents /\ faults \in 0..MaxFaults
TabTypes == tabs \in [fresh : BOOLEAN, stale : BOOLEAN]
FlagTypes == lost \in BOOLEAN /\ late \in BOOLEAN

Carrying(t) == task[t].pc \in {"refresh", "save", "write"}

\* The tokens that will be written are the owner's and as good as those on disk.
Carried ==
    /\ phase # "authorize" => \A t \in Tasks : Carrying(t) =>
          /\ ~late => task[t].tok.of = owner
          /\ owner # Nobody /\ ~lost => task[t].tok.of = owner /\ task[t].tok.good
    /\ phase = "authorize" =>
          /\ owner = Nobody \/ lost
          /\ task["main"].pc # "idle" /\ ~lost => task["main"].tok.good

\* Whose tokens, delta link and profile they are.
Names ==
    /\ ~late /\ file.state = "whole" => file.tok.of = owner
    /\ ~late /\ task["main"].pc \in {"send", "store"} => task["main"].tok.of = owner
    /\ ~late /\ reset \in {"profile", "file"} => link = Nobody
    /\ ~late /\ reset = "file" => profile = Nobody

Inv == TypeOK /\ Roles /\ Owned
Tokens == Carried /\ Names /\ TokensAgree /\ OneAccount

-----------------------------------------------------------------------------
\* What the steps do to the tasks.

\* The records of the model are in their sets, and stay there.
LEMMA Records ==
    /\ \A x \in Token : x.of \in Owners /\ x.fresh \in BOOLEAN /\ x.good \in BOOLEAN
    /\ \A s \in {"none", "empty", "whole", "torn"}, x \in Token :
          LET y == [state |-> s, tok |-> x]
          IN  y \in Content /\ y.state = s /\ y.tok = x
    /\ \A x \in Content : x.tok \in Token
    /\ \A x \in Step : x.tok \in Token
    /\ \A a \in Accounts : LET y == [of |-> a, fresh |-> TRUE, good |-> TRUE]
                           IN  y \in Token /\ y.of = a /\ y.good
BY DEF Token, Owners, Step, Content

\* An idle task has no tokens.
LEMMA IdleRecord ==
    /\ NoToken \in Token /\ NoToken.of = Nobody
    /\ Idle \in Step /\ Idle.pc = "idle" /\ Idle.tok = NoToken
BY DEF NoToken, Token, Owners, Idle, Step

Pcs == {"idle", "exchange", "refresh", "save", "write", "orphan", "send", "store"}

\* One task moves, the others stay.
Sets(t, pc, tok) ==
    /\ task' \in [Tasks -> Step]
    /\ task'[t].pc = pc /\ task'[t].tok = tok
    /\ \A u \in Tasks : u # t => task'[u] = task[u]

\* What a step does to the task that takes it.
LEMMA SetTaskSets ==
    ASSUME TypeOK, NEW t \in Tasks, NEW pc \in Pcs, NEW tok \in Token, SetTask(t, pc, tok)
    PROVE  Sets(t, pc, tok)
BY DEF TypeOK, SetTask, Sets, Step, Pcs

\* A task that is done has nothing at hand.
LEMMA IdleSets ==
    ASSUME TypeOK, NEW t \in Tasks, task' = [task EXCEPT ![t] = Idle]
    PROVE  Sets(t, "idle", NoToken)
<1>1. task \in [Tasks -> Step]
  BY DEF TypeOK
<1> QED BY <1>1, IdleRecord DEF Sets

\* A process that ends has no tasks.
LEMMA ExitSets ==
    ASSUME Exit, TypeOK
    PROVE  /\ phase' = "down" /\ reset' = "no" /\ task' \in [Tasks -> Step] /\ TabTypes'
           /\ \A t \in Tasks : task'[t] = Idle
<1>1. TabTypes'
  <2>1. tabs' = [fresh |-> FALSE, stale |-> tabs.fresh \/ tabs.stale]
    BY DEF Exit
  <2>2. (tabs.fresh \/ tabs.stale) \in BOOLEAN
    BY DEF TypeOK
  <2> QED BY <2>1, <2>2 DEF TabTypes
<1> QED BY <1>1, IdleRecord DEF Exit

\* Who gives up is idle, and if it is main all are.
LEMMA GiveUpSets ==
    ASSUME TypeOK, NEW t \in Tasks, GiveUp(t)
    PROVE  /\ task' \in [Tasks -> Step] /\ TabTypes'
           /\ task'[t] = Idle
           /\ \A u \in Tasks : task'[u] \in {Idle, task[u]}
           /\ t = "main" => phase' = "down" /\ reset' = "no" /\ \A u \in Tasks : task'[u] = Idle
           /\ t # "main" => /\ UNCHANGED <<phase, reset>>
                            /\ \A u \in Tasks : u # t => task'[u] = task[u]
<1>1. CASE t = "main"
  BY <1>1, ExitSets DEF GiveUp
<1>2. CASE t # "main"
  <2>1. task' = [task EXCEPT ![t] = Idle] /\ UNCHANGED <<phase, tabs, reset>>
    BY <1>2 DEF GiveUp
  <2>5. TabTypes'
    BY <2>1 DEF TypeOK, TabTypes
  <2>2. task \in [Tasks -> Step]
    BY DEF TypeOK
  <2>3. task' \in [Tasks -> Step] /\ task'[t] = Idle
    BY <2>1, <2>2, IdleRecord
  <2>4. \A u \in Tasks : u # t => task'[u] = task[u]
    BY <2>1, <2>2
  <2> QED BY <1>2, <2>1, <2>3, <2>4, <2>5
<1> QED BY <1>1, <1>2

\* The exchange gives main its tokens; they are bad only in a named window.
LEMMA ExchangeSets ==
    ASSUME TypeOK, Exchange
    PROVE  /\ task["main"].pc = "exchange"
           /\ faults' = faults \/ (faults < MaxFaults /\ faults' = faults + 1)
           /\ UNCHANGED <<phase, tabs, store, reset, events, owner, late>>
           /\ Sets("main", "save", task'["main"].tok)
           /\ task'["main"].tok.of = task["main"].tok.of
           /\ ~lost' => ~lost /\ task'["main"].tok.good = task["main"].tok.good
<1> DEFINE y == task["main"].tok
<1>1. y \in Token /\ y.good \in BOOLEAN /\ "main" \in Tasks
  BY Records DEF TypeOK, Tasks
<1>2. PICK g \in BOOLEAN : /\ IF g THEN UNCHANGED <<faults, lost>> ELSE Fault /\ lost' = TRUE
                           /\ SetTask("main", "save", [y EXCEPT !.good = @ /\ g])
  BY DEF Exchange
<1> DEFINE h == y.good /\ g
<1>3. h \in BOOLEAN /\ [y EXCEPT !.good = @ /\ g] = [y EXCEPT !.good = h]
  OBVIOUS
<1> HIDE DEF h, y
<1> DEFINE x == [y EXCEPT !.good = h]
<1>4. x \in Token /\ x.of = y.of /\ x.good = h
  BY <1>1, <1>3 DEF Token
<1>5. SetTask("main", "save", x)
  BY <1>2, <1>3
<1> HIDE DEF x
<1>7. Sets("main", "save", x)
  BY <1>1, <1>4, <1>5, SetTaskSets DEF Pcs
<1>6. ~lost' => h = y.good /\ ~lost
  BY <1>1, <1>2 DEF h
<1>8. task["main"].pc = "exchange" /\ UNCHANGED <<phase, tabs, store, reset, events, owner, late>>
  BY DEF Exchange
<1>9. task'["main"].tok = x
  BY <1>7 DEF Sets
<1>10. faults' = faults \/ (faults < MaxFaults /\ faults' = faults + 1)
  BY <1>2 DEF Fault
<1> QED BY <1>4, <1>6, <1>7, <1>8, <1>9, <1>10 DEF y

\* The user signs in with tokens of an account.
LEMMA ConsentSets ==
    ASSUME TypeOK, NEW a \in Accounts, Consent(a)
    PROVE  /\ Sets("main", "exchange", task'["main"].tok)
           /\ task'["main"].tok.of = a /\ task'["main"].tok.good
<1> DEFINE x == [of |-> a, fresh |-> TRUE, good |-> TRUE]
<1>1. x \in Token /\ x.of = a /\ x.good
  BY Records
<1>2. SetTask("main", "exchange", x)
  BY DEF Consent
<1> HIDE DEF x
<1>3. Sets("main", "exchange", x)
  BY <1>1, <1>2, SetTaskSets DEF Pcs, Tasks
<1>4. task'["main"].tok = x
  BY <1>3 DEF Sets
<1> QED BY <1>1, <1>3, <1>4

\* The tokens of the file are taken as they are.
LEMMA LoadSets ==
    ASSUME TypeOK, NEW t \in Tasks, Load(t), file.state = "whole"
    PROVE  \E pc \in {"refresh", "send"} : Sets(t, pc, file.tok)
<1>1. \E pc \in {"refresh", "send"} : SetTask(t, pc, file.tok)
  BY DEF Load
<1>2. file.tok \in Token
  BY Records DEF TypeOK
<1> QED BY <1>1, <1>2, SetTaskSets DEF Pcs

\* A refresh keeps the account; the new tokens are bad only in a named window.
LEMMA RefreshSets ==
    ASSUME TypeOK, NEW t \in Tasks, Refresh(t)
    PROVE  /\ task[t].pc = "refresh"
           /\ faults' = faults \/ (faults < MaxFaults /\ faults' = faults + 1)
           /\ UNCHANGED <<phase, tabs, store, reset, events, owner, late>>
           /\ Sets(t, "save", task'[t].tok)
           /\ task'[t].tok.of = task[t].tok.of
           /\ ~lost' => ~lost /\ task'[t].tok.good
<1> DEFINE y == task[t].tok
<1>1. y \in Token
  BY Records DEF TypeOK
<1>2. PICK g \in BOOLEAN : /\ IF g THEN UNCHANGED <<faults, lost>> ELSE Fault /\ lost' = TRUE
                           /\ SetTask(t, "save", [y EXCEPT !.fresh = TRUE, !.good = g])
  BY DEF Refresh
<1> DEFINE x == [y EXCEPT !.fresh = TRUE, !.good = g]
<1>3. x \in Token /\ x.of = y.of /\ x.good = g
  BY <1>1 DEF Token
<1> HIDE DEF y
<1>4. Sets(t, "save", x)
  BY <1>2, <1>3, SetTaskSets DEF Pcs
<1>5. ~lost' => g /\ ~lost
  BY <1>2
<1>6. task[t].pc = "refresh" /\ UNCHANGED <<phase, tabs, store, reset, events, owner, late>>
  BY DEF Refresh
<1>7. task'[t].tok = x
  BY <1>4 DEF Sets
<1>8. faults' = faults \/ (faults < MaxFaults /\ faults' = faults + 1)
  BY <1>2 DEF Fault
<1> QED BY <1>3, <1>4, <1>5, <1>6, <1>7, <1>8 DEF y

\* A task that steps with its tokens keeps them.
LEMMA KeepsSets ==
    ASSUME TypeOK, NEW t \in Tasks, NEW pc \in Pcs, SetTask(t, pc, task[t].tok)
    PROVE  Sets(t, pc, task[t].tok)
BY Records, SetTaskSets DEF TypeOK

\* A removed file leaves its writers without one.
LEMMA OrphanSets ==
    ASSUME TypeOK, ResetFile
    PROVE  /\ task' \in [Tasks -> Step]
           /\ \A t \in Tasks : /\ task'[t].tok = task[t].tok
                               /\ task'[t].pc = IF task[t].pc = "write" THEN "orphan"
                                                ELSE task[t].pc
                               /\ task[t] = Idle => task'[t] = Idle
BY DEF TypeOK, ResetFile, Step, Idle

\* OneDrive takes back the tokens wherever they are.
LEMMA RevokeSets ==
    ASSUME TypeOK, Revoke
    PROVE  /\ task' \in [Tasks -> Step]
           /\ lost' = TRUE /\ Event
           /\ UNCHANGED <<phase, tabs, link, profile, reset, faults, owner, late>>
           /\ \A t \in Tasks : /\ task'[t].pc = task[t].pc
                               /\ task'[t].tok.of = task[t].tok.of
                               /\ task[t] = Idle => task'[t] = Idle
<1> DEFINE r(t) == [task[t] EXCEPT !.tok.good = FALSE]
<1>1. \A t \in Tasks : task[t] \in Step
  BY DEF TypeOK
<1>2. \A t \in Tasks : /\ r(t) \in Step /\ r(t).pc = task[t].pc
                       /\ r(t).tok.of = task[t].tok.of
  BY <1>1 DEF Step, Token
<1>3. \A t \in Tasks : task[t] = Idle => r(t) = Idle
  <2>1. [Idle EXCEPT !.tok.good = FALSE] = Idle
    <3>1. [NoToken EXCEPT !.good = FALSE] = NoToken
      <4>1. \A x \in Token : x.good = FALSE => [x EXCEPT !.good = FALSE] = x
        BY DEF Token
      <4>2. NoToken.good = FALSE
        BY DEF NoToken
      <4> QED BY <4>1, <4>2, IdleRecord
    <3>2. [Idle EXCEPT !.tok = NoToken] = Idle
      BY DEF Idle
    <3>3. [Idle EXCEPT !.tok.good = FALSE] = [Idle EXCEPT !.tok = [Idle.tok EXCEPT !.good = FALSE]]
      OBVIOUS
    <3> QED BY <3>1, <3>2, <3>3, IdleRecord
  <2> QED BY <2>1
<1>4. task' = [t \in Tasks |-> r(t)]
  BY DEF Revoke
<1>5. /\ lost' = TRUE /\ Event
      /\ UNCHANGED <<phase, tabs, link, profile, reset, faults, owner, late>>
  BY DEF Revoke
<1> HIDE DEF r
<1> QED BY <1>2, <1>3, <1>4, <1>5

\* The write of a task: the tokens come to the file, or the file is torn.
LEMMA WriteSets ==
    ASSUME TypeOK, NEW t \in Tasks, SaveWrite(t)
    PROVE  /\ task[t].pc = "write" /\ file' \in Content /\ (phase # "up" => t = "main")
           /\ UNCHANGED <<tabs, link, profile, reset, events, faults>>
           /\ \/ file'.state = "whole" /\ file'.tok = task[t].tok /\ UNCHANGED lost
              \/ file'.state = "torn" /\ lost' = TRUE
<1>1. task[t].tok \in Token
  BY Records DEF TypeOK
<1>2. task[t].pc = "write" /\ (phase # "up" => t = "main")
  BY IdleRecord DEF SaveWrite, TypeOK
<1> QED BY <1>1, <1>2, IdleRecord, Records DEF SaveWrite

\* At sign-in the account becomes the owner.
LEMMA SignedInSets ==
    ASSUME TypeOK, NEW t \in Tasks, SaveWrite(t), phase = "authorize"
    PROVE  /\ Sets(t, "idle", NoToken) /\ task'[t] = Idle /\ phase' = "connect"
           /\ owner' = task[t].tok.of /\ late' \in BOOLEAN
           /\ ~late' => ~late /\ owner \in {Nobody, owner'}
<1>1. /\ task' = [task EXCEPT ![t] = Idle] /\ phase' = "connect"
      /\ owner' = task[t].tok.of
      /\ late' = (late \/ owner \notin {Nobody, task[t].tok.of})
  BY DEF SaveWrite, Saved
<1>2. Sets(t, "idle", NoToken)
  BY <1>1, IdleSets
<1>3. task'[t] = Idle
  BY <1>1 DEF TypeOK
<1> QED BY <1>1, <1>2, <1>3

\* Later the task that has saved its tokens uses them.
LEMMA SavedSets ==
    ASSUME TypeOK, NEW t \in Tasks, SaveWrite(t), phase # "authorize"
    PROVE  Sets(t, "send", task[t].tok) /\ UNCHANGED <<phase, owner, late>>
<1>1. SetTask(t, "send", task[t].tok) /\ UNCHANGED <<phase, owner, late>>
  BY DEF SaveWrite, Saved
<1> QED BY <1>1, KeepsSets DEF Pcs

\* Tokens that expire or are taken back are of the account they were of.
LEMMA FileSets ==
    ASSUME TypeOK, Expire \/ Revoke
    PROVE  /\ file' \in Content /\ file'.state = file.state
           /\ file'.tok.of = file.tok.of /\ (Expire => file'.tok.good = file.tok.good)
<1>1. file \in Content
  BY DEF TypeOK
<1>2. CASE Expire
  <2>1. file' = [file EXCEPT !.tok.fresh = FALSE]
    BY <1>2 DEF Expire
  <2> QED BY <1>1, <2>1 DEF Content, Token
<1>3. CASE Revoke /\ ~Expire
  <2>1. file' = [file EXCEPT !.tok.good = FALSE]
    BY <1>3 DEF Revoke
  <2> QED BY <1>1, <1>3, <2>1 DEF Content, Token
<1> QED BY <1>2, <1>3

\* The parts of the invariant the steps below use.
LEMMA InvGives ==
    ASSUME Inv
    PROVE  /\ TypeOK /\ Roles /\ Owned /\ "main" \in Tasks /\ "cycle" \in Tasks
           /\ "status" \in Tasks /\ Calls \subseteq Tasks
           /\ task \in [Tasks -> Step] /\ file \in Content
           /\ \A t \in Tasks : task[t].tok \in Token /\ task[t].pc \in Pcs
           /\ phase # "up" => reset = "no" /\ \A t \in Tasks : t # "main" => task[t] = Idle
           /\ phase \in {"down", "authorize", "connect", "profile", "up"}
           /\ file.tok \in Token /\ (file.state = "whole" => file.tok.of \in Accounts)
           /\ late \in BOOLEAN /\ lost \in BOOLEAN
<1>1. task \in [Tasks -> Step] /\ file \in Content
  BY DEF Inv, TypeOK
<1>2. \A t \in Tasks : task[t].tok \in Token /\ task[t].pc \in Pcs
  BY <1>1 DEF Step, Pcs
<1>3. file.tok \in Token
  BY <1>1, Records
<1> QED BY <1>1, <1>2, <1>3 DEF Inv, TypeOK, Tasks

\* The parts of TypeOK are all of it.
LEMMA TypeParts ==
    TypeOK <=> TaskTypes /\ FileTypes /\ AtRest /\ RowTypes /\ TabTypes /\ FlagTypes
BY DEF TypeOK, TaskTypes, FileTypes, AtRest, RowTypes, TabTypes, FlagTypes

\* Who gives up takes no writer with it.
LEMMA WritersStay ==
    ASSUME Inv, NEW t \in Tasks, GiveUp(t), task[t].pc # "write", t = "main" => phase # "up"
    PROVE  \A u \in Tasks : task[u].pc = "write" => task'[u].pc = "write"
<1>1. CASE t = "main"
  BY <1>1, InvGives, IdleRecord
<1>2. CASE t # "main"
  BY <1>2, InvGives, GiveUpSets
<1> QED BY <1>1, <1>2

\* Only main signs in, and it is done when the daemon is up.
LEMMA RolesStep == Inv /\ [Next]_vars => Roles'
<1> SUFFICES ASSUME Inv, [Next]_vars PROVE Roles'
  OBVIOUS
<1> USE InvGives, IdleRecord DEF Sets, Roles, Pcs, store, history
<1>1. ASSUME Start PROVE Roles'
  BY <1>1 DEF Start
<1>2. ASSUME AuthorizeFails PROVE Roles'
  BY <1>2, ExitSets DEF AuthorizeFails, Waiting, Fault
<1>3. ASSUME ConsentStale PROVE Roles'
  BY <1>3 DEF ConsentStale, Waiting, Fault
<1>4. ASSUME Exchange PROVE Roles'
  BY <1>4, ExchangeSets DEF store
<1>5. ASSUME ExchangeFails PROVE Roles'
  BY <1>5, ExitSets DEF ExchangeFails, Fault
<1>6. ASSUME Connected PROVE Roles'
  BY <1>6 DEF Connected
<1>7. ASSUME InfrastructureFails PROVE Roles'
  BY <1>7, ExitSets DEF InfrastructureFails, Fault
<1>8. ASSUME Profile PROVE Roles'
  BY <1>8 DEF Profile, StoredProfile
<1>9. ASSUME AskDelta PROVE Roles'
  BY <1>9, KeepsSets DEF AskDelta, Ask
<1>10. ASSUME StoreLink PROVE Roles'
  BY <1>10, IdleSets DEF StoreLink
<1>11. ASSUME AskProfile PROVE Roles'
  BY <1>11, KeepsSets DEF AskProfile, Ask
<1>12. ASSUME StoreProfile PROVE Roles'
  BY <1>12, IdleSets DEF StoreProfile
<1>13. ASSUME Report PROVE Roles'
  BY <1>13, IdleSets DEF Report, Done
<1>14. ASSUME NEW c \in Calls, CallDone(c) PROVE Roles'
  BY <1>14, IdleSets DEF CallDone, Done
<1>15. ASSUME NEW a \in Accounts, Consent(a) PROVE Roles'
  BY <1>15, ConsentSets DEF Consent, Waiting
<1>16. ASSUME NEW t \in Tasks, Load(t) PROVE Roles'
  BY <1>16, LoadSets, GiveUpSets DEF Load, NeedsToken, FetchProfile
<1>17. ASSUME NEW t \in Tasks, Refresh(t) PROVE Roles'
  BY <1>17, RefreshSets DEF store
<1>18. ASSUME NEW t \in Tasks, RefreshFails(t) PROVE Roles'
  BY <1>18, GiveUpSets DEF RefreshFails, Fault
<1>19. ASSUME NEW t \in Tasks, SaveOpen(t) PROVE Roles'
  BY <1>19, KeepsSets DEF SaveOpen
<1>20. ASSUME NEW t \in Tasks, SaveWrite(t) PROVE Roles'
  BY <1>20, WriteSets, SavedSets, SignedInSets DEF store
<1>21. ASSUME NEW t \in Tasks, WriteOrphan(t) PROVE Roles'
  BY <1>21, KeepsSets DEF WriteOrphan
<1>22. ASSUME NEW t \in Tasks, SaveFails(t) PROVE Roles'
  BY <1>22, GiveUpSets DEF SaveFails, Fault
<1>23. ASSUME NEW t \in Tasks, RequestFails(t) PROVE Roles'
  BY <1>23, GiveUpSets DEF RequestFails, Fault
<1>24. ASSUME ResetRows PROVE Roles'
  BY <1>24 DEF ResetRows, Event
<1>25. ASSUME ResetLink PROVE Roles'
  BY <1>25 DEF ResetLink
<1>26. ASSUME ResetProfile PROVE Roles'
  BY <1>26 DEF ResetProfile
<1>27. ASSUME ResetFile PROVE Roles'
  BY <1>27, OrphanSets DEF ResetFile
<1>28. ASSUME ResetFails PROVE Roles'
  BY <1>28 DEF ResetFails, Fault
<1>29. ASSUME Expire PROVE Roles'
  BY <1>29, FileSets DEF Expire, Event
<1>30. ASSUME Revoke PROVE Roles'
  BY <1>30, RevokeSets, FileSets DEF store, Event
<1>31. ASSUME Kill PROVE Roles'
  BY <1>31, ExitSets DEF Kill, Fault
<1>32. CASE UNCHANGED vars
  BY <1>32 DEF vars, store, history
<1> QED
  BY <1>1, <1>2, <1>3, <1>4, <1>5, <1>6, <1>7, <1>8, <1>9, <1>10, <1>11, <1>12, <1>13, <1>14, <1>15, <1>16, <1>17, <1>18, <1>19, <1>20, <1>21, <1>22, <1>23, <1>24, <1>25, <1>26, <1>27, <1>28, <1>29, <1>30, <1>31, <1>32 DEF Next, Task, Reset

\* No task gets tokens of nobody.
LEMMA OwnedStep == Inv /\ [Next]_vars => Owned'
<1> SUFFICES ASSUME Inv, [Next]_vars PROVE Owned'
  OBVIOUS
<1> USE InvGives, IdleRecord, Records DEF Sets, Owned, Pcs, store, history
<1>1. ASSUME Start PROVE Owned'
  BY <1>1 DEF Start
<1>2. ASSUME AuthorizeFails PROVE Owned'
  BY <1>2, ExitSets DEF AuthorizeFails, Waiting, Fault
<1>3. ASSUME ConsentStale PROVE Owned'
  BY <1>3 DEF ConsentStale, Waiting, Fault
<1>4. ASSUME Exchange PROVE Owned'
  BY <1>4, ExchangeSets DEF store
<1>5. ASSUME ExchangeFails PROVE Owned'
  BY <1>5, ExitSets DEF ExchangeFails, Fault
<1>6. ASSUME Connected PROVE Owned'
  BY <1>6 DEF Connected
<1>7. ASSUME InfrastructureFails PROVE Owned'
  BY <1>7, ExitSets DEF InfrastructureFails, Fault
<1>8. ASSUME Profile PROVE Owned'
  BY <1>8 DEF Profile, StoredProfile
<1>9. ASSUME AskDelta PROVE Owned'
  BY <1>9, KeepsSets DEF AskDelta, Ask
<1>10. ASSUME StoreLink PROVE Owned'
  BY <1>10, IdleSets DEF StoreLink
<1>11. ASSUME AskProfile PROVE Owned'
  BY <1>11, KeepsSets DEF AskProfile, Ask
<1>12. ASSUME StoreProfile PROVE Owned'
  BY <1>12, IdleSets DEF StoreProfile
<1>13. ASSUME Report PROVE Owned'
  BY <1>13, IdleSets DEF Report, Done
<1>14. ASSUME NEW c \in Calls, CallDone(c) PROVE Owned'
  BY <1>14, IdleSets DEF CallDone, Done
<1>15. ASSUME NEW a \in Accounts, Consent(a) PROVE Owned'
  BY <1>15, ConsentSets DEF Consent, Waiting
<1>16. ASSUME NEW t \in Tasks, Load(t) PROVE Owned'
  BY <1>16, LoadSets, GiveUpSets DEF Load, NeedsToken, FetchProfile
<1>17. ASSUME NEW t \in Tasks, Refresh(t) PROVE Owned'
  BY <1>17, RefreshSets DEF store
<1>18. ASSUME NEW t \in Tasks, RefreshFails(t) PROVE Owned'
  BY <1>18, GiveUpSets DEF RefreshFails, Fault
<1>19. ASSUME NEW t \in Tasks, SaveOpen(t) PROVE Owned'
  BY <1>19, KeepsSets DEF SaveOpen
<1>20. ASSUME NEW t \in Tasks, SaveWrite(t) PROVE Owned'
  <2>1. task[t].pc = "write" /\ (phase # "up" => t = "main")
    BY <1>20, WriteSets
  <2>2. UNCHANGED <<tabs, link, profile, reset, events, faults>>
    BY <1>20, WriteSets
  <2>3. CASE phase = "authorize"
    BY <1>20, <2>1, <2>2, <2>3, SignedInSets
  <2>4. CASE phase # "authorize"
    <3>1. Sets(t, "send", task[t].tok) /\ UNCHANGED <<phase, owner, late>>
      BY <1>20, <2>4, SavedSets
    <3> QED BY <2>1, <2>2, <2>4, <3>1
  <2> QED BY <2>3, <2>4
<1>21. ASSUME NEW t \in Tasks, WriteOrphan(t) PROVE Owned'
  BY <1>21, KeepsSets DEF WriteOrphan
<1>22. ASSUME NEW t \in Tasks, SaveFails(t) PROVE Owned'
  BY <1>22, GiveUpSets DEF SaveFails, Fault
<1>23. ASSUME NEW t \in Tasks, RequestFails(t) PROVE Owned'
  BY <1>23, GiveUpSets DEF RequestFails, Fault
<1>24. ASSUME ResetRows PROVE Owned'
  BY <1>24 DEF ResetRows, Event
<1>25. ASSUME ResetLink PROVE Owned'
  BY <1>25 DEF ResetLink
<1>26. ASSUME ResetProfile PROVE Owned'
  BY <1>26 DEF ResetProfile
<1>27. ASSUME ResetFile PROVE Owned'
  BY <1>27, OrphanSets DEF ResetFile
<1>28. ASSUME ResetFails PROVE Owned'
  BY <1>28 DEF ResetFails, Fault
<1>29. ASSUME Expire PROVE Owned'
  BY <1>29, FileSets DEF Expire, Event
<1>30. ASSUME Revoke PROVE Owned'
  BY <1>30, RevokeSets, FileSets DEF store, Event
<1>31. ASSUME Kill PROVE Owned'
  BY <1>31, ExitSets DEF Kill, Fault
<1>32. CASE UNCHANGED vars
  BY <1>32 DEF vars, store, history
<1> QED
  BY <1>1, <1>2, <1>3, <1>4, <1>5, <1>6, <1>7, <1>8, <1>9, <1>10, <1>11, <1>12, <1>13, <1>14, <1>15, <1>16, <1>17, <1>18, <1>19, <1>20, <1>21, <1>22, <1>23, <1>24, <1>25, <1>26, <1>27, <1>28, <1>29, <1>30, <1>31, <1>32 DEF Next, Task, Reset

\* Tasks stay where tasks are.
LEMMA TaskTypesStep == Inv /\ [Next]_vars => TaskTypes'
<1> SUFFICES ASSUME Inv, [Next]_vars PROVE TaskTypes'
  OBVIOUS
<1> USE InvGives, TypeParts, IdleRecord, Records, SizesAssumption DEF Sets, Pcs, store, history, TaskTypes
<1>1. ASSUME Start PROVE TaskTypes'
  BY <1>1 DEF Start
<1>2. ASSUME AuthorizeFails PROVE TaskTypes'
  BY <1>2, ExitSets DEF AuthorizeFails, Waiting, Fault
<1>3. ASSUME ConsentStale PROVE TaskTypes'
  BY <1>3 DEF ConsentStale, Waiting, Fault
<1>4. ASSUME Exchange PROVE TaskTypes'
  BY <1>4, ExchangeSets DEF store
<1>5. ASSUME ExchangeFails PROVE TaskTypes'
  BY <1>5, ExitSets DEF ExchangeFails, Fault
<1>6. ASSUME Connected PROVE TaskTypes'
  BY <1>6 DEF Connected
<1>7. ASSUME InfrastructureFails PROVE TaskTypes'
  BY <1>7, ExitSets DEF InfrastructureFails, Fault
<1>8. ASSUME Profile PROVE TaskTypes'
  BY <1>8 DEF Profile, StoredProfile
<1>9. ASSUME AskDelta PROVE TaskTypes'
  BY <1>9, KeepsSets DEF AskDelta, Ask
<1>10. ASSUME StoreLink PROVE TaskTypes'
  BY <1>10, IdleSets DEF StoreLink
<1>11. ASSUME AskProfile PROVE TaskTypes'
  BY <1>11, KeepsSets DEF AskProfile, Ask
<1>12. ASSUME StoreProfile PROVE TaskTypes'
  BY <1>12, IdleSets DEF StoreProfile
<1>13. ASSUME Report PROVE TaskTypes'
  BY <1>13, IdleSets DEF Report, Done
<1>14. ASSUME NEW c \in Calls, CallDone(c) PROVE TaskTypes'
  BY <1>14, IdleSets DEF CallDone, Done
<1>15. ASSUME NEW a \in Accounts, Consent(a) PROVE TaskTypes'
  BY <1>15, ConsentSets DEF Consent, Waiting
<1>16. ASSUME NEW t \in Tasks, Load(t) PROVE TaskTypes'
  BY <1>16, LoadSets, GiveUpSets DEF Load, NeedsToken, FetchProfile
<1>17. ASSUME NEW t \in Tasks, Refresh(t) PROVE TaskTypes'
  BY <1>17, RefreshSets DEF store
<1>18. ASSUME NEW t \in Tasks, RefreshFails(t) PROVE TaskTypes'
  BY <1>18, GiveUpSets DEF RefreshFails, Fault
<1>19. ASSUME NEW t \in Tasks, SaveOpen(t) PROVE TaskTypes'
  BY <1>19, KeepsSets DEF SaveOpen
<1>20. ASSUME NEW t \in Tasks, SaveWrite(t) PROVE TaskTypes'
  <2>1. task[t].pc = "write" /\ (phase # "up" => t = "main")
    BY <1>20, WriteSets
  <2>2. UNCHANGED <<tabs, link, profile, reset, events, faults>>
    BY <1>20, WriteSets
  <2>3. CASE phase = "authorize"
    BY <1>20, <2>1, <2>2, <2>3, SignedInSets
  <2>4. CASE phase # "authorize"
    <3>1. Sets(t, "send", task[t].tok) /\ UNCHANGED <<phase, owner, late>>
      BY <1>20, <2>4, SavedSets
    <3> QED BY <2>1, <2>2, <2>4, <3>1
  <2> QED BY <2>3, <2>4
<1>21. ASSUME NEW t \in Tasks, WriteOrphan(t) PROVE TaskTypes'
  BY <1>21, KeepsSets DEF WriteOrphan
<1>22. ASSUME NEW t \in Tasks, SaveFails(t) PROVE TaskTypes'
  BY <1>22, GiveUpSets DEF SaveFails, Fault
<1>23. ASSUME NEW t \in Tasks, RequestFails(t) PROVE TaskTypes'
  BY <1>23, GiveUpSets DEF RequestFails, Fault
<1>24. ASSUME ResetRows PROVE TaskTypes'
  BY <1>24 DEF ResetRows, Event
<1>25. ASSUME ResetLink PROVE TaskTypes'
  BY <1>25 DEF ResetLink
<1>26. ASSUME ResetProfile PROVE TaskTypes'
  BY <1>26 DEF ResetProfile
<1>27. ASSUME ResetFile PROVE TaskTypes'
  BY <1>27, OrphanSets DEF ResetFile
<1>28. ASSUME ResetFails PROVE TaskTypes'
  BY <1>28 DEF ResetFails, Fault
<1>29. ASSUME Expire PROVE TaskTypes'
  BY <1>29, FileSets DEF Expire, Event
<1>30. ASSUME Revoke PROVE TaskTypes'
  BY <1>30, RevokeSets, FileSets DEF store, Event
<1>31. ASSUME Kill PROVE TaskTypes'
  BY <1>31, ExitSets DEF Kill, Fault
<1>32. CASE UNCHANGED vars
  BY <1>32 DEF vars, store, history
<1> QED
  BY <1>1, <1>2, <1>3, <1>4, <1>5, <1>6, <1>7, <1>8, <1>9, <1>10, <1>11, <1>12, <1>13, <1>14, <1>15, <1>16, <1>17, <1>18, <1>19, <1>20, <1>21, <1>22, <1>23, <1>24, <1>25, <1>26, <1>27, <1>28, <1>29, <1>30, <1>31, <1>32 DEF Next, Task, Reset

\* What the file holds whole is of an account.
LEMMA FileTypesStep == Inv /\ [Next]_vars => FileTypes'
<1> SUFFICES ASSUME Inv, [Next]_vars PROVE FileTypes'
  OBVIOUS
<1> USE InvGives, TypeParts, IdleRecord, Records, SizesAssumption DEF Sets, Pcs, store, history, FileTypes
<1>1. ASSUME Start PROVE FileTypes'
  BY <1>1 DEF Start
<1>2. ASSUME AuthorizeFails PROVE FileTypes'
  BY <1>2, ExitSets DEF AuthorizeFails, Waiting, Fault
<1>3. ASSUME ConsentStale PROVE FileTypes'
  BY <1>3 DEF ConsentStale, Waiting, Fault
<1>4. ASSUME Exchange PROVE FileTypes'
  BY <1>4, ExchangeSets DEF store
<1>5. ASSUME ExchangeFails PROVE FileTypes'
  BY <1>5, ExitSets DEF ExchangeFails, Fault
<1>6. ASSUME Connected PROVE FileTypes'
  BY <1>6 DEF Connected
<1>7. ASSUME InfrastructureFails PROVE FileTypes'
  BY <1>7, ExitSets DEF InfrastructureFails, Fault
<1>8. ASSUME Profile PROVE FileTypes'
  BY <1>8 DEF Profile, StoredProfile
<1>9. ASSUME AskDelta PROVE FileTypes'
  BY <1>9, KeepsSets DEF AskDelta, Ask
<1>10. ASSUME StoreLink PROVE FileTypes'
  BY <1>10, IdleSets DEF StoreLink
<1>11. ASSUME AskProfile PROVE FileTypes'
  BY <1>11, KeepsSets DEF AskProfile, Ask
<1>12. ASSUME StoreProfile PROVE FileTypes'
  BY <1>12, IdleSets DEF StoreProfile
<1>13. ASSUME Report PROVE FileTypes'
  BY <1>13, IdleSets DEF Report, Done
<1>14. ASSUME NEW c \in Calls, CallDone(c) PROVE FileTypes'
  BY <1>14, IdleSets DEF CallDone, Done
<1>15. ASSUME NEW a \in Accounts, Consent(a) PROVE FileTypes'
  BY <1>15, ConsentSets DEF Consent, Waiting
<1>16. ASSUME NEW t \in Tasks, Load(t) PROVE FileTypes'
  BY <1>16, LoadSets, GiveUpSets DEF Load, NeedsToken, FetchProfile
<1>17. ASSUME NEW t \in Tasks, Refresh(t) PROVE FileTypes'
  BY <1>17, RefreshSets DEF store
<1>18. ASSUME NEW t \in Tasks, RefreshFails(t) PROVE FileTypes'
  BY <1>18, GiveUpSets DEF RefreshFails, Fault
<1>19. ASSUME NEW t \in Tasks, SaveOpen(t) PROVE FileTypes'
  BY <1>19, KeepsSets DEF SaveOpen
<1>20. ASSUME NEW t \in Tasks, SaveWrite(t) PROVE FileTypes'
  <2>1. task[t].pc = "write"
    BY <1>20 DEF SaveWrite
  <2>2. task[t].tok.of \in Accounts
    BY <2>1 DEF Owned
  <2>3. /\ file' \in Content
        /\ file'.state = "whole" => file'.tok = task[t].tok
    BY <1>20, WriteSets
  <2> QED BY <2>2, <2>3
<1>21. ASSUME NEW t \in Tasks, WriteOrphan(t) PROVE FileTypes'
  BY <1>21, KeepsSets DEF WriteOrphan
<1>22. ASSUME NEW t \in Tasks, SaveFails(t) PROVE FileTypes'
  BY <1>22, GiveUpSets DEF SaveFails, Fault
<1>23. ASSUME NEW t \in Tasks, RequestFails(t) PROVE FileTypes'
  BY <1>23, GiveUpSets DEF RequestFails, Fault
<1>24. ASSUME ResetRows PROVE FileTypes'
  BY <1>24 DEF ResetRows, Event
<1>25. ASSUME ResetLink PROVE FileTypes'
  BY <1>25 DEF ResetLink
<1>26. ASSUME ResetProfile PROVE FileTypes'
  BY <1>26 DEF ResetProfile
<1>27. ASSUME ResetFile PROVE FileTypes'
  BY <1>27, OrphanSets DEF ResetFile
<1>28. ASSUME ResetFails PROVE FileTypes'
  BY <1>28 DEF ResetFails, Fault
<1>29. ASSUME Expire PROVE FileTypes'
  BY <1>29, FileSets DEF Expire, Event
<1>30. ASSUME Revoke PROVE FileTypes'
  BY <1>30, RevokeSets, FileSets DEF store, Event
<1>31. ASSUME Kill PROVE FileTypes'
  BY <1>31, ExitSets DEF Kill, Fault
<1>32. CASE UNCHANGED vars
  BY <1>32 DEF vars, store, history
<1> QED
  BY <1>1, <1>2, <1>3, <1>4, <1>5, <1>6, <1>7, <1>8, <1>9, <1>10, <1>11, <1>12, <1>13, <1>14, <1>15, <1>16, <1>17, <1>18, <1>19, <1>20, <1>21, <1>22, <1>23, <1>24, <1>25, <1>26, <1>27, <1>28, <1>29, <1>30, <1>31, <1>32 DEF Next, Task, Reset

\* A daemon that is not up has no tasks but main.
LEMMA AtRestStep == Inv /\ [Next]_vars => AtRest'
<1> SUFFICES ASSUME Inv, [Next]_vars PROVE AtRest'
  OBVIOUS
<1> USE InvGives, TypeParts, IdleRecord, Records, SizesAssumption DEF Sets, Pcs, store, history, AtRest
<1>1. ASSUME Start PROVE AtRest'
  BY <1>1 DEF Start
<1>2. ASSUME AuthorizeFails PROVE AtRest'
  BY <1>2, ExitSets DEF AuthorizeFails, Waiting, Fault
<1>3. ASSUME ConsentStale PROVE AtRest'
  BY <1>3 DEF ConsentStale, Waiting, Fault
<1>4. ASSUME Exchange PROVE AtRest'
  BY <1>4, ExchangeSets DEF store
<1>5. ASSUME ExchangeFails PROVE AtRest'
  BY <1>5, ExitSets DEF ExchangeFails, Fault
<1>6. ASSUME Connected PROVE AtRest'
  BY <1>6 DEF Connected
<1>7. ASSUME InfrastructureFails PROVE AtRest'
  BY <1>7, ExitSets DEF InfrastructureFails, Fault
<1>8. ASSUME Profile PROVE AtRest'
  BY <1>8 DEF Profile, StoredProfile
<1>9. ASSUME AskDelta PROVE AtRest'
  BY <1>9, KeepsSets DEF AskDelta, Ask
<1>10. ASSUME StoreLink PROVE AtRest'
  BY <1>10, IdleSets DEF StoreLink
<1>11. ASSUME AskProfile PROVE AtRest'
  BY <1>11, KeepsSets DEF AskProfile, Ask
<1>12. ASSUME StoreProfile PROVE AtRest'
  BY <1>12, IdleSets DEF StoreProfile
<1>13. ASSUME Report PROVE AtRest'
  BY <1>13, IdleSets DEF Report, Done
<1>14. ASSUME NEW c \in Calls, CallDone(c) PROVE AtRest'
  BY <1>14, IdleSets DEF CallDone, Done
<1>15. ASSUME NEW a \in Accounts, Consent(a) PROVE AtRest'
  BY <1>15, ConsentSets DEF Consent, Waiting
<1>16. ASSUME NEW t \in Tasks, Load(t) PROVE AtRest'
  BY <1>16, LoadSets, GiveUpSets DEF Load, NeedsToken, FetchProfile
<1>17. ASSUME NEW t \in Tasks, Refresh(t) PROVE AtRest'
  BY <1>17, RefreshSets DEF store
<1>18. ASSUME NEW t \in Tasks, RefreshFails(t) PROVE AtRest'
  BY <1>18, GiveUpSets DEF RefreshFails, Fault
<1>19. ASSUME NEW t \in Tasks, SaveOpen(t) PROVE AtRest'
  BY <1>19, KeepsSets DEF SaveOpen
<1>20. ASSUME NEW t \in Tasks, SaveWrite(t) PROVE AtRest'
  <2>1. task[t].pc = "write" /\ (phase # "up" => t = "main")
    BY <1>20, WriteSets
  <2>2. UNCHANGED <<tabs, link, profile, reset, events, faults>>
    BY <1>20, WriteSets
  <2>3. CASE phase = "authorize"
    BY <1>20, <2>1, <2>2, <2>3, SignedInSets
  <2>4. CASE phase # "authorize"
    <3>1. Sets(t, "send", task[t].tok) /\ UNCHANGED <<phase, owner, late>>
      BY <1>20, <2>4, SavedSets
    <3> QED BY <2>1, <2>2, <2>4, <3>1
  <2> QED BY <2>3, <2>4
<1>21. ASSUME NEW t \in Tasks, WriteOrphan(t) PROVE AtRest'
  BY <1>21, KeepsSets DEF WriteOrphan
<1>22. ASSUME NEW t \in Tasks, SaveFails(t) PROVE AtRest'
  BY <1>22, GiveUpSets DEF SaveFails, Fault
<1>23. ASSUME NEW t \in Tasks, RequestFails(t) PROVE AtRest'
  BY <1>23, GiveUpSets DEF RequestFails, Fault
<1>24. ASSUME ResetRows PROVE AtRest'
  BY <1>24 DEF ResetRows, Event
<1>25. ASSUME ResetLink PROVE AtRest'
  BY <1>25 DEF ResetLink
<1>26. ASSUME ResetProfile PROVE AtRest'
  BY <1>26 DEF ResetProfile
<1>27. ASSUME ResetFile PROVE AtRest'
  BY <1>27, OrphanSets DEF ResetFile
<1>28. ASSUME ResetFails PROVE AtRest'
  BY <1>28 DEF ResetFails, Fault
<1>29. ASSUME Expire PROVE AtRest'
  BY <1>29, FileSets DEF Expire, Event
<1>30. ASSUME Revoke PROVE AtRest'
  BY <1>30, RevokeSets, FileSets DEF store, Event
<1>31. ASSUME Kill PROVE AtRest'
  BY <1>31, ExitSets DEF Kill, Fault
<1>32. CASE UNCHANGED vars
  BY <1>32 DEF vars, store, history
<1> QED
  BY <1>1, <1>2, <1>3, <1>4, <1>5, <1>6, <1>7, <1>8, <1>9, <1>10, <1>11, <1>12, <1>13, <1>14, <1>15, <1>16, <1>17, <1>18, <1>19, <1>20, <1>21, <1>22, <1>23, <1>24, <1>25, <1>26, <1>27, <1>28, <1>29, <1>30, <1>31, <1>32 DEF Next, Task, Reset

\* The rows are of accounts or nobody.
LEMMA RowTypesStep == Inv /\ [Next]_vars => RowTypes'
<1> SUFFICES ASSUME Inv, [Next]_vars PROVE RowTypes'
  OBVIOUS
<1> USE InvGives, TypeParts, IdleRecord, Records, SizesAssumption DEF Sets, Pcs, store, history, RowTypes
<1>1. ASSUME Start PROVE RowTypes'
  BY <1>1 DEF Start
<1>2. ASSUME AuthorizeFails PROVE RowTypes'
  BY <1>2, ExitSets DEF AuthorizeFails, Waiting, Fault
<1>3. ASSUME ConsentStale PROVE RowTypes'
  BY <1>3 DEF ConsentStale, Waiting, Fault
<1>4. ASSUME Exchange PROVE RowTypes'
  <2>1. UNCHANGED <<phase, tabs, store, reset, events, owner, late>>
    BY <1>4, ExchangeSets
  <2>3. faults \in 0..MaxFaults
    BY DEF RowTypes
  <2>4. faults' = faults \/ (faults < MaxFaults /\ faults' = faults + 1)
    BY <1>4, ExchangeSets
  <2>2. faults' \in 0..MaxFaults
    BY <2>3, <2>4
  <2> QED BY <2>1, <2>2
<1>5. ASSUME ExchangeFails PROVE RowTypes'
  BY <1>5, ExitSets DEF ExchangeFails, Fault
<1>6. ASSUME Connected PROVE RowTypes'
  BY <1>6 DEF Connected
<1>7. ASSUME InfrastructureFails PROVE RowTypes'
  BY <1>7, ExitSets DEF InfrastructureFails, Fault
<1>8. ASSUME Profile PROVE RowTypes'
  BY <1>8 DEF Profile, StoredProfile
<1>9. ASSUME AskDelta PROVE RowTypes'
  BY <1>9, KeepsSets DEF AskDelta, Ask
<1>10. ASSUME StoreLink PROVE RowTypes'
  BY <1>10, IdleSets DEF StoreLink
<1>11. ASSUME AskProfile PROVE RowTypes'
  BY <1>11, KeepsSets DEF AskProfile, Ask
<1>12. ASSUME StoreProfile PROVE RowTypes'
  BY <1>12, IdleSets DEF StoreProfile
<1>13. ASSUME Report PROVE RowTypes'
  BY <1>13, IdleSets DEF Report, Done
<1>14. ASSUME NEW c \in Calls, CallDone(c) PROVE RowTypes'
  BY <1>14, IdleSets DEF CallDone, Done
<1>15. ASSUME NEW a \in Accounts, Consent(a) PROVE RowTypes'
  BY <1>15, ConsentSets DEF Consent, Waiting
<1>16. ASSUME NEW t \in Tasks, Load(t) PROVE RowTypes'
  BY <1>16, LoadSets, GiveUpSets DEF Load, NeedsToken, FetchProfile, Fault
<1>17. ASSUME NEW t \in Tasks, Refresh(t) PROVE RowTypes'
  <2>1. UNCHANGED <<phase, tabs, store, reset, events, owner, late>>
    BY <1>17, RefreshSets
  <2>3. faults \in 0..MaxFaults
    BY DEF RowTypes
  <2>4. faults' = faults \/ (faults < MaxFaults /\ faults' = faults + 1)
    BY <1>17, RefreshSets
  <2>2. faults' \in 0..MaxFaults
    BY <2>3, <2>4
  <2> QED BY <2>1, <2>2
<1>18. ASSUME NEW t \in Tasks, RefreshFails(t) PROVE RowTypes'
  BY <1>18, GiveUpSets DEF RefreshFails, Fault
<1>19. ASSUME NEW t \in Tasks, SaveOpen(t) PROVE RowTypes'
  BY <1>19, KeepsSets DEF SaveOpen
<1>20. ASSUME NEW t \in Tasks, SaveWrite(t) PROVE RowTypes'
  <2>1. task[t].pc = "write" /\ (phase # "up" => t = "main")
    BY <1>20, WriteSets
  <2>2. UNCHANGED <<tabs, link, profile, reset, events, faults>>
    BY <1>20, WriteSets
  <2>3. CASE phase = "authorize"
    BY <1>20, <2>1, <2>2, <2>3, SignedInSets
  <2>4. CASE phase # "authorize"
    <3>1. Sets(t, "send", task[t].tok) /\ UNCHANGED <<phase, owner, late>>
      BY <1>20, <2>4, SavedSets
    <3> QED BY <2>1, <2>2, <2>4, <3>1
  <2> QED BY <2>3, <2>4
<1>21. ASSUME NEW t \in Tasks, WriteOrphan(t) PROVE RowTypes'
  BY <1>21, KeepsSets DEF WriteOrphan
<1>22. ASSUME NEW t \in Tasks, SaveFails(t) PROVE RowTypes'
  BY <1>22, GiveUpSets DEF SaveFails, Fault
<1>23. ASSUME NEW t \in Tasks, RequestFails(t) PROVE RowTypes'
  BY <1>23, GiveUpSets DEF RequestFails, Fault
<1>24. ASSUME ResetRows PROVE RowTypes'
  BY <1>24 DEF ResetRows, Event
<1>25. ASSUME ResetLink PROVE RowTypes'
  BY <1>25 DEF ResetLink
<1>26. ASSUME ResetProfile PROVE RowTypes'
  BY <1>26 DEF ResetProfile
<1>27. ASSUME ResetFile PROVE RowTypes'
  BY <1>27, OrphanSets DEF ResetFile
<1>28. ASSUME ResetFails PROVE RowTypes'
  BY <1>28 DEF ResetFails, Fault
<1>29. ASSUME Expire PROVE RowTypes'
  BY <1>29, FileSets DEF Expire, Event
<1>30. ASSUME Revoke PROVE RowTypes'
  BY <1>30, RevokeSets, FileSets DEF store, Event
<1>31. ASSUME Kill PROVE RowTypes'
  BY <1>31, ExitSets DEF Kill, Fault
<1>32. CASE UNCHANGED vars
  BY <1>32 DEF vars, store, history
<1> QED
  BY <1>1, <1>2, <1>3, <1>4, <1>5, <1>6, <1>7, <1>8, <1>9, <1>10, <1>11, <1>12, <1>13, <1>14, <1>15, <1>16, <1>17, <1>18, <1>19, <1>20, <1>21, <1>22, <1>23, <1>24, <1>25, <1>26, <1>27, <1>28, <1>29, <1>30, <1>31, <1>32 DEF Next, Task, Reset

\* Pages are open or not.
LEMMA TabTypesStep == Inv /\ [Next]_vars => TabTypes'
<1> SUFFICES ASSUME Inv, [Next]_vars PROVE TabTypes'
  OBVIOUS
<1> USE InvGives, TypeParts, IdleRecord, Records, SizesAssumption DEF Sets, Pcs, store, history, TabTypes
<1>1. ASSUME Start PROVE TabTypes'
  <2>1. tabs' = tabs \/ tabs' = [tabs EXCEPT !.fresh = TRUE]
    BY <1>1 DEF Start
  <2>2. [tabs EXCEPT !.fresh = TRUE] \in [fresh : BOOLEAN, stale : BOOLEAN]
    OBVIOUS
  <2>3. tabs \in [fresh : BOOLEAN, stale : BOOLEAN]
    BY DEF TabTypes
  <2> QED BY <2>1, <2>2, <2>3 DEF TabTypes
<1>2. ASSUME AuthorizeFails PROVE TabTypes'
  BY <1>2, ExitSets DEF AuthorizeFails, Waiting, Fault
<1>3. ASSUME ConsentStale PROVE TabTypes'
  BY <1>3 DEF ConsentStale, Waiting, Fault
<1>4. ASSUME Exchange PROVE TabTypes'
  BY <1>4, ExchangeSets DEF store
<1>5. ASSUME ExchangeFails PROVE TabTypes'
  BY <1>5, ExitSets DEF ExchangeFails, Fault
<1>6. ASSUME Connected PROVE TabTypes'
  BY <1>6 DEF Connected
<1>7. ASSUME InfrastructureFails PROVE TabTypes'
  BY <1>7, ExitSets DEF InfrastructureFails, Fault
<1>8. ASSUME Profile PROVE TabTypes'
  BY <1>8 DEF Profile, StoredProfile
<1>9. ASSUME AskDelta PROVE TabTypes'
  BY <1>9, KeepsSets DEF AskDelta, Ask
<1>10. ASSUME StoreLink PROVE TabTypes'
  BY <1>10, IdleSets DEF StoreLink
<1>11. ASSUME AskProfile PROVE TabTypes'
  BY <1>11, KeepsSets DEF AskProfile, Ask
<1>12. ASSUME StoreProfile PROVE TabTypes'
  BY <1>12, IdleSets DEF StoreProfile
<1>13. ASSUME Report PROVE TabTypes'
  BY <1>13, IdleSets DEF Report, Done
<1>14. ASSUME NEW c \in Calls, CallDone(c) PROVE TabTypes'
  BY <1>14, IdleSets DEF CallDone, Done
<1>15. ASSUME NEW a \in Accounts, Consent(a) PROVE TabTypes'
  BY <1>15, ConsentSets DEF Consent, Waiting
<1>16. ASSUME NEW t \in Tasks, Load(t) PROVE TabTypes'
  BY <1>16, LoadSets, GiveUpSets DEF Load, NeedsToken, FetchProfile
<1>17. ASSUME NEW t \in Tasks, Refresh(t) PROVE TabTypes'
  BY <1>17, RefreshSets DEF store
<1>18. ASSUME NEW t \in Tasks, RefreshFails(t) PROVE TabTypes'
  BY <1>18, GiveUpSets DEF RefreshFails, Fault
<1>19. ASSUME NEW t \in Tasks, SaveOpen(t) PROVE TabTypes'
  BY <1>19, KeepsSets DEF SaveOpen
<1>20. ASSUME NEW t \in Tasks, SaveWrite(t) PROVE TabTypes'
  <2>1. task[t].pc = "write" /\ (phase # "up" => t = "main")
    BY <1>20, WriteSets
  <2>2. UNCHANGED <<tabs, link, profile, reset, events, faults>>
    BY <1>20, WriteSets
  <2>3. CASE phase = "authorize"
    BY <1>20, <2>1, <2>2, <2>3, SignedInSets
  <2>4. CASE phase # "authorize"
    <3>1. Sets(t, "send", task[t].tok) /\ UNCHANGED <<phase, owner, late>>
      BY <1>20, <2>4, SavedSets
    <3> QED BY <2>1, <2>2, <2>4, <3>1
  <2> QED BY <2>3, <2>4
<1>21. ASSUME NEW t \in Tasks, WriteOrphan(t) PROVE TabTypes'
  BY <1>21, KeepsSets DEF WriteOrphan
<1>22. ASSUME NEW t \in Tasks, SaveFails(t) PROVE TabTypes'
  BY <1>22, GiveUpSets DEF SaveFails, Fault
<1>23. ASSUME NEW t \in Tasks, RequestFails(t) PROVE TabTypes'
  BY <1>23, GiveUpSets DEF RequestFails, Fault
<1>24. ASSUME ResetRows PROVE TabTypes'
  BY <1>24 DEF ResetRows, Event
<1>25. ASSUME ResetLink PROVE TabTypes'
  BY <1>25 DEF ResetLink
<1>26. ASSUME ResetProfile PROVE TabTypes'
  BY <1>26 DEF ResetProfile
<1>27. ASSUME ResetFile PROVE TabTypes'
  BY <1>27, OrphanSets DEF ResetFile
<1>28. ASSUME ResetFails PROVE TabTypes'
  BY <1>28 DEF ResetFails, Fault
<1>29. ASSUME Expire PROVE TabTypes'
  BY <1>29, FileSets DEF Expire, Event
<1>30. ASSUME Revoke PROVE TabTypes'
  BY <1>30, RevokeSets, FileSets DEF store, Event
<1>31. ASSUME Kill PROVE TabTypes'
  BY <1>31, ExitSets DEF Kill, Fault
<1>32. CASE UNCHANGED vars
  BY <1>32 DEF vars, store, history
<1> QED
  BY <1>1, <1>2, <1>3, <1>4, <1>5, <1>6, <1>7, <1>8, <1>9, <1>10, <1>11, <1>12, <1>13, <1>14, <1>15, <1>16, <1>17, <1>18, <1>19, <1>20, <1>21, <1>22, <1>23, <1>24, <1>25, <1>26, <1>27, <1>28, <1>29, <1>30, <1>31, <1>32 DEF Next, Task, Reset

\* The histories are told or not.
LEMMA FlagTypesStep == Inv /\ [Next]_vars => FlagTypes'
<1> SUFFICES ASSUME Inv, [Next]_vars PROVE FlagTypes'
  OBVIOUS
<1> USE InvGives, TypeParts, IdleRecord, Records, SizesAssumption DEF Sets, Pcs, store, history, FlagTypes
<1>1. ASSUME Start PROVE FlagTypes'
  BY <1>1 DEF Start
<1>2. ASSUME AuthorizeFails PROVE FlagTypes'
  BY <1>2, ExitSets DEF AuthorizeFails, Waiting, Fault
<1>3. ASSUME ConsentStale PROVE FlagTypes'
  BY <1>3 DEF ConsentStale, Waiting, Fault
<1>4. ASSUME Exchange PROVE FlagTypes'
  <2>1. UNCHANGED late /\ (lost' = lost \/ lost' = TRUE)
    BY <1>4, ExchangeSets DEF Exchange
  <2> QED BY <2>1
<1>5. ASSUME ExchangeFails PROVE FlagTypes'
  BY <1>5, ExitSets DEF ExchangeFails, Fault
<1>6. ASSUME Connected PROVE FlagTypes'
  BY <1>6 DEF Connected
<1>7. ASSUME InfrastructureFails PROVE FlagTypes'
  BY <1>7, ExitSets DEF InfrastructureFails, Fault
<1>8. ASSUME Profile PROVE FlagTypes'
  BY <1>8 DEF Profile, StoredProfile
<1>9. ASSUME AskDelta PROVE FlagTypes'
  BY <1>9, KeepsSets DEF AskDelta, Ask
<1>10. ASSUME StoreLink PROVE FlagTypes'
  BY <1>10, IdleSets DEF StoreLink
<1>11. ASSUME AskProfile PROVE FlagTypes'
  BY <1>11, KeepsSets DEF AskProfile, Ask
<1>12. ASSUME StoreProfile PROVE FlagTypes'
  BY <1>12, IdleSets DEF StoreProfile
<1>13. ASSUME Report PROVE FlagTypes'
  BY <1>13, IdleSets DEF Report, Done
<1>14. ASSUME NEW c \in Calls, CallDone(c) PROVE FlagTypes'
  BY <1>14, IdleSets DEF CallDone, Done
<1>15. ASSUME NEW a \in Accounts, Consent(a) PROVE FlagTypes'
  BY <1>15, ConsentSets DEF Consent, Waiting
<1>16. ASSUME NEW t \in Tasks, Load(t) PROVE FlagTypes'
  BY <1>16, LoadSets, GiveUpSets DEF Load, NeedsToken, FetchProfile
<1>17. ASSUME NEW t \in Tasks, Refresh(t) PROVE FlagTypes'
  <2>1. UNCHANGED late /\ (lost' = lost \/ lost' = TRUE)
    BY <1>17, RefreshSets DEF Refresh
  <2> QED BY <2>1
<1>18. ASSUME NEW t \in Tasks, RefreshFails(t) PROVE FlagTypes'
  BY <1>18, GiveUpSets DEF RefreshFails, Fault
<1>19. ASSUME NEW t \in Tasks, SaveOpen(t) PROVE FlagTypes'
  BY <1>19, KeepsSets DEF SaveOpen
<1>20. ASSUME NEW t \in Tasks, SaveWrite(t) PROVE FlagTypes'
  <2>1. task[t].pc = "write" /\ (phase # "up" => t = "main")
    BY <1>20, WriteSets
  <2>2. UNCHANGED <<tabs, link, profile, reset, events, faults>>
    BY <1>20, WriteSets
  <2>5. lost' \in BOOLEAN
    BY <1>20, WriteSets DEF FlagTypes
  <2>3. CASE phase = "authorize"
    BY <1>20, <2>1, <2>2, <2>5, <2>3, SignedInSets
  <2>4. CASE phase # "authorize"
    <3>1. Sets(t, "send", task[t].tok) /\ UNCHANGED <<phase, owner, late>>
      BY <1>20, <2>4, SavedSets
    <3> QED BY <2>1, <2>2, <2>5, <2>4, <3>1
  <2> QED BY <2>3, <2>4
<1>21. ASSUME NEW t \in Tasks, WriteOrphan(t) PROVE FlagTypes'
  BY <1>21, KeepsSets DEF WriteOrphan
<1>22. ASSUME NEW t \in Tasks, SaveFails(t) PROVE FlagTypes'
  BY <1>22, GiveUpSets DEF SaveFails, Fault
<1>23. ASSUME NEW t \in Tasks, RequestFails(t) PROVE FlagTypes'
  BY <1>23, GiveUpSets DEF RequestFails, Fault
<1>24. ASSUME ResetRows PROVE FlagTypes'
  BY <1>24 DEF ResetRows, Event
<1>25. ASSUME ResetLink PROVE FlagTypes'
  BY <1>25 DEF ResetLink
<1>26. ASSUME ResetProfile PROVE FlagTypes'
  BY <1>26 DEF ResetProfile
<1>27. ASSUME ResetFile PROVE FlagTypes'
  BY <1>27, OrphanSets DEF ResetFile
<1>28. ASSUME ResetFails PROVE FlagTypes'
  BY <1>28 DEF ResetFails, Fault
<1>29. ASSUME Expire PROVE FlagTypes'
  BY <1>29, FileSets DEF Expire, Event
<1>30. ASSUME Revoke PROVE FlagTypes'
  BY <1>30, RevokeSets, FileSets DEF store, Event
<1>31. ASSUME Kill PROVE FlagTypes'
  BY <1>31, ExitSets DEF Kill, Fault
<1>32. CASE UNCHANGED vars
  BY <1>32 DEF vars, store, history
<1> QED
  BY <1>1, <1>2, <1>3, <1>4, <1>5, <1>6, <1>7, <1>8, <1>9, <1>10, <1>11, <1>12, <1>13, <1>14, <1>15, <1>16, <1>17, <1>18, <1>19, <1>20, <1>21, <1>22, <1>23, <1>24, <1>25, <1>26, <1>27, <1>28, <1>29, <1>30, <1>31, <1>32 DEF Next, Task, Reset

\* What a task carries stays the owner's until it is written.
LEMMA CarriedStep == Inv /\ Tokens /\ [Next]_vars => Carried'
<1> SUFFICES ASSUME Inv, Tokens, [Next]_vars PROVE Carried'
  OBVIOUS
<1> USE InvGives, IdleRecord, NobodyIsNone DEF Sets, Pcs, Tokens, Carried, Carrying, TokensAgree, store, history
<1>1. ASSUME Start PROVE Carried'
  <2>1. \A t \in Tasks : task'[t] = task[t] /\ task[t].pc = "idle"
    BY <1>1 DEF Start, Roles
  <2>2. phase' = "authorize" => owner = Nobody \/ lost
    BY <1>1, <2>1 DEF Start
  <2>3. UNCHANGED <<owner, lost, late>>
    BY <1>1 DEF Start
  <2> QED BY <2>1, <2>2, <2>3
<1>2. ASSUME AuthorizeFails PROVE Carried'
  BY <1>2, ExitSets DEF AuthorizeFails, Waiting, Fault
<1>3. ASSUME ConsentStale PROVE Carried'
  BY <1>3 DEF ConsentStale, Waiting, Fault
<1>4. ASSUME Exchange PROVE Carried'
  <2>1. phase = "authorize" /\ UNCHANGED <<phase, owner>> /\ task["main"].pc = "exchange"
    BY <1>4, ExchangeSets DEF Roles
  <2>2. ~lost' => ~lost /\ task'["main"].tok.good = task["main"].tok.good
    BY <1>4, ExchangeSets
  <2> QED BY <2>1, <2>2
<1>5. ASSUME ExchangeFails PROVE Carried'
  BY <1>5, ExitSets DEF ExchangeFails, Fault
<1>6. ASSUME Connected PROVE Carried'
  BY <1>6 DEF Connected
<1>7. ASSUME InfrastructureFails PROVE Carried'
  BY <1>7, ExitSets DEF InfrastructureFails, Fault
<1>8. ASSUME Profile PROVE Carried'
  BY <1>8 DEF Profile, StoredProfile
<1>9. ASSUME AskDelta PROVE Carried'
  BY <1>9, KeepsSets DEF AskDelta, Ask
<1>10. ASSUME StoreLink PROVE Carried'
  BY <1>10, IdleSets DEF StoreLink
<1>11. ASSUME AskProfile PROVE Carried'
  BY <1>11, KeepsSets DEF AskProfile, Ask
<1>12. ASSUME StoreProfile PROVE Carried'
  BY <1>12, IdleSets DEF StoreProfile
<1>13. ASSUME Report PROVE Carried'
  BY <1>13, IdleSets DEF Report, Done
<1>14. ASSUME NEW c \in Calls, CallDone(c) PROVE Carried'
  BY <1>14, IdleSets DEF CallDone, Done
<1>15. ASSUME NEW a \in Accounts, Consent(a) PROVE Carried'
  BY <1>15, ConsentSets DEF Consent, Waiting
<1>16. ASSUME NEW t \in Tasks, Load(t) PROVE Carried'
  <2>1. phase # "authorize" /\ UNCHANGED <<owner, late, lost>>
    BY <1>16 DEF Load, NeedsToken, FetchProfile
  <2>2. CASE file.state = "whole"
    <3>1. /\ ~late => file.tok.of = owner
          /\ owner # Nobody /\ ~lost => file.tok.of = owner /\ file.tok.good
      BY <2>2 DEF Names
    <3>2. \E pc \in {"refresh", "send"} : Sets(t, pc, file.tok)
      BY <1>16, <2>2, LoadSets
    <3>3. phase' = phase
      BY <1>16, <2>2 DEF Load
    <3> QED BY <2>1, <3>1, <3>2, <3>3
  <2>3. CASE file.state # "whole"
    <3>1. GiveUp(t)
      BY <1>16, <2>3 DEF Load
    <3>2. phase' # "authorize" /\ \A u \in Tasks : task'[u] \in {Idle, task[u]}
      BY <2>1, <3>1, GiveUpSets
    <3> QED BY <2>1, <3>2
  <2> QED BY <2>2, <2>3
<1>17. ASSUME NEW t \in Tasks, Refresh(t) PROVE Carried'
  BY <1>17, RefreshSets DEF store
<1>18. ASSUME NEW t \in Tasks, RefreshFails(t) PROVE Carried'
  BY <1>18, GiveUpSets DEF RefreshFails, Fault
<1>19. ASSUME NEW t \in Tasks, SaveOpen(t) PROVE Carried'
  BY <1>19, KeepsSets DEF SaveOpen
<1>20. ASSUME NEW t \in Tasks, SaveWrite(t) PROVE Carried'
  <2>1. task[t].pc = "write" /\ (phase # "up" => t = "main")
    BY <1>20, WriteSets
  <2>2. UNCHANGED <<tabs, link, profile, reset, events, faults>>
    BY <1>20, WriteSets
  <2>5. \/ file'.state = "whole" /\ file'.tok = task[t].tok /\ UNCHANGED lost
        \/ file'.state = "torn" /\ lost' = TRUE
    BY <1>20, WriteSets
  <2>3. CASE phase = "authorize"
    BY <1>20, <2>1, <2>2, <2>3, SignedInSets, <2>5
  <2>4. CASE phase # "authorize"
    <3>1. Sets(t, "send", task[t].tok) /\ UNCHANGED <<phase, owner, late>>
      BY <1>20, <2>4, SavedSets
    <3> QED BY <2>1, <2>2, <2>4, <3>1, <2>5
  <2> QED BY <2>3, <2>4
<1>21. ASSUME NEW t \in Tasks, WriteOrphan(t) PROVE Carried'
  BY <1>21, KeepsSets DEF WriteOrphan
<1>22. ASSUME NEW t \in Tasks, SaveFails(t) PROVE Carried'
  BY <1>22, GiveUpSets DEF SaveFails, Fault
<1>23. ASSUME NEW t \in Tasks, RequestFails(t) PROVE Carried'
  BY <1>23, GiveUpSets DEF RequestFails, Fault
<1>24. ASSUME ResetRows PROVE Carried'
  BY <1>24 DEF ResetRows, Event
<1>25. ASSUME ResetLink PROVE Carried'
  BY <1>25 DEF ResetLink
<1>26. ASSUME ResetProfile PROVE Carried'
  BY <1>26 DEF ResetProfile
<1>27. ASSUME ResetFile PROVE Carried'
  <2>1. phase = "up" /\ phase' = "up" /\ owner' = Nobody
    BY <1>27 DEF ResetFile
  <2>2. \A t \in Tasks : Carrying(t)' => task[t].pc \in {"refresh", "save"}
    BY <1>27, OrphanSets
  <2>3. (\E t \in Tasks : task[t].pc \in {"refresh", "save"}) => late'
    BY <1>27 DEF ResetFile
  <2> QED BY <2>1, <2>2, <2>3
<1>28. ASSUME ResetFails PROVE Carried'
  BY <1>28 DEF ResetFails, Fault
<1>29. ASSUME Expire PROVE Carried'
  BY <1>29, FileSets DEF Expire, Event
<1>30. ASSUME Revoke PROVE Carried'
  BY <1>30, RevokeSets, FileSets DEF store, Event
<1>31. ASSUME Kill PROVE Carried'
  BY <1>31, ExitSets DEF Kill, Fault
<1>32. CASE UNCHANGED vars
  BY <1>32 DEF vars, store, history
<1> QED
  BY <1>1, <1>2, <1>3, <1>4, <1>5, <1>6, <1>7, <1>8, <1>9, <1>10, <1>11, <1>12, <1>13, <1>14, <1>15, <1>16, <1>17, <1>18, <1>19, <1>20, <1>21, <1>22, <1>23, <1>24, <1>25, <1>26, <1>27, <1>28, <1>29, <1>30, <1>31, <1>32 DEF Next, Task, Reset

\* The file and main get tokens of the owner, and a reset forgets one by one.
LEMMA NamesStep == Inv /\ Tokens /\ [Next]_vars => Names'
<1> SUFFICES ASSUME Inv, Tokens, [Next]_vars PROVE Names'
  OBVIOUS
<1> USE InvGives, IdleRecord, NobodyIsNone DEF Sets, Pcs, Tokens, Names, Carried, Carrying, store, history
<1>1. ASSUME Start PROVE Names'
  BY <1>1 DEF Start
<1>2. ASSUME AuthorizeFails PROVE Names'
  BY <1>2, ExitSets DEF AuthorizeFails, Waiting, Fault
<1>3. ASSUME ConsentStale PROVE Names'
  BY <1>3 DEF ConsentStale, Waiting, Fault
<1>4. ASSUME Exchange PROVE Names'
  BY <1>4, ExchangeSets DEF store
<1>5. ASSUME ExchangeFails PROVE Names'
  BY <1>5, ExitSets DEF ExchangeFails, Fault
<1>6. ASSUME Connected PROVE Names'
  BY <1>6 DEF Connected
<1>7. ASSUME InfrastructureFails PROVE Names'
  BY <1>7, ExitSets DEF InfrastructureFails, Fault
<1>8. ASSUME Profile PROVE Names'
  BY <1>8 DEF Profile, StoredProfile
<1>9. ASSUME AskDelta PROVE Names'
  BY <1>9, KeepsSets DEF AskDelta, Ask
<1>10. ASSUME StoreLink PROVE Names'
  BY <1>10, IdleSets DEF StoreLink
<1>11. ASSUME AskProfile PROVE Names'
  BY <1>11, KeepsSets DEF AskProfile, Ask
<1>12. ASSUME StoreProfile PROVE Names'
  <2>1. reset = "no" /\ UNCHANGED <<file, owner, late, reset>>
    BY <1>12 DEF StoreProfile, Roles
  <2>2. task'["main"].pc = "idle"
    BY <1>12, IdleSets DEF StoreProfile
  <2> QED BY <2>1, <2>2
<1>13. ASSUME Report PROVE Names'
  BY <1>13, IdleSets DEF Report, Done
<1>14. ASSUME NEW c \in Calls, CallDone(c) PROVE Names'
  BY <1>14, IdleSets DEF CallDone, Done
<1>15. ASSUME NEW a \in Accounts, Consent(a) PROVE Names'
  BY <1>15, ConsentSets DEF Consent, Waiting
<1>16. ASSUME NEW t \in Tasks, Load(t) PROVE Names'
  BY <1>16, LoadSets, GiveUpSets DEF Load, NeedsToken, FetchProfile
<1>17. ASSUME NEW t \in Tasks, Refresh(t) PROVE Names'
  BY <1>17, RefreshSets DEF store
<1>18. ASSUME NEW t \in Tasks, RefreshFails(t) PROVE Names'
  BY <1>18, GiveUpSets DEF RefreshFails, Fault
<1>19. ASSUME NEW t \in Tasks, SaveOpen(t) PROVE Names'
  BY <1>19, KeepsSets DEF SaveOpen
<1>20. ASSUME NEW t \in Tasks, SaveWrite(t) PROVE Names'
  <2>1. task[t].pc = "write" /\ (phase # "up" => t = "main")
    BY <1>20, WriteSets
  <2>2. UNCHANGED <<tabs, link, profile, reset, events, faults>>
    BY <1>20, WriteSets
  <2>5. \/ file'.state = "whole" /\ file'.tok = task[t].tok /\ UNCHANGED lost
        \/ file'.state = "torn" /\ lost' = TRUE
    BY <1>20, WriteSets
  <2>3. CASE phase = "authorize"
    BY <1>20, <2>1, <2>2, <2>3, SignedInSets, <2>5
  <2>4. CASE phase # "authorize"
    <3>1. Sets(t, "send", task[t].tok) /\ UNCHANGED <<phase, owner, late>>
      BY <1>20, <2>4, SavedSets
    <3> QED BY <2>1, <2>2, <2>4, <3>1, <2>5
  <2> QED BY <2>3, <2>4
<1>21. ASSUME NEW t \in Tasks, WriteOrphan(t) PROVE Names'
  <2>1. t # "main" /\ UNCHANGED <<file, owner, late, reset, link, profile>>
    BY <1>21 DEF WriteOrphan, Roles
  <2>2. task'["main"] = task["main"]
    BY <1>21, <2>1, KeepsSets DEF WriteOrphan
  <2> QED BY <2>1, <2>2
<1>22. ASSUME NEW t \in Tasks, SaveFails(t) PROVE Names'
  BY <1>22, GiveUpSets DEF SaveFails, Fault
<1>23. ASSUME NEW t \in Tasks, RequestFails(t) PROVE Names'
  BY <1>23, GiveUpSets DEF RequestFails, Fault
<1>24. ASSUME ResetRows PROVE Names'
  BY <1>24 DEF ResetRows, Event
<1>25. ASSUME ResetLink PROVE Names'
  BY <1>25 DEF ResetLink
<1>26. ASSUME ResetProfile PROVE Names'
  BY <1>26 DEF ResetProfile
<1>27. ASSUME ResetFile PROVE Names'
  <2>1. phase = "up" /\ reset' = "no" /\ file'.state = "none"
    BY <1>27 DEF ResetFile
  <2>2. task'["main"].pc = "idle"
    BY <1>27, <2>1, OrphanSets DEF Roles
  <2> QED BY <2>1, <2>2
<1>28. ASSUME ResetFails PROVE Names'
  BY <1>28 DEF ResetFails, Fault
<1>29. ASSUME Expire PROVE Names'
  BY <1>29, FileSets DEF Expire, Event
<1>30. ASSUME Revoke PROVE Names'
  BY <1>30, RevokeSets, FileSets DEF store, Event
<1>31. ASSUME Kill PROVE Names'
  BY <1>31, ExitSets DEF Kill, Fault
<1>32. CASE UNCHANGED vars
  BY <1>32 DEF vars, store, history
<1> QED
  BY <1>1, <1>2, <1>3, <1>4, <1>5, <1>6, <1>7, <1>8, <1>9, <1>10, <1>11, <1>12, <1>13, <1>14, <1>15, <1>16, <1>17, <1>18, <1>19, <1>20, <1>21, <1>22, <1>23, <1>24, <1>25, <1>26, <1>27, <1>28, <1>29, <1>30, <1>31, <1>32 DEF Next, Task, Reset

\* The tokens on disk stay those of the owner.
LEMMA TokensAgreeStep == Inv /\ Tokens /\ [Next]_vars => TokensAgree'
<1> SUFFICES ASSUME Inv, Tokens, [Next]_vars PROVE TokensAgree'
  OBVIOUS
<1> USE InvGives, IdleRecord, NobodyIsNone DEF Sets, Pcs, Tokens, Carried, Carrying, TokensAgree, store, history
<1>1. ASSUME Start PROVE TokensAgree'
  BY <1>1 DEF Start
<1>2. ASSUME AuthorizeFails PROVE TokensAgree'
  BY <1>2, ExitSets DEF AuthorizeFails, Waiting, Fault
<1>3. ASSUME ConsentStale PROVE TokensAgree'
  BY <1>3 DEF ConsentStale, Waiting, Fault
<1>4. ASSUME Exchange PROVE TokensAgree'
  BY <1>4, ExchangeSets DEF store
<1>5. ASSUME ExchangeFails PROVE TokensAgree'
  <2>1. phase = "authorize"
    BY <1>5 DEF ExchangeFails, Roles
  <2> QED BY <1>5, <2>1 DEF ExchangeFails
<1>6. ASSUME Connected PROVE TokensAgree'
  BY <1>6 DEF Connected
<1>7. ASSUME InfrastructureFails PROVE TokensAgree'
  <2>1. \A t \in Tasks : task[t].pc = "idle"
    BY <1>7 DEF InfrastructureFails, Roles
  <2> QED BY <1>7, <2>1 DEF InfrastructureFails
<1>8. ASSUME Profile PROVE TokensAgree'
  BY <1>8 DEF Profile, StoredProfile
<1>9. ASSUME AskDelta PROVE TokensAgree'
  BY <1>9, KeepsSets DEF AskDelta, Ask
<1>10. ASSUME StoreLink PROVE TokensAgree'
  BY <1>10, IdleSets DEF StoreLink
<1>11. ASSUME AskProfile PROVE TokensAgree'
  BY <1>11, KeepsSets DEF AskProfile, Ask
<1>12. ASSUME StoreProfile PROVE TokensAgree'
  BY <1>12, IdleSets DEF StoreProfile
<1>13. ASSUME Report PROVE TokensAgree'
  BY <1>13, IdleSets DEF Report, Done
<1>14. ASSUME NEW c \in Calls, CallDone(c) PROVE TokensAgree'
  BY <1>14, IdleSets DEF CallDone, Done
<1>15. ASSUME NEW a \in Accounts, Consent(a) PROVE TokensAgree'
  BY <1>15, ConsentSets DEF Consent, Waiting
<1>16. ASSUME NEW t \in Tasks, Load(t) PROVE TokensAgree'
  BY <1>16, LoadSets, GiveUpSets DEF Load, NeedsToken, FetchProfile
<1>17. ASSUME NEW t \in Tasks, Refresh(t) PROVE TokensAgree'
  BY <1>17, RefreshSets DEF store
<1>18. ASSUME NEW t \in Tasks, RefreshFails(t) PROVE TokensAgree'
  <2>1. task[t].pc # "write" /\ (t = "main" => phase # "up")
    BY <1>18 DEF RefreshFails, Roles
  <2>2. \A u \in Tasks : task[u].pc = "write" => task'[u].pc = "write"
    BY <1>18, <2>1, WritersStay DEF RefreshFails
  <2>3. UNCHANGED <<file, owner, lost, late>>
    BY <1>18 DEF RefreshFails
  <2> QED BY <2>2, <2>3
<1>19. ASSUME NEW t \in Tasks, SaveOpen(t) PROVE TokensAgree'
  BY <1>19, KeepsSets DEF SaveOpen
<1>20. ASSUME NEW t \in Tasks, SaveWrite(t) PROVE TokensAgree'
  <2>1. task[t].pc = "write" /\ (phase # "up" => t = "main")
    BY <1>20, WriteSets
  <2>2. UNCHANGED <<tabs, link, profile, reset, events, faults>>
    BY <1>20, WriteSets
  <2>5. \/ file'.state = "whole" /\ file'.tok = task[t].tok /\ UNCHANGED lost
        \/ file'.state = "torn" /\ lost' = TRUE
    BY <1>20, WriteSets
  <2>3. CASE phase = "authorize"
    BY <1>20, <2>1, <2>2, <2>3, SignedInSets, <2>5 DEF Owned
  <2>4. CASE phase # "authorize"
    <3>1. Sets(t, "send", task[t].tok) /\ UNCHANGED <<phase, owner, late>>
      BY <1>20, <2>4, SavedSets
    <3> QED BY <2>1, <2>2, <2>4, <3>1, <2>5 DEF Owned
  <2> QED BY <2>3, <2>4
<1>21. ASSUME NEW t \in Tasks, WriteOrphan(t) PROVE TokensAgree'
  BY <1>21, KeepsSets DEF WriteOrphan
<1>22. ASSUME NEW t \in Tasks, SaveFails(t) PROVE TokensAgree'
  <2>1. UNCHANGED <<file, owner, late>> /\ (~lost' => ~lost /\ task[t].pc # "write")
    BY <1>22 DEF SaveFails
  <2>2. CASE task[t].pc = "write"
    BY <2>1, <2>2
  <2>3. CASE task[t].pc # "write"
    <3>1. t = "main" => phase # "up"
      BY <1>22 DEF SaveFails, Roles
    <3>2. \A u \in Tasks : task[u].pc = "write" => task'[u].pc = "write"
      BY <1>22, <2>3, <3>1, WritersStay DEF SaveFails
    <3> QED BY <2>1, <3>2
  <2> QED BY <2>2, <2>3
<1>23. ASSUME NEW t \in Tasks, RequestFails(t) PROVE TokensAgree'
  <2>1. task[t].pc # "write" /\ (t = "main" => phase # "up")
    BY <1>23 DEF RequestFails, Roles
  <2>2. \A u \in Tasks : task[u].pc = "write" => task'[u].pc = "write"
    BY <1>23, <2>1, WritersStay DEF RequestFails
  <2>3. UNCHANGED <<file, owner, lost, late>>
    BY <1>23 DEF RequestFails
  <2> QED BY <2>2, <2>3
<1>24. ASSUME ResetRows PROVE TokensAgree'
  BY <1>24 DEF ResetRows, Event
<1>25. ASSUME ResetLink PROVE TokensAgree'
  BY <1>25 DEF ResetLink
<1>26. ASSUME ResetProfile PROVE TokensAgree'
  BY <1>26 DEF ResetProfile
<1>27. ASSUME ResetFile PROVE TokensAgree'
  BY <1>27, OrphanSets DEF ResetFile
<1>28. ASSUME ResetFails PROVE TokensAgree'
  BY <1>28 DEF ResetFails, Fault
<1>29. ASSUME Expire PROVE TokensAgree'
  BY <1>29, FileSets DEF Expire, Event
<1>30. ASSUME Revoke PROVE TokensAgree'
  BY <1>30, RevokeSets, FileSets DEF store, Event
<1>31. ASSUME Kill PROVE TokensAgree'
  BY <1>31, ExitSets DEF Kill, Fault
<1>32. CASE UNCHANGED vars
  BY <1>32 DEF vars, store, history
<1> QED
  BY <1>1, <1>2, <1>3, <1>4, <1>5, <1>6, <1>7, <1>8, <1>9, <1>10, <1>11, <1>12, <1>13, <1>14, <1>15, <1>16, <1>17, <1>18, <1>19, <1>20, <1>21, <1>22, <1>23, <1>24, <1>25, <1>26, <1>27, <1>28, <1>29, <1>30, <1>31, <1>32 DEF Next, Task, Reset

\* The rows stay those of the owner.
LEMMA OneAccountStep == Inv /\ Tokens /\ [Next]_vars => OneAccount'
<1> SUFFICES ASSUME Inv, Tokens, [Next]_vars PROVE OneAccount'
  OBVIOUS
<1> USE InvGives, IdleRecord, NobodyIsNone DEF Sets, Pcs, Tokens, Carried, Carrying, Names, OneAccount, store, history
<1>1. ASSUME Start PROVE OneAccount'
  BY <1>1 DEF Start
<1>2. ASSUME AuthorizeFails PROVE OneAccount'
  BY <1>2, ExitSets DEF AuthorizeFails, Waiting, Fault
<1>3. ASSUME ConsentStale PROVE OneAccount'
  BY <1>3 DEF ConsentStale, Waiting, Fault
<1>4. ASSUME Exchange PROVE OneAccount'
  BY <1>4, ExchangeSets DEF store
<1>5. ASSUME ExchangeFails PROVE OneAccount'
  BY <1>5, ExitSets DEF ExchangeFails, Fault
<1>6. ASSUME Connected PROVE OneAccount'
  BY <1>6 DEF Connected
<1>7. ASSUME InfrastructureFails PROVE OneAccount'
  BY <1>7, ExitSets DEF InfrastructureFails, Fault
<1>8. ASSUME Profile PROVE OneAccount'
  BY <1>8 DEF Profile, StoredProfile
<1>9. ASSUME AskDelta PROVE OneAccount'
  BY <1>9, KeepsSets DEF AskDelta, Ask
<1>10. ASSUME StoreLink PROVE OneAccount'
  BY <1>10, IdleSets DEF StoreLink
<1>11. ASSUME AskProfile PROVE OneAccount'
  BY <1>11, KeepsSets DEF AskProfile, Ask
<1>12. ASSUME StoreProfile PROVE OneAccount'
  BY <1>12, IdleSets DEF StoreProfile
<1>13. ASSUME Report PROVE OneAccount'
  BY <1>13, IdleSets DEF Report, Done
<1>14. ASSUME NEW c \in Calls, CallDone(c) PROVE OneAccount'
  BY <1>14, IdleSets DEF CallDone, Done
<1>15. ASSUME NEW a \in Accounts, Consent(a) PROVE OneAccount'
  BY <1>15, ConsentSets DEF Consent, Waiting
<1>16. ASSUME NEW t \in Tasks, Load(t) PROVE OneAccount'
  BY <1>16, LoadSets, GiveUpSets DEF Load, NeedsToken, FetchProfile
<1>17. ASSUME NEW t \in Tasks, Refresh(t) PROVE OneAccount'
  BY <1>17, RefreshSets DEF store
<1>18. ASSUME NEW t \in Tasks, RefreshFails(t) PROVE OneAccount'
  BY <1>18, GiveUpSets DEF RefreshFails, Fault
<1>19. ASSUME NEW t \in Tasks, SaveOpen(t) PROVE OneAccount'
  BY <1>19, KeepsSets DEF SaveOpen
<1>20. ASSUME NEW t \in Tasks, SaveWrite(t) PROVE OneAccount'
  <2>1. task[t].pc = "write" /\ (phase # "up" => t = "main")
    BY <1>20, WriteSets
  <2>2. UNCHANGED <<tabs, link, profile, reset, events, faults>>
    BY <1>20, WriteSets
  <2>3. CASE phase = "authorize"
    BY <1>20, <2>1, <2>2, <2>3, SignedInSets
  <2>4. CASE phase # "authorize"
    <3>1. Sets(t, "send", task[t].tok) /\ UNCHANGED <<phase, owner, late>>
      BY <1>20, <2>4, SavedSets
    <3> QED BY <2>1, <2>2, <2>4, <3>1
  <2> QED BY <2>3, <2>4
<1>21. ASSUME NEW t \in Tasks, WriteOrphan(t) PROVE OneAccount'
  BY <1>21, KeepsSets DEF WriteOrphan
<1>22. ASSUME NEW t \in Tasks, SaveFails(t) PROVE OneAccount'
  BY <1>22, GiveUpSets DEF SaveFails, Fault
<1>23. ASSUME NEW t \in Tasks, RequestFails(t) PROVE OneAccount'
  BY <1>23, GiveUpSets DEF RequestFails, Fault
<1>24. ASSUME ResetRows PROVE OneAccount'
  BY <1>24 DEF ResetRows, Event
<1>25. ASSUME ResetLink PROVE OneAccount'
  BY <1>25 DEF ResetLink
<1>26. ASSUME ResetProfile PROVE OneAccount'
  BY <1>26 DEF ResetProfile
<1>27. ASSUME ResetFile PROVE OneAccount'
  BY <1>27, OrphanSets DEF ResetFile
<1>28. ASSUME ResetFails PROVE OneAccount'
  BY <1>28 DEF ResetFails, Fault
<1>29. ASSUME Expire PROVE OneAccount'
  BY <1>29, FileSets DEF Expire, Event
<1>30. ASSUME Revoke PROVE OneAccount'
  BY <1>30, RevokeSets, FileSets DEF store, Event
<1>31. ASSUME Kill PROVE OneAccount'
  BY <1>31, ExitSets DEF Kill, Fault
<1>32. CASE UNCHANGED vars
  BY <1>32 DEF vars, store, history
<1> QED
  BY <1>1, <1>2, <1>3, <1>4, <1>5, <1>6, <1>7, <1>8, <1>9, <1>10, <1>11, <1>12, <1>13, <1>14, <1>15, <1>16, <1>17, <1>18, <1>19, <1>20, <1>21, <1>22, <1>23, <1>24, <1>25, <1>26, <1>27, <1>28, <1>29, <1>30, <1>31, <1>32 DEF Next, Task, Reset

-----------------------------------------------------------------------------
\* At the start nobody is signed in and nothing is stored.
LEMMA InitAll == Init => Inv /\ Tokens
<1> SUFFICES ASSUME Init PROVE Inv /\ Tokens
  OBVIOUS
<1>1. \A t \in Tasks : task[t] = Idle
  BY DEF Init
<1>2. TaskTypes /\ FileTypes /\ AtRest /\ RowTypes
  BY IdleRecord, Records, SizesAssumption
     DEF Init, TaskTypes, FileTypes, AtRest, RowTypes, Owners
<1>3. TabTypes /\ FlagTypes
  BY DEF Init, TabTypes, FlagTypes
<1>4. Roles /\ Owned
  BY <1>1, IdleRecord DEF Init, Roles, Owned, Tasks
<1>5. Tokens
  BY <1>1, IdleRecord DEF Init, Tokens, Carried, Carrying, Names, TokensAgree, OneAccount, Tasks
<1> QED BY <1>2, <1>3, <1>4, <1>5, TypeParts DEF Inv

\* Every step keeps the types and the roles.
LEMMA InvStep == Inv /\ [Next]_vars => Inv'
<1> SUFFICES ASSUME Inv, [Next]_vars PROVE Inv'
  OBVIOUS
<1>1. (TaskTypes /\ FileTypes /\ AtRest /\ RowTypes /\ TabTypes /\ FlagTypes)'
  BY TaskTypesStep, FileTypesStep, AtRestStep, RowTypesStep, TabTypesStep, FlagTypesStep
<1>2. TypeOK'
  BY <1>1 DEF TypeOK, TaskTypes, FileTypes, AtRest, RowTypes, TabTypes, FlagTypes
<1> QED BY <1>2, RolesStep, OwnedStep DEF Inv

\* The invariant is inductive.
LEMMA Invariant == Spec => [](Inv /\ Tokens)
<1>1. Init => Inv /\ Tokens
  BY InitAll
<1>2. (Inv /\ Tokens) /\ [Next]_vars => (Inv /\ Tokens)'
  BY InvStep, CarriedStep, NamesStep, TokensAgreeStep, OneAccountStep DEF Tokens
<1> QED
  BY <1>1, <1>2, PTL DEF Spec

-----------------------------------------------------------------------------
\* The file, the tasks and the rows hold what they can; a file that can be read
\* is of an account; a daemon that is not up runs nothing but main.
THEOREM TypeCorrect == Spec => []TypeOK
<1>1. Inv => TypeOK
  BY DEF Inv
<1> QED
  BY <1>1, Invariant, PTL

\* However many tasks refresh the tokens at once, those on disk are the owner's,
\* and after a reset there are none.
THEOREM TokensStay == Spec => []TokensAgree
<1>1. Tokens => TokensAgree
  BY DEF Tokens
<1> QED
  BY <1>1, Invariant, PTL

\* Neither the delta link nor the profile of one account meets the tokens of
\* another.
THEOREM NoMixing == Spec => []OneAccount
<1>1. Tokens => OneAccount
  BY DEF Tokens
<1> QED
  BY <1>1, Invariant, PTL

===============================================================================
