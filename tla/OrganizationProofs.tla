------------------------- MODULE OrganizationProofs -------------------------
(***************************************************************************)
(* One organization, for any number of people, roles, overlapping requests *)
(* and syncs: seats are counted and granted as the plan says, permissions  *)
(* and the tuples in OpenFGA follow the roles, and who was removed stays   *)
(* out.  Its files, for any number of requests and sizes: the storage      *)
(* gauge, the index rows and the objects agree.                            *)
(***************************************************************************)
EXTENDS Organization, FileStorage, FoldLemmas, SequenceTheorems, TLAPS

----------------------------------------------------------------------------
(* The tuples in OpenFGA.                                                  *)

SyncRecord ==
    [step : {"none", "queued", "current", "send", "ended"}, want : SUBSET Relations, keep : SUBSET Perms,
     adds : SUBSET Relations, dels : SUBSET Relations, late : BOOLEAN]

\* A sync that nothing has overtaken wants the tuples of the membership as it is, has
\* the difference to the store left to send, and takes nothing away that is kept.
SyncOK(s, m, T) ==
    /\ s.step \in {"current", "send"} /\ ~s.late => s.want = Desired(m)
    /\ s.step = "send" /\ ~s.late =>
          /\ s.adds = s.want \ T /\ s.dels = T \ s.want
          /\ \A p \in s.keep : Allowed(s.want, p) /\ Allowed(T, p)

TuplesInv ==
    /\ rbac \in Rbac /\ tuples \subseteq Relations /\ changes \in Nat
    /\ sync \in [SyncIds -> SyncRecord]
    /\ \A i \in SyncIds : SyncOK(sync[i], rbac, tuples)
    /\ InStep => tuples = Desired(rbac)
    /\ DecisionCurrent

\* build_model over desired_tuples gives back the membership's permission_keys.
LEMMA DesiredIsExact ==
    ASSUME NEW m \in Rbac
    PROVE  /\ Desired(m) \subseteq Relations
           /\ \A p \in Perms : Allowed(Desired(m), p) <=> m.active /\ p \in m.keys
<1>1. CASE m = NotActive
  BY <1>1 DEF NotActive, Desired, Allowed
<1>2. CASE m \in {[active |-> TRUE, roles |-> roles, keys |-> Recompute(roles, c)] :
                             roles \in SUBSET RoleKeys \ {{}}, c \in Grants}
  <2>1. PICK roles \in SUBSET RoleKeys \ {{}}, c \in Grants :
            m = [active |-> TRUE, roles |-> roles, keys |-> Recompute(roles, c)]
    BY <1>2
  <2>2. /\ Recompute(roles, c) \subseteq Perms
        /\ SystemRole \in roles => SystemPerms \subseteq Recompute(roles, c)
    BY PermissionsAssumption DEF Recompute, PermsOf, RoleKeys
  <2>3. /\ m.active = TRUE /\ m.roles = roles /\ m.keys = Recompute(roles, c)
        /\ Desired(m) = DesiredTuples(roles, m.keys)
    BY <2>1 DEF Desired
  <2>4. Desired(m) \subseteq Relations
    BY <2>2, <2>3 DEF DesiredTuples, Relations
  <2>5. ASSUME NEW p \in Perms
        PROVE  Allowed(Desired(m), p) <=> p \in m.keys
    <3>1. p # SystemRole
      BY PermissionsAssumption
    <3>2. Desired(m) = (roles \cap {SystemRole}) \cup (IF SystemRole \in roles THEN m.keys \ SystemPerms ELSE m.keys)
      BY <2>3 DEF DesiredTuples
    <3>3. SystemRole \in Desired(m) <=> SystemRole \in roles
      BY <2>2, <2>3, <3>2, PermissionsAssumption
    <3>4. p \in Desired(m) <=> IF SystemRole \in roles THEN p \in m.keys /\ p \notin SystemPerms ELSE p \in m.keys
      BY <3>1, <3>2
    <3>5. CASE SystemRole \in roles
      BY <2>2, <2>3, <3>3, <3>4, <3>5 DEF Allowed, RolesHolding
    <3>6. CASE SystemRole \notin roles
      BY <2>2, <2>3, <3>3, <3>4, <3>6 DEF Allowed, RolesHolding
    <3> QED
      BY <3>5, <3>6
  <2> QED
    BY <2>3, <2>4, <2>5
<1> QED
  BY <1>1, <1>2 DEF Rbac

\* An additional tuple takes no permission away.
LEMMA AllowedGrows ==
    ASSUME NEW T, NEW U, T \subseteq U, NEW p, Allowed(T, p)
    PROVE  Allowed(U, p)
BY DEF Allowed

LEMMA TuplesInitial == TuplesInit => TuplesInv
<1> SUFFICES ASSUME TuplesInit PROVE TuplesInv
  OBVIOUS
<1>1. rbac \in Rbac /\ tuples \subseteq Relations /\ changes \in Nat
  BY DEF TuplesInit, Rbac
<1>2. NotStarted \in SyncRecord
  BY DEF NotStarted, SyncRecord
<1>3. sync \in [SyncIds -> SyncRecord]
  BY <1>2 DEF TuplesInit
<1>4. \A i \in SyncIds : SyncOK(sync[i], rbac, tuples)
  BY DEF TuplesInit, SyncOK, NotStarted
<1>5. ~InStep /\ DecisionCurrent
  BY DEF TuplesInit, InStep, DecisionCurrent
<1> QED
  BY <1>1, <1>3, <1>4, <1>5 DEF TuplesInv

\* What a step does to the syncs it does not advance.
LEMMA OvertakenSync ==
    ASSUME NEW s \in SyncRecord, NEW m, NEW T
    PROVE  /\ [s EXCEPT !.late = TRUE] \in SyncRecord
           /\ SyncOK([s EXCEPT !.late = TRUE], m, T)
           /\ [s EXCEPT !.late = TRUE].step = s.step
BY DEF SyncRecord, SyncOK

LEMMA QueuedSync ==
    ASSUME NEW s \in SyncRecord, NEW m, NEW T
    PROVE  /\ [s EXCEPT !.step = "queued"] \in SyncRecord
           /\ SyncOK([s EXCEPT !.step = "queued"], m, T)
           /\ [s EXCEPT !.step = "queued"].step = "queued"
BY DEF SyncRecord, SyncOK

LEMMA EndedSync ==
    ASSUME NEW m, NEW T
    PROVE  /\ [NotStarted EXCEPT !.step = "ended"] \in SyncRecord
           /\ SyncOK([NotStarted EXCEPT !.step = "ended"], m, T)
BY DEF NotStarted, SyncRecord, SyncOK

LEMMA ChangeKeeps ==
    ASSUME TuplesInv, Change
    PROVE  TuplesInv'
<1> DEFINE a == 2 * changes + 1
           b == 2 * changes + 2
<1>1. a \in SyncIds /\ b \in SyncIds /\ a # b
  BY AskedAssumption DEF TuplesInv, Change, SyncIds
<1>2. Late(sync) \in [SyncIds -> SyncRecord]
  BY OvertakenSync DEF TuplesInv, Late
<1>3. \A i \in SyncIds : SyncOK(Late(sync)[i], rbac', tuples')
  <2> SUFFICES ASSUME NEW i \in SyncIds PROVE SyncOK(Late(sync)[i], rbac', tuples')
    OBVIOUS
  <2>1. CASE sync[i].step \in {"current", "send"}
    BY <2>1, OvertakenSync DEF TuplesInv, Late
  <2>2. CASE sync[i].step \notin {"current", "send"}
    BY <2>2 DEF Late, SyncOK
  <2> QED
    BY <2>1, <2>2
<1>4. sync' = [Late(sync) EXCEPT ![a] = [Late(sync)[a] EXCEPT !.step = "queued"],
                                 ![b] = [Late(sync)[b] EXCEPT !.step = "queued"]]
  BY <1>1, <1>2 DEF Change
<1>5. /\ sync'[a] = [Late(sync)[a] EXCEPT !.step = "queued"]
      /\ sync'[b] = [Late(sync)[b] EXCEPT !.step = "queued"]
      /\ \A i \in SyncIds \ {a, b} : sync'[i] = Late(sync)[i]
      /\ DOMAIN sync' = SyncIds
      /\ sync' = [i \in SyncIds |-> sync'[i]]
  BY <1>1, <1>2, <1>4
<1>6. \A i \in SyncIds : sync'[i] \in SyncRecord /\ SyncOK(sync'[i], rbac', tuples')
  <2> SUFFICES ASSUME NEW i \in SyncIds PROVE sync'[i] \in SyncRecord /\ SyncOK(sync'[i], rbac', tuples')
    OBVIOUS
  <2>1. Late(sync)[i] \in SyncRecord
    BY <1>2
  <2>2. CASE i \in {a, b}
    BY <1>5, <2>1, <2>2, QueuedSync
  <2>3. CASE i \notin {a, b}
    BY <1>3, <1>5, <2>1, <2>3
  <2> QED
    BY <2>2, <2>3
<1>7. sync' \in [SyncIds -> SyncRecord]
  BY <1>5, <1>6
<1>8. ~InStep'
  <2>1. sync'[a].step = "queued"
    BY <1>1, <1>2, <1>5, QueuedSync
  <2> QED
    BY <1>1, <2>1 DEF InStep, Settled
<1>9. DecisionCurrent'
  BY DEF Change, Forgotten, DecisionCurrent
<1>10. rbac' \in Rbac /\ tuples' \subseteq Relations /\ changes' \in Nat
  BY DEF Change, TuplesInv
<1> QED
  BY <1>6, <1>7, <1>8, <1>9, <1>10 DEF TuplesInv

\* One sync moves on; the membership and the store stay as they are.
LEMMA OneSyncMoves ==
    ASSUME TuplesInv, NEW i \in SyncIds, NEW s \in SyncRecord,
           sync' = [sync EXCEPT ![i] = s], SyncOK(s, rbac, tuples), UNCHANGED <<rbac, tuples, changes, decision>>,
           InStep' => tuples = Desired(rbac)
    PROVE  TuplesInv'
<1>1. sync' \in [SyncIds -> SyncRecord]
  BY DEF TuplesInv
<1>2. \A j \in SyncIds : SyncOK(sync'[j], rbac', tuples')
  BY DEF TuplesInv
<1>3. DecisionCurrent'
  BY DEF TuplesInv, DecisionCurrent
<1> QED
  BY <1>1, <1>2, <1>3 DEF TuplesInv

LEMMA ReadDesiredKeeps ==
    ASSUME TuplesInv, NEW i \in SyncIds, ReadDesired(i)
    PROVE  TuplesInv'
<1>1. PICK s : s = sync[i]
  OBVIOUS
<1> DEFINE t == [s EXCEPT !.step = "current", !.want = Desired(rbac)]
<1>2. s \in SyncRecord
  BY <1>1 DEF TuplesInv
<1>3. t \in SyncRecord /\ t.step = "current" /\ t.want = Desired(rbac)
  BY <1>2, DesiredIsExact DEF TuplesInv, SyncRecord
<1>4. sync' = [sync EXCEPT ![i] = t]
  BY <1>1 DEF ReadDesired, TuplesInv
<1>5. SyncOK(t, rbac, tuples)
  BY <1>3 DEF SyncOK
<1>6. ~InStep'
  <2>1. sync'[i] = t
    BY <1>4 DEF TuplesInv
  <2> QED
    BY <1>3, <2>1 DEF InStep, Settled
<1>7. UNCHANGED <<rbac, tuples, changes, decision>>
  BY DEF ReadDesired
<1> HIDE DEF t
<1> QED
  BY <1>3, <1>4, <1>5, <1>6, <1>7, OneSyncMoves

LEMMA ReadCurrentKeeps ==
    ASSUME TuplesInv, NEW i \in SyncIds, ReadCurrent(i)
    PROVE  TuplesInv'
<1>1. PICK s : s = sync[i]
  OBVIOUS
<1> DEFINE keep == {p \in Perms : Allowed(tuples, p) /\ Allowed(s.want, p)}
           t == [s EXCEPT !.step = "send", !.keep = keep, !.adds = s.want \ tuples, !.dels = tuples \ s.want]
<1>2. s \in SyncRecord /\ s.step = "current" /\ SyncOK(s, rbac, tuples)
  BY <1>1 DEF TuplesInv, ReadCurrent
<1>3. keep \in SUBSET Perms /\ s.want \ tuples \in SUBSET Relations /\ tuples \ s.want \in SUBSET Relations
  BY <1>2 DEF TuplesInv, SyncRecord
<1>4. /\ t \in SyncRecord /\ t.step = "send" /\ t.want = s.want /\ t.keep = keep
      /\ t.adds = s.want \ tuples /\ t.dels = tuples \ s.want /\ t.late = s.late
  <2> HIDE DEF keep
  <2> QED
    BY <1>2, <1>3 DEF SyncRecord
<1>5. sync' = [sync EXCEPT ![i] = t]
  BY <1>1 DEF ReadCurrent, TuplesInv
<1>6. SyncOK(t, rbac, tuples)
  BY <1>2, <1>4 DEF SyncOK
<1>7. ~InStep'
  <2>1. sync'[i] = t
    BY <1>5 DEF TuplesInv
  <2> QED
    BY <1>4, <2>1 DEF InStep, Settled
<1>8. UNCHANGED <<rbac, tuples, changes, decision>>
  BY DEF ReadCurrent
<1> HIDE DEF t
<1> QED
  BY <1>4, <1>5, <1>6, <1>7, <1>8, OneSyncMoves

LEMMA SyncDoneKeeps ==
    ASSUME TuplesInv, NEW i \in SyncIds, SyncDone(i)
    PROVE  TuplesInv'
<1> DEFINE t == [NotStarted EXCEPT !.step = "ended"]
<1>1. t \in SyncRecord /\ SyncOK(t, rbac, tuples)
  BY EndedSync
<1>2. InStep' => tuples = Desired(rbac)
  <2>1. InStep' => ~sync[i].late
    BY DEF InStep, SyncDone, Ended
  <2>2. ~sync[i].late => sync[i].want = Desired(rbac) /\ sync[i].want \ tuples = {} /\ tuples \ sync[i].want = {}
    BY DEF TuplesInv, SyncOK, SyncDone
  <2> QED
    BY <2>1, <2>2
<1>3. sync' = [sync EXCEPT ![i] = t] /\ UNCHANGED <<rbac, tuples, changes, decision>>
  BY DEF SyncDone, Ended
<1> HIDE DEF t
<1> QED
  BY <1>1, <1>2, <1>3, OneSyncMoves

LEMMA SyncFailsKeeps ==
    ASSUME TuplesInv, NEW i \in SyncIds, SyncFails(i)
    PROVE  TuplesInv'
<1> DEFINE t == [NotStarted EXCEPT !.step = "ended"]
<1>1. t \in SyncRecord /\ SyncOK(t, rbac, tuples)
  BY EndedSync
<1>2. ~InStep'
  BY DEF InStep, SyncFails, Ended
<1>3. sync' = [sync EXCEPT ![i] = t] /\ UNCHANGED <<rbac, tuples, changes, decision>>
  BY DEF SyncFails, Ended
<1> HIDE DEF t
<1> QED
  BY <1>1, <1>2, <1>3, OneSyncMoves

\* The additions go out before the deletions, so a permission that is kept stays.
LEMMA SendKeeps ==
    ASSUME TuplesInv, NEW i \in SyncIds, Send(i)
    PROVE  TuplesInv'
<1>1. PICK s : s = sync[i]
  OBVIOUS
<1>2. s \in SyncRecord /\ SyncOK(s, rbac, tuples)
  BY <1>1 DEF TuplesInv
<1>3. PICK r \in Relations :
        /\ s.step = "send" /\ MaySend(s, r)
        /\ tuples' = IF r \in s.adds THEN tuples \cup {r} ELSE tuples \ {r}
        /\ sync' = [j \in SyncIds |->
              IF j = i THEN [s EXCEPT !.adds = @ \ {r}, !.dels = @ \ {r}]
              ELSE IF sync[j].step = "send" THEN [sync[j] EXCEPT !.late = TRUE] ELSE sync[j]]
        /\ UNCHANGED <<rbac, changes, last, decision>>
  BY <1>1 DEF Send
<1> DEFINE t == [s EXCEPT !.adds = @ \ {r}, !.dels = @ \ {r}]
<1>4. /\ t \in SyncRecord /\ t.step = "send" /\ t.want = s.want /\ t.keep = s.keep
      /\ t.adds = s.adds \ {r} /\ t.dels = s.dels \ {r} /\ t.late = s.late
  BY <1>2, <1>3 DEF SyncRecord
<1>5. SyncOK(t, rbac, tuples')
  <2> SUFFICES ASSUME ~s.late PROVE SyncOK(t, rbac, tuples')
    BY <1>4 DEF SyncOK
  <2>1. /\ s.want = Desired(rbac) /\ s.adds = s.want \ tuples /\ s.dels = tuples \ s.want
        /\ \A p \in s.keep : Allowed(s.want, p) /\ Allowed(tuples, p)
    BY <1>2, <1>3 DEF SyncOK
  <2>2. CASE r \in s.adds
    <3>1. tuples' = tuples \cup {r} /\ r \in s.want /\ r \notin s.dels
      BY <1>3, <2>1, <2>2
    <3>2. t.adds = t.want \ tuples' /\ t.dels = tuples' \ t.want
      BY <1>4, <2>1, <3>1
    <3>3. \A p \in s.keep : Allowed(tuples', p)
      BY <2>1, <3>1, AllowedGrows
    <3> QED
      BY <1>4, <2>1, <3>2, <3>3 DEF SyncOK
  <2>3. CASE r \notin s.adds
    <3>1. s.adds = {} /\ r \in s.dels /\ tuples' = tuples \ {r}
      BY <1>3, <2>3 DEF MaySend
    <3>2. t.adds = t.want \ tuples' /\ t.dels = tuples' \ t.want /\ s.want \subseteq tuples'
      BY <1>4, <2>1, <3>1
    <3>3. \A p \in s.keep : Allowed(tuples', p)
      BY <2>1, <3>2, AllowedGrows
    <3> QED
      BY <1>4, <2>1, <3>2, <3>3 DEF SyncOK
  <2> QED
    BY <2>2, <2>3
<1>6. ASSUME NEW j \in SyncIds
      PROVE  sync'[j] \in SyncRecord /\ SyncOK(sync'[j], rbac, tuples')
  <2>1. CASE j = i
    BY <1>3, <1>4, <1>5, <2>1
  <2>2. CASE j # i /\ sync[j].step = "send"
    <3>1. sync[j] \in SyncRecord
      BY DEF TuplesInv
    <3>2. sync'[j] = [sync[j] EXCEPT !.late = TRUE]
      BY <1>3, <2>2
    <3> QED
      BY <3>1, <3>2, OvertakenSync
  <2>3. CASE j # i /\ sync[j].step # "send"
    <3>1. sync'[j] = sync[j] /\ sync[j] \in SyncRecord /\ SyncOK(sync[j], rbac, tuples)
      BY <1>3, <2>3 DEF TuplesInv
    <3> QED
      BY <2>3, <3>1 DEF SyncOK
  <2> QED
    BY <2>1, <2>2, <2>3
<1>7. sync' \in [SyncIds -> SyncRecord]
  <2>1. DOMAIN sync' = SyncIds /\ sync' = [j \in SyncIds |-> sync'[j]]
    BY <1>3
  <2> QED
    BY <1>6, <2>1
<1>8. ~InStep'
  <2>1. sync'[i] = t
    BY <1>3
  <2> QED
    BY <1>4, <2>1 DEF InStep, Settled
<1>9. rbac' = rbac /\ changes' = changes /\ tuples' \subseteq Relations /\ DecisionCurrent'
  BY <1>3 DEF TuplesInv, DecisionCurrent
<1> QED
  BY <1>6, <1>7, <1>8, <1>9 DEF TuplesInv

LEMMA FgaAllowedKeeps ==
    ASSUME TuplesInv, FgaAllowed
    PROVE  TuplesInv'
<1>1. InStep' => tuples' = Desired(rbac')
  BY DEF TuplesInv, FgaAllowed, InStep, Settled
<1>2. DecisionCurrent'
  <2>1. CASE InStep
    <3>1. Allowed(tuples, Asked) <=> rbac.active /\ Asked \in rbac.keys
      BY <2>1, DesiredIsExact, AskedAssumption DEF TuplesInv
    <3> QED
      BY <2>1, <3>1 DEF FgaAllowed, DecisionCurrent
  <2>2. CASE ~InStep
    BY <2>2 DEF FgaAllowed, DecisionCurrent
  <2> QED
    BY <2>1, <2>2
<1> QED
  BY <1>1, <1>2 DEF TuplesInv, FgaAllowed

LEMMA DecisionExpiresKeeps ==
    ASSUME TuplesInv, DecisionExpires
    PROVE  TuplesInv'
<1>1. InStep' => tuples' = Desired(rbac')
  BY DEF TuplesInv, DecisionExpires, InStep, Settled
<1>2. DecisionCurrent'
  BY DEF DecisionExpires, DecisionCurrent
<1> QED
  BY <1>1, <1>2 DEF TuplesInv, DecisionExpires

LEMMA TuplesStay ==
    ASSUME TuplesInv, UNCHANGED tupleVars
    PROVE  TuplesInv'
BY DEF TuplesInv, tupleVars, InStep, Settled, DecisionCurrent

LEMMA TuplesKept ==
    ASSUME TuplesInv, TuplesNext
    PROVE  TuplesInv'
<1>1. CASE Change
  BY <1>1, ChangeKeeps
<1>2. CASE FgaAllowed
  BY <1>2, FgaAllowedKeeps
<1>3. CASE DecisionExpires
  BY <1>3, DecisionExpiresKeeps
<1>4. ASSUME NEW i \in SyncIds, ReadDesired(i) \/ ReadCurrent(i) \/ Send(i) \/ SyncDone(i) \/ SyncFails(i)
      PROVE  TuplesInv'
  BY <1>4, ReadDesiredKeeps, ReadCurrentKeeps, SendKeeps, SyncDoneKeeps, SyncFailsKeeps
<1> QED
  BY <1>1, <1>2, <1>3, <1>4 DEF TuplesNext

LEMMA TuplesFollow == TuplesInv => TuplesFollowRoles
<1> SUFFICES ASSUME TuplesInv PROVE TuplesFollowRoles
  OBVIOUS
<1>1. TuplesOK
  BY DEF TuplesInv, TuplesOK, SyncRecord
<1>2. TuplesConverge
  BY DesiredIsExact DEF TuplesInv, TuplesConverge, Exact
<1>3. NoGap
  BY DEF TuplesInv, NoGap, SyncOK
<1> QED
  BY <1>1, <1>2, <1>3 DEF TuplesInv, TuplesFollowRoles

----------------------------------------------------------------------------
(* Roles, the permission_keys column and the permission cache.             *)

KeySets == SUBSET Perms
Partial == UNION {[D -> KeySets] : D \in SUBSET Accounts}
Transaction ==
    [op : {"create", "edit", "delete", "roles", "invite", "status", "remove"},
     user : Accounts \cup {Nothing}, roles : SUBSET RoleKeys, seen : SUBSET (RoleKeys \cup Perms),
     status : {"none", "active", "suspended"}, custom : KeySets \cup {Nothing},
     keys : Partial, bumps : SUBSET Accounts, late : BOOLEAN]
Key == [creator : Accounts, scopes : KeySets]

\* What every request carries, late or not.
TxTyped(t) ==
    /\ t \in Transaction
    /\ t.op \in {"roles", "invite", "status", "remove"} => t.user \in Accounts
    /\ t.op \in {"create", "edit"} => t.custom \in KeySets
    /\ t.op = "delete" => t.custom = Nothing
    /\ t.op = "invite" => DOMAIN t.keys = {t.user}
    /\ t.op = "status" => t.status \in {"active", "suspended"}
    /\ t.op \in {"create", "status", "remove"} => DOMAIN t.keys = {}
    /\ t.op = "roles" => DOMAIN t.keys \subseteq {t.user}

\* The keys of u once t has committed, unless the row goes or comes with it.
KeysWith(t, u) == IF u \in DOMAIN t.keys THEN t.keys[u] ELSE member[u].keys

\* A request that no commit has overtaken computed from the rows as they are, and
\* announces to everybody whose permissions it changes.
TxNow(t) ==
    /\ t.op = "edit" =>
          /\ t.seen = custom /\ t.bumps = Joined /\ DOMAIN t.keys \subseteq Holders
          /\ \A u \in Holders : KeysWith(t, u) = Recompute(member[u].roles, t.custom)
    /\ t.op = "delete" =>
          /\ t.bumps = Joined /\ DOMAIN t.keys \subseteq Holders
          /\ \A u \in Holders : KeysWith(t, u) = Recompute(member[u].roles \ {CustomRole}, custom)
    /\ t.op = "roles" =>
          /\ t.seen = member[t.user].roles /\ t.bumps = {t.user} \cap Joined
          /\ KeysWith(t, t.user) = Recompute(t.roles, custom)
    /\ t.op = "invite" =>
          /\ member[t.user].status = "none" /\ t.keys[t.user] = Recompute(t.roles, custom)
    /\ t.op = "status" => t.bumps = {t.user}

RolesTyped ==
    /\ custom \in KeySets \cup {Nothing}
    /\ member \in [Accounts -> Membership]
    /\ cached \in [Accounts -> KeySets \cup {Nothing}]
    /\ tx \in [Requests -> Transaction \cup {NoTx}]
    /\ apiKey \in Key \cup {Nothing}

TransactionsInv ==
    \A r \in Requests : \A t \in {tx[r]} \ {NoTx} : TxTyped(t) /\ (~t.late => TxNow(t))

NoneHoldsNothing == custom = Nothing => Holders = {}

RolesInv == RolesTyped /\ TransactionsInv /\ NoneHoldsNothing /\ KeysMatchRoles /\ CacheExplained

LEMMA NoTxIsNone == NoTx \notin Transaction
BY DEF NoTx, Transaction

\* What the roles grant are permissions; without the custom role its set is irrelevant.
LEMMA RecomputeFacts ==
    ASSUME NEW roles \in SUBSET RoleKeys, NEW c \in KeySets \cup {Nothing}
    PROVE  /\ Recompute(roles, c) \in KeySets
           /\ CustomRole \notin roles => \A d : Recompute(roles, d) = Recompute(roles, c)
<1>1. \A role \in roles : PermsOf(role, c) \subseteq Perms
  BY PermissionsAssumption DEF RoleKeys, PermsOf, KeySets
<1>2. ASSUME CustomRole \notin roles, NEW d
      PROVE  Recompute(roles, d) = Recompute(roles, c)
  <2>1. \A role \in roles : PermsOf(role, d) = PermsOf(role, c)
    BY <1>2 DEF RoleKeys, PermsOf
  <2> QED
    BY <2>1 DEF Recompute
<1> QED
  BY <1>1, <1>2 DEF Recompute, KeySets

LEMMA RecomputeOne ==
    ASSUME NEW role, NEW c
    PROVE  Recompute({role}, c) = PermsOf(role, c)
BY DEF Recompute

LEMMA RolesInitial == RolesInit => RolesInv
<1> SUFFICES ASSUME RolesInit PROVE RolesInv
  OBVIOUS
<1>1. RolesTyped
  BY PermissionsAssumption DEF RolesInit, RolesTyped, Membership, RoleKeys, KeySets
<1>2. TransactionsInv
  BY DEF RolesInit, TransactionsInv
<1>3. NoneHoldsNothing
  BY PermissionsAssumption DEF RolesInit, NoneHoldsNothing, Holders
<1>4. KeysMatchRoles
  BY RecomputeOne DEF RolesInit, KeysMatchRoles, PermsOf
<1>5. CacheExplained
  BY DEF RolesInit, CacheExplained
<1> QED
  BY <1>1, <1>2, <1>3, <1>4, <1>5 DEF RolesInv

\* The rows stay: what a request computed from them still holds.
LEMMA SameRows ==
    ASSUME NEW t, UNCHANGED <<custom, member>>, TxNow(t)
    PROVE  TxNow(t)'
BY DEF TxNow, Joined, Holders, KeysWith

LEMMA BumpedServesLess ==
    ASSUME RolesInv, NEW U
    PROVE  /\ Bumped(U) \in [Accounts -> KeySets \cup {Nothing}]
           /\ \A u \in Accounts : Bumped(U)[u] = IF u \in U THEN Nothing ELSE cached[u]
BY DEF RolesInv, RolesTyped, Bumped

\* A request begins: it is announced, and computed from the rows as they are.
LEMMA BeginKeeps ==
    ASSUME RolesInv, NEW r \in Requests, NEW t, Begin(r, t), TxTyped(t), TxNow(t)
    PROVE  RolesInv'
<1>1. /\ tx' = [tx EXCEPT ![r] = t] /\ cached' = Bumped(t.bumps)
      /\ UNCHANGED <<custom, member, apiKey, unannounced, skew>>
  BY DEF Begin
<1>2. RolesTyped'
  <2>1. t \in Transaction
    BY DEF TxTyped
  <2> QED
    BY <1>1, <2>1, BumpedServesLess DEF RolesInv, RolesTyped
<1>3. TransactionsInv'
  <2> SUFFICES ASSUME NEW x \in Requests, NEW s, s = tx'[x], s # NoTx
               PROVE  TxTyped(s) /\ (~s.late => TxNow(s)')
    BY DEF TransactionsInv
  <2>1. CASE x = r
    <3>1. s = t
      BY <1>1, <2>1 DEF RolesInv, RolesTyped
    <3>2. TxNow(t)'
      BY <1>1, SameRows
    <3> QED
      BY <3>1, <3>2
  <2>2. CASE x # r
    <3>1. s = tx[x]
      BY <1>1, <2>2 DEF RolesInv, RolesTyped
    <3>2. TxTyped(s) /\ (~s.late => TxNow(s))
      BY <3>1 DEF RolesInv, TransactionsInv
    <3>3. ~s.late => TxNow(s)'
      BY <1>1, <3>2, SameRows
    <3> QED
      BY <3>2, <3>3
  <2> QED
    BY <2>1, <2>2
<1>4. NoneHoldsNothing' /\ KeysMatchRoles'
  BY <1>1 DEF RolesInv, NoneHoldsNothing, Holders, KeysMatchRoles
<1>5. CacheExplained'
  BY <1>1, BumpedServesLess DEF RolesInv, CacheExplained, EffectiveKeys
<1> QED
  BY <1>2, <1>3, <1>4, <1>5 DEF RolesInv

\* Changed keeps the keys that differ from the loaded ones.
LEMMA ChangedKeys ==
    ASSUME NEW D \in SUBSET Accounts, NEW new \in [D -> KeySets]
    PROVE  /\ Changed(new) \in Partial /\ DOMAIN Changed(new) \subseteq D
           /\ \A u \in D : (IF u \in DOMAIN Changed(new) THEN Changed(new)[u] ELSE member[u].keys) = new[u]
<1> DEFINE E == {x \in D : new[x] # member[x].keys}
<1>1. Changed(new) = [u \in E |-> new[u]]
  BY DEF Changed
<1>2. Changed(new) \in [E -> KeySets] /\ E \in SUBSET Accounts
  BY <1>1
<1>3. Changed(new) \in Partial
  BY <1>2 DEF Partial
<1> QED
  BY <1>1, <1>3

LEMMA NoKeys == << >> \in Partial /\ DOMAIN << >> = {}
<1>1. << >> \in [{} -> KeySets] /\ DOMAIN << >> = {}
  OBVIOUS
<1> QED
  BY <1>1 DEF Partial

LEMMA CreateRoleKeeps ==
    ASSUME RolesInv, NEW r \in Requests, CreateRole(r)
    PROVE  RolesInv'
<1>1. PICK c \in Grants : Begin(r, [Blank EXCEPT !.op = "create", !.custom = c])
  BY DEF CreateRole
<1>2. PICK t : t = [Blank EXCEPT !.op = "create", !.custom = c]
  OBVIOUS
<1>3. t = [op |-> "create", user |-> Nothing, roles |-> {}, seen |-> {}, status |-> "none",
           custom |-> c, keys |-> << >>, bumps |-> {}, late |-> FALSE]
  BY <1>2 DEF Blank
<1>4. c \in KeySets
  BY PermissionsAssumption DEF KeySets
<1>5. t \in Transaction
  BY <1>3, <1>4, NoKeys DEF Transaction
<1>6. TxTyped(t)
  BY <1>3, <1>4, <1>5, NoKeys DEF TxTyped
<1>7. TxNow(t)
  BY <1>3 DEF TxNow
<1> QED
  BY <1>1, <1>2, <1>6, <1>7, BeginKeeps

LEMMA UpdateRoleKeeps ==
    ASSUME RolesInv, NEW r \in Requests, UpdateRole(r)
    PROVE  RolesInv'
<1>1. PICK c \in Grants \ {custom} :
          Begin(r, [Blank EXCEPT !.op = "edit", !.custom = c, !.seen = custom, !.bumps = Joined,
                                 !.keys = Changed([u \in Holders |-> Recompute(member[u].roles, c)])])
  BY DEF UpdateRole
<1> DEFINE new == [u \in Holders |-> Recompute(member[u].roles, c)]
<1>2. PICK t : t = [Blank EXCEPT !.op = "edit", !.custom = c, !.seen = custom, !.bumps = Joined, !.keys = Changed(new)]
  OBVIOUS
<1>3. t = [op |-> "edit", user |-> Nothing, roles |-> {}, seen |-> custom, status |-> "none",
           custom |-> c, keys |-> Changed(new), bumps |-> Joined, late |-> FALSE]
  BY <1>2 DEF Blank
<1>4. c \in KeySets /\ custom \in KeySets /\ Holders \in SUBSET Accounts /\ Joined \in SUBSET Accounts
  BY PermissionsAssumption DEF KeySets, Holders, Joined, UpdateRole, RolesInv, RolesTyped
<1>5. new \in [Holders -> KeySets]
  <2>1. \A u \in Holders : member[u].roles \in SUBSET RoleKeys
    BY DEF Holders, RolesInv, RolesTyped, Membership
  <2> QED
    BY <1>4, <2>1, RecomputeFacts
<1>6. /\ Changed(new) \in Partial /\ DOMAIN Changed(new) \subseteq Holders
      /\ \A u \in Holders : (IF u \in DOMAIN Changed(new) THEN Changed(new)[u] ELSE member[u].keys) = new[u]
  <2> HIDE DEF new
  <2> QED
    BY <1>4, <1>5, ChangedKeys
<1>7. t \in Transaction
  <2>1. PICK f : f = Changed(new)
    OBVIOUS
  <2> QED
    BY <1>3, <1>4, <1>6, <2>1 DEF Transaction, KeySets
<1>8. TxTyped(t)
  BY <1>3, <1>4, <1>7 DEF TxTyped
<1>9. TxNow(t)
  BY <1>3, <1>6 DEF TxNow, KeysWith
<1> QED
  BY <1>1, <1>2, <1>8, <1>9, BeginKeeps

LEMMA DeleteRoleKeeps ==
    ASSUME RolesInv, NEW r \in Requests, DeleteRole(r)
    PROVE  RolesInv'
<1> DEFINE new == [u \in Holders |-> Recompute(member[u].roles \ {CustomRole}, custom)]
<1>1. Begin(r, [Blank EXCEPT !.op = "delete", !.bumps = Joined, !.keys = Changed(new)])
  BY DEF DeleteRole
<1>2. PICK t : t = [Blank EXCEPT !.op = "delete", !.bumps = Joined, !.keys = Changed(new)]
  OBVIOUS
<1>3. t = [op |-> "delete", user |-> Nothing, roles |-> {}, seen |-> {}, status |-> "none",
           custom |-> Nothing, keys |-> Changed(new), bumps |-> Joined, late |-> FALSE]
  BY <1>2 DEF Blank
<1>4. custom \in KeySets /\ Holders \in SUBSET Accounts /\ Joined \in SUBSET Accounts
  BY DEF Holders, Joined, DeleteRole, RolesInv, RolesTyped
<1>5. new \in [Holders -> KeySets]
  <2>1. \A u \in Holders : member[u].roles \ {CustomRole} \in SUBSET RoleKeys
    BY DEF Holders, RolesInv, RolesTyped, Membership
  <2> QED
    BY <1>4, <2>1, RecomputeFacts
<1>6. /\ Changed(new) \in Partial /\ DOMAIN Changed(new) \subseteq Holders
      /\ \A u \in Holders : (IF u \in DOMAIN Changed(new) THEN Changed(new)[u] ELSE member[u].keys) = new[u]
  <2> HIDE DEF new
  <2> QED
    BY <1>4, <1>5, ChangedKeys
<1>7. t \in Transaction
  <2>1. PICK f : f = Changed(new)
    OBVIOUS
  <2> QED
    BY <1>3, <1>4, <1>6, <2>1 DEF Transaction, KeySets
<1>8. TxTyped(t)
  BY <1>3, <1>4, <1>7 DEF TxTyped
<1>9. TxNow(t)
  BY <1>3, <1>6 DEF TxNow, KeysWith
<1> QED
  BY <1>1, <1>2, <1>8, <1>9, BeginKeeps

LEMMA ReplaceRolesKeeps ==
    ASSUME RolesInv, NEW r \in Requests, ReplaceRoles(r)
    PROVE  RolesInv'
<1>1. PICK u \in Accounts, roles \in SUBSET RoleKeys \ {{}} :
        Begin(r, [Blank EXCEPT !.op = "roles", !.user = u, !.roles = roles, !.seen = member[u].roles,
                               !.keys = Changed([x \in {u} |-> Recompute(roles, custom)]),
                               !.bumps = {u} \cap Joined])
  BY DEF ReplaceRoles
<1> DEFINE new == [x \in {u} |-> Recompute(roles, custom)]
<1>2. PICK t : t = [Blank EXCEPT !.op = "roles", !.user = u, !.roles = roles, !.seen = member[u].roles,
                                 !.keys = Changed(new), !.bumps = {u} \cap Joined]
  OBVIOUS
<1>3. t = [op |-> "roles", user |-> u, roles |-> roles, seen |-> member[u].roles, status |-> "none",
           custom |-> Nothing, keys |-> Changed(new), bumps |-> {u} \cap Joined, late |-> FALSE]
  BY <1>2 DEF Blank
<1>4. member[u].roles \in SUBSET RoleKeys /\ {u} \in SUBSET Accounts /\ {u} \cap Joined \in SUBSET Accounts
  BY DEF RolesInv, RolesTyped, Membership
<1>5. new \in [{u} -> KeySets]
  BY RecomputeFacts DEF RolesInv, RolesTyped
<1>6. /\ Changed(new) \in Partial /\ DOMAIN Changed(new) \subseteq {u}
      /\ \A x \in {u} : (IF x \in DOMAIN Changed(new) THEN Changed(new)[x] ELSE member[x].keys) = new[x]
  <2> HIDE DEF new
  <2> QED
    BY <1>4, <1>5, ChangedKeys
<1>7. t \in Transaction
  <2>1. PICK f : f = Changed(new)
    OBVIOUS
  <2> QED
    BY <1>3, <1>4, <1>6, <2>1 DEF Transaction
<1>8. TxTyped(t)
  BY <1>3, <1>6, <1>7 DEF TxTyped
<1>9. TxNow(t)
  BY <1>3, <1>6 DEF TxNow, KeysWith
<1> QED
  BY <1>1, <1>2, <1>8, <1>9, BeginKeeps

LEMMA InviteKeeps ==
    ASSUME RolesInv, NEW r \in Requests, Invite(r)
    PROVE  RolesInv'
<1>1. PICK u \in Accounts, role \in RoleKeys :
        /\ member[u].status = "none"
        /\ Begin(r, [Blank EXCEPT !.op = "invite", !.user = u, !.roles = {role},
                                  !.keys = [x \in {u} |-> PermsOf(role, custom)]])
  BY DEF Invite
<1>2. PICK t : t = [Blank EXCEPT !.op = "invite", !.user = u, !.roles = {role},
                                 !.keys = [x \in {u} |-> PermsOf(role, custom)]]
  OBVIOUS
<1>3. PICK f : f = [x \in {u} |-> PermsOf(role, custom)]
  OBVIOUS
<1>4. t = [op |-> "invite", user |-> u, roles |-> {role}, seen |-> {}, status |-> "none",
           custom |-> Nothing, keys |-> f, bumps |-> {}, late |-> FALSE]
  BY <1>2, <1>3 DEF Blank
<1>5. PermsOf(role, custom) = Recompute({role}, custom) /\ PermsOf(role, custom) \in KeySets
  BY RecomputeOne, RecomputeFacts DEF RolesInv, RolesTyped
<1>6. f \in [{u} -> KeySets] /\ DOMAIN f = {u} /\ f[u] = Recompute({role}, custom)
  BY <1>3, <1>5
<1>7. f \in Partial
  BY <1>6 DEF Partial
<1>8. t \in Transaction
  BY <1>4, <1>7 DEF Transaction
<1>9. TxTyped(t)
  BY <1>4, <1>6, <1>8 DEF TxTyped
<1>10. TxNow(t)
  BY <1>1, <1>4, <1>6 DEF TxNow
<1> QED
  BY <1>1, <1>2, <1>9, <1>10, BeginKeeps

LEMMA ChangeStatusKeeps ==
    ASSUME RolesInv, NEW r \in Requests, ChangeStatus(r)
    PROVE  RolesInv'
<1>1. PICK u \in Accounts, new \in {"active", "suspended"} :
        Begin(r, [Blank EXCEPT !.op = "status", !.user = u, !.status = new, !.bumps = {u}])
  BY DEF ChangeStatus
<1>2. PICK t : t = [Blank EXCEPT !.op = "status", !.user = u, !.status = new, !.bumps = {u}]
  OBVIOUS
<1>3. t = [op |-> "status", user |-> u, roles |-> {}, seen |-> {}, status |-> new,
           custom |-> Nothing, keys |-> << >>, bumps |-> {u}, late |-> FALSE]
  BY <1>2 DEF Blank
<1>4. t \in Transaction
  BY <1>3, NoKeys DEF Transaction
<1>5. TxTyped(t)
  BY <1>3, <1>4, NoKeys DEF TxTyped
<1>6. TxNow(t)
  BY <1>3 DEF TxNow
<1> QED
  BY <1>1, <1>2, <1>5, <1>6, BeginKeeps

LEMMA RemoveMemberKeeps ==
    ASSUME RolesInv, NEW r \in Requests, RemoveMember(r)
    PROVE  RolesInv'
<1>1. PICK u \in Accounts : Begin(r, [Blank EXCEPT !.op = "remove", !.user = u])
  BY DEF RemoveMember
<1>2. PICK t : t = [Blank EXCEPT !.op = "remove", !.user = u]
  OBVIOUS
<1>3. t = [op |-> "remove", user |-> u, roles |-> {}, seen |-> {}, status |-> "none",
           custom |-> Nothing, keys |-> << >>, bumps |-> {}, late |-> FALSE]
  BY <1>2 DEF Blank
<1>4. t \in Transaction
  BY <1>3, NoKeys DEF Transaction
<1>5. TxTyped(t)
  BY <1>3, <1>4, NoKeys DEF TxTyped
<1>6. TxNow(t)
  BY <1>3 DEF TxNow
<1> QED
  BY <1>1, <1>2, <1>5, <1>6, BeginKeeps

\* A request ends without writing, or rows and requests stay as they are.
LEMMA RequestsStay ==
    ASSUME RolesInv, UNCHANGED <<custom, member, skew>>, tx' \in [Requests -> Transaction \cup {NoTx}],
           \A x \in Requests : tx'[x] \in {tx[x], NoTx}
    PROVE  TransactionsInv' /\ NoneHoldsNothing' /\ KeysMatchRoles'
<1>1. TransactionsInv'
  <2> SUFFICES ASSUME NEW x \in Requests, NEW s, s = tx'[x], s # NoTx
               PROVE  TxTyped(s) /\ (~s.late => TxNow(s)')
    BY DEF TransactionsInv
  <2>1. s = tx[x]
    OBVIOUS
  <2>2. TxTyped(s) /\ (~s.late => TxNow(s))
    BY <2>1 DEF RolesInv, TransactionsInv
  <2> QED
    BY <2>2, SameRows
<1> QED
  BY <1>1 DEF RolesInv, NoneHoldsNothing, Holders, KeysMatchRoles

LEMMA RollbackKeeps ==
    ASSUME RolesInv, NEW r \in Requests, Rollback(r)
    PROVE  RolesInv'
<1>1. tx' \in [Requests -> Transaction \cup {NoTx}] /\ \A x \in Requests : tx'[x] \in {tx[x], NoTx}
  BY DEF Rollback, RolesInv, RolesTyped
<1>2. RolesTyped' /\ CacheExplained'
  BY <1>1 DEF Rollback, RolesInv, RolesTyped, CacheExplained, EffectiveKeys
<1>3. UNCHANGED <<custom, member, skew>>
  BY DEF Rollback
<1> QED
  BY <1>1, <1>2, <1>3, RequestsStay DEF RolesInv

LEMMA EffectiveTyped ==
    ASSUME RolesInv, NEW u \in Accounts
    PROVE  EffectiveKeys(u) \in KeySets
BY DEF RolesInv, RolesTyped, Membership, EffectiveKeys, KeySets

LEMMA CacheStepKeeps ==
    ASSUME RolesInv, NEW u \in Accounts, Fill(u) \/ Expire(u)
    PROVE  RolesInv'
<1>1. UNCHANGED <<custom, member, skew, tx, apiKey>>
  BY DEF Fill, Expire
<1>2. TransactionsInv' /\ NoneHoldsNothing' /\ KeysMatchRoles'
  BY <1>1, RequestsStay DEF RolesInv, RolesTyped
<1>3. RolesTyped'
  BY <1>1, EffectiveTyped DEF RolesInv, RolesTyped, Fill, Expire
<1>4. CacheExplained'
  BY <1>1 DEF RolesInv, RolesTyped, CacheExplained, EffectiveKeys, Fill, Expire
<1> QED
  BY <1>2, <1>3, <1>4 DEF RolesInv

LEMMA KeyStepKeeps ==
    ASSUME RolesInv, (\E u \in Accounts : MintKey(u)) \/ KeyMintsKey \/ RevokeKey
    PROVE  RolesInv'
<1>1. UNCHANGED <<custom, member, skew, tx, cached, unannounced>>
  BY DEF MintKey, KeyMintsKey, RevokeKey
<1>2. TransactionsInv' /\ NoneHoldsNothing' /\ KeysMatchRoles'
  BY <1>1, RequestsStay DEF RolesInv, RolesTyped
<1>3. apiKey' \in Key \cup {Nothing}
  <2>1. ASSUME NEW u \in Accounts, MintKey(u)
        PROVE  apiKey' \in Key \cup {Nothing}
    <3>1. Served(u) \in KeySets
      BY EffectiveTyped DEF Served, RolesInv, RolesTyped
    <3> QED
      BY <2>1, <3>1 DEF MintKey, Key, KeySets
  <2>2. CASE KeyMintsKey
    <3>1. apiKey \in Key
      BY <2>2 DEF KeyMintsKey, RolesInv, RolesTyped
    <3>2. PICK scopes \in SUBSET apiKey.scopes \ {{}} : apiKey' = [apiKey EXCEPT !.scopes = scopes]
      BY <2>2 DEF KeyMintsKey
    <3> QED
      BY <3>1, <3>2 DEF Key, KeySets
  <2> QED
    BY <2>1, <2>2 DEF RevokeKey
<1>4. RolesTyped' /\ CacheExplained'
  BY <1>1, <1>3 DEF RolesInv, RolesTyped, CacheExplained, EffectiveKeys
<1> QED
  BY <1>2, <1>4 DEF RolesInv

----------------------------------------------------------------------------
(* The commit of a request.                                                *)

\* The row of an account after the commit, in the three cases that differ.
LEMMA AfterRow ==
    ASSUME NEW t, NEW u
    PROVE  /\ t.user = u /\ t.op = "remove" => After(t, u) = NotAMember
           /\ t.user = u /\ t.op = "invite" =>
                 After(t, u) = [status |-> "invited", roles |-> t.roles, keys |-> t.keys[u]]
           /\ ~(t.user = u /\ t.op \in {"remove", "invite"}) =>
                 After(t, u) = [status |-> IF t.user = u /\ t.op = "status" THEN t.status ELSE member[u].status,
                                roles |-> RolesAfter(t, member[u], t.user = u), keys |-> KeysWith(t, u)]
BY DEF After, KeysWith

LEMMA KeysTyped ==
    ASSUME NEW f \in Partial
    PROVE  DOMAIN f \subseteq Accounts /\ \A u \in DOMAIN f : f[u] \in KeySets
<1>1. PICK D \in SUBSET Accounts : f \in [D -> KeySets]
  BY DEF Partial
<1> QED
  BY <1>1

LEMMA CommitTypes ==
    ASSUME RolesInv, NEW t, TxTyped(t), ~Refused(t)
    PROVE  /\ CustomAfter(t) \in KeySets \cup {Nothing}
           /\ \A u \in Accounts : After(t, u) \in Membership
           /\ CustomAfter(t) = Nothing => \A u \in Accounts : CustomRole \notin After(t, u).roles
<1>1. t \in Transaction
  BY DEF TxTyped
<1>2. t.roles \in SUBSET RoleKeys /\ t.keys \in Partial
  BY <1>1 DEF Transaction
<1>3. CustomAfter(t) \in KeySets \cup {Nothing}
  BY <1>1 DEF CustomAfter, RolesInv, RolesTyped, TxTyped, Refused, Others, KeySets
<1>4. ASSUME NEW u \in Accounts
      PROVE  /\ After(t, u) \in Membership
             /\ CustomAfter(t) = Nothing => CustomRole \notin After(t, u).roles
  <2>1. /\ member[u].status \in {"none", "invited", "active", "suspended"}
        /\ member[u].roles \in SUBSET RoleKeys /\ member[u].keys \in KeySets
    BY DEF RolesInv, RolesTyped, Membership, KeySets
  <2>2. CASE t.user = u /\ t.op = "remove"
    BY <2>2, AfterRow DEF NotAMember, Membership
  <2>3. CASE t.user = u /\ t.op = "invite"
    <3>1. After(t, u) = [status |-> "invited", roles |-> t.roles, keys |-> t.keys[u]]
      BY <2>3, AfterRow
    <3>2. t.keys[u] \in KeySets
      BY <1>2, <2>3, KeysTyped DEF TxTyped
    <3>3. CustomAfter(t) = custom /\ (custom = Nothing => CustomRole \notin t.roles)
      BY <2>3 DEF CustomAfter, Refused
    <3> QED
      BY <1>2, <3>1, <3>2, <3>3 DEF Membership, KeySets
  <2>4. CASE ~(t.user = u /\ t.op \in {"remove", "invite"})
    <3>1. After(t, u) = [status |-> IF t.user = u /\ t.op = "status" THEN t.status ELSE member[u].status,
                         roles |-> RolesAfter(t, member[u], t.user = u), keys |-> KeysWith(t, u)]
      BY <2>4, AfterRow
    <3>2. KeysWith(t, u) \in KeySets
      BY <1>2, <2>1, KeysTyped DEF KeysWith
    <3>3. RolesAfter(t, member[u], t.user = u) \in SUBSET RoleKeys
      BY <1>2, <2>1 DEF RolesAfter, Others
    <3>4. (IF t.user = u /\ t.op = "status" THEN t.status ELSE member[u].status)
              \in {"none", "invited", "active", "suspended"}
      BY <2>1 DEF TxTyped
    <3>5. CustomAfter(t) = Nothing => CustomRole \notin RolesAfter(t, member[u], t.user = u)
      <4>1. CASE t.op = "delete"
        BY <4>1 DEF RolesAfter
      <4>2. CASE t.op \in {"create", "edit"}
        <5>1. CustomAfter(t) \in KeySets
          BY <4>2 DEF CustomAfter, RolesInv, RolesTyped, TxTyped, Refused, Others, KeySets
        <5> QED
          BY <5>1, PermissionsAssumption DEF KeySets
      <4>3. CASE t.op \notin {"delete", "create", "edit"}
        <5>1. CustomAfter(t) = custom
          BY <4>3 DEF CustomAfter
        <5>2. custom = Nothing => CustomRole \notin member[u].roles
          BY DEF RolesInv, NoneHoldsNothing, Holders
        <5>3. t.op = "roles" /\ custom = Nothing => CustomRole \notin t.roles
          BY DEF Refused
        <5> QED
          BY <4>3, <5>1, <5>2, <5>3 DEF RolesAfter, Others
      <4> QED
        BY <4>1, <4>2, <4>3
    <3> QED
      BY <3>1, <3>2, <3>3, <3>4, <3>5 DEF Membership, KeySets
  <2> QED
    BY <2>2, <2>3, <2>4
<1> QED
  BY <1>3, <1>4

\* A request that ran alone leaves the column right where it was right, and where it
\* has computed it.
LEMMA CommitMatches ==
    ASSUME RolesInv, NEW t, TxTyped(t), ~Refused(t), TxNow(t),
           NEW u \in Accounts, u \notin skew \/ u \in Rewritten(t), After(t, u).status # "none"
    PROVE  After(t, u).keys = Recompute(After(t, u).roles, CustomAfter(t))
<1>1. t.op \in {"create", "edit", "delete", "roles", "invite", "status", "remove"}
  BY DEF TxTyped, Transaction
<1>2. member[u].roles \in SUBSET RoleKeys /\ custom \in KeySets \cup {Nothing} /\ t.roles \in SUBSET RoleKeys
  BY DEF RolesInv, RolesTyped, Membership, TxTyped, Transaction
<1>3. u \notin skew /\ member[u].status # "none" => member[u].keys = Recompute(member[u].roles, custom)
  BY DEF RolesInv, KeysMatchRoles
<1>4. CASE t.user = u /\ t.op = "remove"
  BY <1>4, AfterRow DEF NotAMember
<1>5. CASE t.user = u /\ t.op = "invite"
  BY <1>5, AfterRow DEF CustomAfter, TxNow
<1>6. CASE ~(t.user = u /\ t.op \in {"remove", "invite"})
  <2>1. /\ After(t, u).status = IF t.user = u /\ t.op = "status" THEN t.status ELSE member[u].status
        /\ After(t, u).roles = RolesAfter(t, member[u], t.user = u)
        /\ After(t, u).keys = KeysWith(t, u)
    BY <1>6, AfterRow
  <2>2. member[u].status # "none"
    BY <2>1 DEF Refused
  <2>3. CASE t.op = "edit"
    <3>1. CustomAfter(t) = t.custom /\ t.custom \in KeySets
      BY <2>3 DEF CustomAfter, TxNow, Others, TxTyped
    <3>2. After(t, u).roles = member[u].roles
      BY <2>1, <2>3 DEF RolesAfter
    <3>3. CASE u \in Holders
      BY <2>1, <2>3, <3>1, <3>2, <3>3 DEF TxNow
    <3>4. CASE u \notin Holders
      <4>1. u \notin DOMAIN t.keys /\ CustomRole \notin member[u].roles /\ u \notin skew
        BY <2>3, <3>4 DEF TxNow, Holders, Rewritten
      <4>2. KeysWith(t, u) = Recompute(member[u].roles, custom)
        BY <1>3, <2>2, <4>1 DEF KeysWith
      <4>3. Recompute(member[u].roles, t.custom) = Recompute(member[u].roles, custom)
        BY <1>2, <4>1, RecomputeFacts
      <4> QED
        BY <2>1, <3>1, <3>2, <4>2, <4>3
    <3> QED
      BY <3>3, <3>4
  <2>4. CASE t.op = "delete"
    <3>1. CustomAfter(t) = Nothing
      BY <2>4 DEF CustomAfter, TxTyped
    <3>2. After(t, u).roles = member[u].roles \ {CustomRole}
      BY <2>1, <2>4 DEF RolesAfter
    <3>3. Recompute(member[u].roles \ {CustomRole}, Nothing) = Recompute(member[u].roles \ {CustomRole}, custom)
      BY <1>2, RecomputeFacts
    <3>4. CASE u \in Holders
      BY <2>1, <2>4, <3>1, <3>2, <3>3, <3>4 DEF TxNow
    <3>5. CASE u \notin Holders
      <4>1. u \notin DOMAIN t.keys /\ member[u].roles \ {CustomRole} = member[u].roles /\ u \notin skew
        BY <2>4, <3>5 DEF TxNow, Holders, Rewritten
      <4>2. KeysWith(t, u) = Recompute(member[u].roles, custom)
        BY <1>3, <2>2, <4>1 DEF KeysWith
      <4> QED
        BY <2>1, <3>1, <3>2, <3>3, <4>1, <4>2
    <3> QED
      BY <3>4, <3>5
  <2>5. CASE t.op = "roles" /\ t.user = u
    <3>1. CustomAfter(t) = custom /\ After(t, u).roles = t.roles
      BY <2>1, <2>5 DEF CustomAfter, RolesAfter, TxNow, Others
    <3> QED
      BY <2>1, <2>5, <3>1 DEF TxNow
  <2>6. CASE t.op = "create"
    <3>1. custom = Nothing /\ After(t, u).roles = member[u].roles /\ CustomAfter(t) = t.custom
      BY <2>1, <2>6 DEF Refused, RolesAfter, CustomAfter
    <3>2. CustomRole \notin member[u].roles /\ u \notin skew /\ u \notin DOMAIN t.keys
      BY <2>6, <3>1 DEF RolesInv, NoneHoldsNothing, Holders, Rewritten, TxTyped
    <3>3. KeysWith(t, u) = Recompute(member[u].roles, custom)
      BY <1>3, <2>2, <3>2 DEF KeysWith
    <3>4. Recompute(member[u].roles, t.custom) = Recompute(member[u].roles, custom)
      BY <1>2, <3>2, RecomputeFacts
    <3> QED
      BY <2>1, <3>1, <3>3, <3>4
  <2>7. CASE t.op \in {"roles", "invite", "status", "remove"} /\ ~(t.op = "roles" /\ t.user = u)
    <3>1. CustomAfter(t) = custom /\ After(t, u).roles = member[u].roles
      BY <2>1, <2>7 DEF CustomAfter, RolesAfter
    <3>2. u \notin skew /\ u \notin DOMAIN t.keys
      BY <1>6, <2>7 DEF Rewritten, TxTyped
    <3>3. KeysWith(t, u) = Recompute(member[u].roles, custom)
      BY <1>3, <2>2, <3>2 DEF KeysWith
    <3> QED
      BY <2>1, <3>1, <3>3
  <2> QED
    BY <1>1, <2>3, <2>4, <2>5, <2>6, <2>7
<1> QED
  BY <1>4, <1>5, <1>6

\* ... and changes nobody's permissions in force without announcing it, a removal apart.
LEMMA CommitAnnounces ==
    ASSUME RolesInv, NEW t, TxTyped(t), ~Refused(t), TxNow(t), t.op # "remove",
           NEW u \in Accounts, u \notin t.bumps
    PROVE  (IF After(t, u).status = "active" THEN After(t, u).keys ELSE {}) = EffectiveKeys(u)
<1>1. t.op \in {"create", "edit", "delete", "roles", "invite", "status"}
  BY DEF TxTyped, Transaction
<1>2. CASE t.user = u /\ t.op = "invite"
  BY <1>2, AfterRow DEF TxNow, EffectiveKeys
<1>3. CASE ~(t.user = u /\ t.op = "invite")
  <2>1. /\ After(t, u).status = IF t.user = u /\ t.op = "status" THEN t.status ELSE member[u].status
        /\ After(t, u).keys = KeysWith(t, u)
    BY <1>3, AfterRow
  <2>2. After(t, u).status = member[u].status
    BY <2>1 DEF TxNow
  <2>3. CASE u \in Joined
    <3>1. u \notin DOMAIN t.keys
      BY <1>1, <1>3, <2>3 DEF TxNow, TxTyped
    <3> QED
      BY <2>1, <2>2, <3>1 DEF KeysWith, EffectiveKeys
  <2>4. CASE u \notin Joined
    <3>1. member[u].status # "active"
      BY <2>4 DEF Joined
    <3> QED
      BY <2>2, <3>1 DEF EffectiveKeys
  <2> QED
    BY <2>3, <2>4
<1> QED
  BY <1>2, <1>3

LEMMA LateRequest ==
    ASSUME NEW s, TxTyped(s)
    PROVE  TxTyped([s EXCEPT !.late = TRUE]) /\ [s EXCEPT !.late = TRUE].late
<1>1. s \in Transaction
  BY DEF TxTyped
<1>2. PICK n : n = [s EXCEPT !.late = TRUE]
  OBVIOUS
<1>3. /\ n \in Transaction /\ n.late = TRUE
      /\ n.op = s.op /\ n.user = s.user /\ n.custom = s.custom /\ n.keys = s.keys /\ n.status = s.status
  BY <1>1, <1>2 DEF Transaction
<1>4. TxTyped(n)
  BY <1>3 DEF TxTyped
<1> QED
  BY <1>2, <1>3, <1>4

LEMMA CommitKeeps ==
    ASSUME RolesInv, NEW r \in Requests, Commit(r)
    PROVE  RolesInv'
<1>1. PICK t : t = tx[r]
  OBVIOUS
<1>2. PICK told \in BOOLEAN :
        /\ t # NoTx /\ ~Refused(t)
        /\ custom' = CustomAfter(t)
        /\ member' = [u \in Accounts |-> After(t, u)]
        /\ tx' = [x \in Requests |-> IF x = r \/ tx[x] = NoTx THEN NoTx ELSE [tx[x] EXCEPT !.late = TRUE]]
        /\ cached' = IF told THEN Bumped(t.bumps) ELSE cached
        /\ unannounced' =
              IF t.op = "remove" \/ ~told \/ t.late
              THEN unannounced \cup {u \in Accounts : cached'[u] # Nothing}
              ELSE unannounced \ t.bumps
        /\ skew' = IF t.late THEN Accounts ELSE skew \ Rewritten(t)
        /\ UNCHANGED apiKey
  BY <1>1 DEF Commit
<1>3. TxTyped(t) /\ (~t.late => TxNow(t))
  BY <1>1, <1>2 DEF RolesInv, TransactionsInv
<1>4. /\ CustomAfter(t) \in KeySets \cup {Nothing}
      /\ \A u \in Accounts : After(t, u) \in Membership
      /\ CustomAfter(t) = Nothing => \A u \in Accounts : CustomRole \notin After(t, u).roles
  BY <1>2, <1>3, CommitTypes
<1>5. /\ cached' \in [Accounts -> KeySets \cup {Nothing}]
      /\ told => \A u \in Accounts : cached'[u] = IF u \in t.bumps THEN Nothing ELSE cached[u]
  BY <1>2, BumpedServesLess DEF RolesInv, RolesTyped
<1>6. ASSUME NEW x \in Requests, NEW s, s = tx'[x], s # NoTx
      PROVE  TxTyped(s) /\ s.late
  <2>1. x # r /\ tx[x] # NoTx /\ s = [tx[x] EXCEPT !.late = TRUE]
    BY <1>2, <1>6
  <2>2. TxTyped(tx[x])
    BY <2>1 DEF RolesInv, TransactionsInv
  <2> QED
    BY <2>1, <2>2, LateRequest
<1>7. TransactionsInv'
  BY <1>6 DEF TransactionsInv
<1>8. RolesTyped'
  <2>1. tx' \in [Requests -> Transaction \cup {NoTx}]
    <3>1. tx' = [x \in Requests |-> tx'[x]]
      BY <1>2
    <3>2. \A x \in Requests : tx'[x] \in Transaction \cup {NoTx}
      BY <1>6 DEF TxTyped
    <3> QED
      BY <3>1, <3>2
  <2> QED
    BY <1>2, <1>4, <1>5, <2>1 DEF RolesInv, RolesTyped
<1>9. NoneHoldsNothing'
  BY <1>2, <1>4 DEF NoneHoldsNothing, Holders
<1>10. KeysMatchRoles'
  <2> SUFFICES ASSUME NEW u \in Accounts, u \notin skew', member'[u].status # "none"
               PROVE  member'[u].keys = Recompute(member'[u].roles, custom')
    BY DEF KeysMatchRoles
  <2>1. member'[u] = After(t, u) /\ ~t.late /\ (u \notin skew \/ u \in Rewritten(t))
    BY <1>2
  <2> QED
    BY <1>2, <1>3, <2>1, CommitMatches
<1>11. CacheExplained'
  <2> SUFFICES ASSUME NEW u \in Accounts, u \notin unannounced', cached'[u] # Nothing
               PROVE  cached'[u] = EffectiveKeys(u)'
    BY DEF CacheExplained
  <2>1. t.op # "remove" /\ told /\ ~t.late
    BY <1>2
  <2>2. u \notin t.bumps /\ cached'[u] = cached[u] /\ u \notin unannounced
    BY <1>2, <1>5, <2>1
  <2>3. EffectiveKeys(u)' = IF After(t, u).status = "active" THEN After(t, u).keys ELSE {}
    BY <1>2 DEF EffectiveKeys
  <2>4. cached[u] = EffectiveKeys(u)
    BY <2>2 DEF RolesInv, CacheExplained
  <2> QED
    BY <1>2, <1>3, <2>1, <2>2, <2>3, <2>4, CommitAnnounces
<1> QED
  BY <1>7, <1>8, <1>9, <1>10, <1>11 DEF RolesInv

LEMMA RolesStay ==
    ASSUME RolesInv, UNCHANGED roleVars
    PROVE  RolesInv'
<1>1. RolesTyped' /\ CacheExplained' /\ UNCHANGED <<custom, member, skew, tx>>
  BY DEF RolesInv, RolesTyped, CacheExplained, EffectiveKeys, roleVars
<1> QED
  BY <1>1, RequestsStay DEF RolesInv, RolesTyped

LEMMA RolesKept ==
    ASSUME RolesInv, RolesNext
    PROVE  RolesInv'
<1>1. ASSUME NEW r \in Requests,
             \/ CreateRole(r) \/ UpdateRole(r) \/ DeleteRole(r) \/ ReplaceRoles(r) \/ Invite(r)
             \/ ChangeStatus(r) \/ RemoveMember(r) \/ Commit(r) \/ Rollback(r)
      PROVE  RolesInv'
  BY <1>1, CreateRoleKeeps, UpdateRoleKeeps, DeleteRoleKeeps, ReplaceRolesKeeps, InviteKeeps, ChangeStatusKeeps,
     RemoveMemberKeeps, CommitKeeps, RollbackKeeps
<1>2. ASSUME NEW u \in Accounts, Fill(u) \/ Expire(u) \/ MintKey(u)
      PROVE  RolesInv'
  BY <1>2, CacheStepKeeps, KeyStepKeeps
<1>3. CASE KeyMintsKey \/ RevokeKey
  BY <1>3, KeyStepKeeps
<1> QED
  BY <1>1, <1>2, <1>3 DEF RolesNext

LEMMA PermissionsFollow == RolesInv => PermissionsCurrent
<1> SUFFICES ASSUME RolesInv PROVE PermissionsCurrent
  OBVIOUS
<1>1. RolesOK
  BY DEF RolesInv, RolesTyped, NoneHoldsNothing, RolesOK, KeySets
<1>2. KeyBoundedByCreator
  <2> SUFFICES ASSUME apiKey # Nothing, apiKey.creator \notin unannounced
               PROVE  Exercised(apiKey) \subseteq EffectiveKeys(apiKey.creator)
    BY DEF KeyBoundedByCreator
  <2>1. apiKey.creator \in Accounts
    BY DEF RolesInv, RolesTyped, Key
  <2>2. Served(apiKey.creator) = EffectiveKeys(apiKey.creator)
    BY <2>1 DEF RolesInv, CacheExplained, Served
  <2> QED
    BY <2>2 DEF Exercised
<1> QED
  BY <1>1, <1>2 DEF RolesInv, PermissionsCurrent

----------------------------------------------------------------------------
(* The members and their seats.                                            *)

ChangeOps == {"invite", "accept", "active", "suspended", "remove"}
CheckedTask == [op : ChangeOps, row : Nat, email : People \cup {Nobody}]
FlushedTask == [op : ChangeOps, row : Nat, email : People \cup {Nobody}, level : Nat, late : BOOLEAN]

MembersTyped ==
    /\ org \in {"none", "active"} /\ rows \in Seq(MembershipRow) /\ users \in Nat
    /\ task \in [Slots -> CheckedTask \cup FlushedTask \cup {NoTask}]
    /\ readmitted \subseteq DOMAIN rows

\* Before the organization exists nobody works on it.
BeforeCreation == org = "none" => rows = << >> /\ \A s \in Slots : task[s] = NoTask

\* A request knows the address of the row it works on.
TaskOK(t) ==
    /\ t.op = "invite" => t.row = 0 /\ t.email \in People
    /\ t.op # "invite" => t.row \in DOMAIN rows /\ t.email = rows[t.row].invited_email
    /\ t.op = "accept" => t.email \in People

\* A flushed change holds its row, which is there, and its unique address or user; its
\* count is right until somebody else commits.
HeldOK(t) ==
    /\ t.op \notin {"invite", "remove"} => rows[t.row].status # "gone"
    /\ t.op = "invite" => \A i \in DOMAIN rows : rows[i].status # "gone" => rows[i].invited_email # t.email
    /\ t.op = "accept" => \A i \in DOMAIN rows \ {t.row} : rows[i].status # "gone" => rows[i].user # t.email
    /\ ~t.late => t.level = Seats(Applied(t, rows))

TasksInv ==
    \A s \in Slots : \A t \in {task[s]} \ {NoTask} : TaskOK(t) /\ (t \in FlushedTask => HeldOK(t))

\* Two flushed changes hold different rows or are invitations to different addresses.
Apart(t, z) == t.row = z.row => t.op = "invite" /\ z.op = "invite" /\ t.email # z.email
LocksInv ==
    \A s, x \in Slots : s # x /\ task[s] \in FlushedTask /\ task[x] \in FlushedTask => Apart(task[s], task[x])

\* The unique constraints, and an invitation has an address.
AddressesInv ==
    /\ \A i, j \in DOMAIN rows :
          /\ rows[i].status # "gone" /\ rows[j].status # "gone" /\ rows[i].invited_email # Nobody
          /\ rows[i].invited_email = rows[j].invited_email
          => i = j
    /\ \A i, j \in DOMAIN rows :
          rows[i].status # "gone" /\ rows[j].status # "gone" /\ rows[i].user # Nobody /\ rows[i].user = rows[j].user
          => i = j
    /\ \A i \in DOMAIN rows : rows[i].status = "invited" => rows[i].invited_email \in People

\* Every seat that was not given back without a check was there at the last check, or
\* is one of the invitations checked since.
Seated(R) == {i \in DOMAIN R : R[i].status \in {"active", "invited"}}
Inviting == {x \in Slots : task[x].op = "invite"}
Granted == Seated(rows) \ readmitted
SeatsInv ==
    /\ Len(rows) + Cardinality(Inviting) <= MaxRows
    /\ Cardinality(Granted) + Cardinality(Inviting) <= Greatest(SeatLimit, 1) + Cardinality(Slots) - 1

MembersInv ==
    MembersTyped /\ BeforeCreation /\ TasksInv /\ LocksInv /\ AddressesInv /\ SeatsInv /\ SeatGaugeExact

LEMMA TaskKinds ==
    /\ \A t \in CheckedTask : "level" \notin DOMAIN t /\ t # NoTask /\ t \notin FlushedTask
    /\ \A t \in FlushedTask : "level" \in DOMAIN t /\ t # NoTask
    /\ "level" \notin DOMAIN NoTask
BY DEF CheckedTask, FlushedTask, NoTask, ChangeOps

LEMMA FlushedIsTyped ==
    ASSUME MembersTyped, NEW s \in Slots
    PROVE  Flushed(s) <=> task[s] \in FlushedTask
BY TaskKinds DEF MembersTyped, Flushed

LEMMA SeatsIsNat ==
    ASSUME NEW R \in Seq(MembershipRow)
    PROVE  /\ Seats(R) \in Nat /\ IsFiniteSet(Seated(R)) /\ Seats(R) = Cardinality(Seated(R))
           /\ Seated(R) \subseteq DOMAIN R
<1>1. Len(R) \in Nat /\ DOMAIN R = 1..Len(R)
  BY LenProperties
<1>2. IsFiniteSet(1..Len(R))
  BY <1>1, FS_Interval
<1>3. Seated(R) \in SUBSET (1..Len(R))
  BY <1>1 DEF Seated
<1>4. IsFiniteSet(Seated(R))
  BY <1>2, <1>3, FS_Subset
<1>5. Cardinality(Seated(R)) \in Nat
  BY <1>4, FS_CardinalityType
<1> QED
  BY <1>1, <1>3, <1>4, <1>5 DEF Seats, Seated

LEMMA InvitingFinite == IsFiniteSet(Inviting) /\ Cardinality(Inviting) \in Nat
                        /\ Cardinality(Inviting) <= Cardinality(Slots) /\ Cardinality(Slots) \in Nat
<1>1. Inviting \in SUBSET Slots
  BY DEF Inviting
<1>2. IsFiniteSet(Slots)
  BY MembersAssumption
<1>3. IsFiniteSet(Inviting) /\ Cardinality(Inviting) <= Cardinality(Slots)
  BY <1>1, <1>2, FS_Subset
<1> QED
  BY <1>2, <1>3, FS_CardinalityType

\* What a change makes of the table: a row more, or another state of its row.
LEMMA AppliedRows ==
    ASSUME NEW R \in Seq(MembershipRow), NEW t, t.op \in ChangeOps, t.email \in People \cup {Nobody},
           t.op # "invite" => t.row \in DOMAIN R
    PROVE  /\ Applied(t, R) \in Seq(MembershipRow)
           /\ t.op = "invite" =>
                 /\ Len(Applied(t, R)) = Len(R) + 1
                 /\ DOMAIN Applied(t, R) = DOMAIN R \cup {Len(R) + 1}
                 /\ \A i \in DOMAIN R : Applied(t, R)[i] = R[i]
                 /\ Applied(t, R)[Len(R) + 1] = [user |-> Nobody, invited_email |-> t.email, status |-> "invited"]
           /\ t.op # "invite" =>
                 /\ Len(Applied(t, R)) = Len(R)
                 /\ DOMAIN Applied(t, R) = DOMAIN R
                 /\ \A i \in DOMAIN R \ {t.row} : Applied(t, R)[i] = R[i]
                 /\ Applied(t, R)[t.row].invited_email = R[t.row].invited_email
                 /\ Applied(t, R)[t.row].user = IF t.op = "accept" THEN t.email ELSE R[t.row].user
                 /\ Applied(t, R)[t.row].status =
                       IF t.op = "accept" THEN "active" ELSE IF t.op = "remove" THEN "gone" ELSE t.op
<1>0. Len(R) \in Nat /\ DOMAIN R = 1..Len(R)
  BY LenProperties
<1>1. CASE t.op = "invite"
  <2> DEFINE new == [user |-> Nobody, invited_email |-> t.email, status |-> "invited"]
  <2>1. new \in MembershipRow
    BY DEF MembershipRow, Status
  <2>2. Applied(t, R) = Append(R, new)
    BY <1>1 DEF Applied
  <2>3. /\ Append(R, new) \in Seq(MembershipRow) /\ Len(Append(R, new)) = Len(R) + 1
        /\ \A i \in 1..Len(R) : Append(R, new)[i] = R[i]
        /\ Append(R, new)[Len(R) + 1] = new
    BY <2>1, AppendProperties
  <2>4. DOMAIN Append(R, new) = 1..(Len(R) + 1)
    BY <2>3, LenProperties
  <2> QED
    BY <1>0, <1>1, <2>2, <2>3, <2>4
<1>2. ASSUME t.op # "invite"
      PROVE  /\ Applied(t, R) \in Seq(MembershipRow)
             /\ Len(Applied(t, R)) = Len(R)
             /\ DOMAIN Applied(t, R) = DOMAIN R
             /\ \A i \in DOMAIN R \ {t.row} : Applied(t, R)[i] = R[i]
             /\ Applied(t, R)[t.row].invited_email = R[t.row].invited_email
             /\ Applied(t, R)[t.row].user = IF t.op = "accept" THEN t.email ELSE R[t.row].user
             /\ Applied(t, R)[t.row].status =
                   IF t.op = "accept" THEN "active" ELSE IF t.op = "remove" THEN "gone" ELSE t.op
  <2>1. PICK m : m = R[t.row]
    OBVIOUS
  <2>2. m \in MembershipRow /\ t.row \in 1..Len(R)
    BY <1>0, <1>2, <2>1, ElementOfSeq
  <2>3. PICK n : n = [user |-> IF t.op = "accept" THEN t.email ELSE m.user, invited_email |-> m.invited_email,
                      status |-> IF t.op = "accept" THEN "active" ELSE IF t.op = "remove" THEN "gone" ELSE t.op]
    OBVIOUS
  <2>4. n \in MembershipRow
    BY <1>2, <2>2, <2>3 DEF MembershipRow, Status, ChangeOps
  <2>5. Applied(t, R) = [R EXCEPT ![t.row] = n]
    <3>1. CASE t.op = "accept"
      <4>1. Applied(t, R) = [R EXCEPT ![t.row].user = t.email, ![t.row].status = "active"]
        BY <3>1 DEF Applied
      <4>2. n = [m EXCEPT !.user = t.email, !.status = "active"]
        <5>1. n = [user |-> t.email, invited_email |-> m.invited_email, status |-> "active"]
          BY <2>3, <3>1
        <5>2. PICK k : k = [m EXCEPT !.user = t.email, !.status = "active"]
          OBVIOUS
        <5>3. k \in MembershipRow /\ k.user = t.email /\ k.invited_email = m.invited_email /\ k.status = "active"
          BY <2>2, <5>2 DEF MembershipRow, Status
        <5>4. k = [user |-> k.user, invited_email |-> k.invited_email, status |-> k.status]
          BY <5>3 DEF MembershipRow
        <5> QED
          BY <5>1, <5>2, <5>3, <5>4
      <4> QED
        BY <2>1, <2>2, <4>1, <4>2
    <3>2. CASE t.op = "remove"
      <4>1. Applied(t, R) = [R EXCEPT ![t.row].status = "gone"]
        BY <3>2 DEF Applied
      <4>2. n = [m EXCEPT !.status = "gone"]
        BY <2>2, <2>3, <3>2 DEF MembershipRow
      <4> QED
        BY <2>1, <2>2, <4>1, <4>2
    <3>3. CASE t.op \notin {"accept", "remove"}
      <4>1. Applied(t, R) = [R EXCEPT ![t.row].status = t.op]
        BY <1>2, <3>3 DEF Applied
      <4>2. n = [m EXCEPT !.status = t.op]
        BY <2>2, <2>3, <3>3 DEF MembershipRow
      <4> QED
        BY <2>1, <2>2, <4>1, <4>2
    <3> QED
      BY <3>1, <3>2, <3>3
  <2>6. [R EXCEPT ![t.row] = n] \in Seq(MembershipRow) /\ Len([R EXCEPT ![t.row] = n]) = Len(R)
    BY <2>2, <2>4, ExceptSeq
  <2> QED
    BY <1>0, <2>1, <2>2, <2>3, <2>5, <2>6
<1> QED
  BY <1>1, <1>2

LEMMA MembersInitial == MembersInit => MembersInv
<1> SUFFICES ASSUME MembersInit PROVE MembersInv
  OBVIOUS
<1>1. << >> \in Seq(MembershipRow) /\ Len(<< >>) = 0 /\ DOMAIN << >> = {}
  BY EmptySeq
<1>2. MembersTyped /\ BeforeCreation /\ TasksInv /\ AddressesInv
  BY <1>1 DEF MembersInit, MembersTyped, BeforeCreation, TasksInv, AddressesInv
<1>3. LocksInv
  BY TaskKinds DEF MembersInit, LocksInv
<1>4. Inviting = {} /\ Granted = {} /\ Seated(rows) = {}
  BY <1>1 DEF MembersInit, Inviting, NoTask, Granted, Seated
<1>5. SeatsInv /\ SeatGaugeExact
  <2>1. Cardinality({}) = 0 /\ Seats(rows) = Cardinality(Seated(rows))
    BY <1>1, FS_EmptySet, SeatsIsNat DEF MembersInit
  <2>2. Cardinality(Slots) \in Nat /\ Cardinality(Slots) # 0
    BY MembersAssumption, FS_EmptySet, FS_CardinalityType
  <2>3. Len(rows) = 0 /\ Cardinality(Inviting) = 0 /\ Cardinality(Granted) = 0 /\ Seats(rows) = 0 /\ users = 0
    BY <1>1, <1>4, <2>1 DEF MembersInit
  <2>4. SeatLimit \in Nat /\ MaxRows \in Nat
    BY MembersAssumption
  <2> QED
    BY <2>2, <2>3, <2>4 DEF SeatsInv, SeatGaugeExact, Greatest
<1> QED
  BY <1>2, <1>3, <1>5 DEF MembersInv

LEMMA SameTable ==
    ASSUME NEW t, rows' = rows
    PROVE  (TaskOK(t) => TaskOK(t)') /\ (HeldOK(t) => HeldOK(t)')
BY DEF TaskOK, HeldOK

\* One request moves on; the table and the gauge stay as they are.
LEMMA OneTaskMoves ==
    ASSUME MembersInv, NEW s \in Slots, NEW t \in CheckedTask \cup FlushedTask \cup {NoTask},
           task' = [task EXCEPT ![s] = t], UNCHANGED <<org, rows, users, drift, readmitted>>,
           org = "none" => t = NoTask,
           t # NoTask => TaskOK(t), t \in FlushedTask => HeldOK(t),
           \A x \in Slots \ {s} : t \in FlushedTask /\ task[x] \in FlushedTask => Apart(t, task[x]) /\ Apart(task[x], t),
           SeatsInv'
    PROVE  MembersInv'
<1>1. MembersTyped' /\ BeforeCreation' /\ AddressesInv'
  BY DEF MembersInv, MembersTyped, BeforeCreation, AddressesInv
<1>2. /\ task'[s] = t /\ \A x \in Slots \ {s} : task'[x] = task[x]
  BY DEF MembersInv, MembersTyped
<1>3. TasksInv'
  <2> SUFFICES ASSUME NEW x \in Slots, NEW z, z = task'[x], z # NoTask
               PROVE  TaskOK(z)' /\ (z \in FlushedTask => HeldOK(z)')
    BY DEF TasksInv
  <2>1. TaskOK(z) /\ (z \in FlushedTask => HeldOK(z))
    BY <1>2 DEF MembersInv, TasksInv
  <2> QED
    BY <2>1, SameTable
<1>4. LocksInv'
  BY <1>2 DEF MembersInv, LocksInv
<1>5. SeatGaugeExact'
  BY DEF MembersInv, SeatGaugeExact
<1> QED
  BY <1>1, <1>3, <1>4, <1>5 DEF MembersInv

\* A request that does not start an invitation, or ends, leaves the seats within bounds.
LEMMA SeatsHold ==
    ASSUME MembersInv, UNCHANGED <<rows, readmitted>>, Inviting' \subseteq Inviting
    PROVE  SeatsInv'
<1>1. IsFiniteSet(Inviting) /\ Cardinality(Inviting) \in Nat
  BY InvitingFinite
<1>2. Cardinality(Inviting') <= Cardinality(Inviting) /\ IsFiniteSet(Inviting')
  BY <1>1, FS_Subset
<1>3. Cardinality(Inviting') \in Nat
  BY <1>2, FS_CardinalityType
<1>4. Granted' = Granted /\ IsFiniteSet(Granted) /\ Len(rows) \in Nat
  BY SeatsIsNat, FS_Subset, LenProperties DEF Granted, MembersInv, MembersTyped
<1>5. Cardinality(Granted) \in Nat /\ Cardinality(Slots) \in Nat
  BY <1>4, FS_CardinalityType, InvitingFinite
<1> QED
  BY <1>1, <1>2, <1>3, <1>4, <1>5, MembersAssumption DEF MembersInv, SeatsInv, Greatest

LEMMA BeginOtherKeeps ==
    ASSUME MembersInv, NEW s \in Slots, NEW t \in CheckedTask, BeginChange(s, t), TaskOK(t), t.op # "invite"
    PROVE  MembersInv'
<1>1. task' = [task EXCEPT ![s] = t] /\ UNCHANGED <<org, rows, users, drift, readmitted>>
  BY DEF BeginChange
<1>2. org # "none"
  <2>1. t.row \in DOMAIN rows
    BY DEF TaskOK
  <2>2. DOMAIN << >> = {}
    BY EmptySeq
  <2> QED
    BY <2>1, <2>2 DEF MembersInv, BeforeCreation
<1>3. t \notin FlushedTask
  BY TaskKinds
<1>4. Inviting' \subseteq Inviting
  BY <1>1 DEF Inviting, MembersInv, MembersTyped
<1>5. SeatsInv'
  BY <1>1, <1>4, SeatsHold
<1> QED
  BY <1>1, <1>2, <1>3, <1>5, OneTaskMoves

LEMMA InviteCheckKeeps ==
    ASSUME MembersInv, NEW s \in Slots, InviteCheck(s)
    PROVE  MembersInv'
<1>1. PICK e \in People :
        /\ Admitted
        /\ Len(rows) + Cardinality(Inviting) < MaxRows
        /\ HasCapacity(Seats(rows), 1, SeatLimit)
        /\ BeginChange(s, [op |-> "invite", row |-> 0, email |-> e])
  BY DEF InviteCheck, Inviting
<1>2. PICK t : t = [op |-> "invite", row |-> 0, email |-> e]
  OBVIOUS
<1>3. t \in CheckedTask /\ TaskOK(t) /\ t.op = "invite"
  BY <1>2 DEF CheckedTask, ChangeOps, TaskOK
<1>4. task' = [task EXCEPT ![s] = t] /\ UNCHANGED <<org, rows, users, drift, readmitted>> /\ task[s] = NoTask
  BY <1>1, <1>2 DEF BeginChange
<1>5. s \notin Inviting /\ Inviting' = Inviting \cup {s}
  BY <1>3, <1>4 DEF Inviting, NoTask, MembersInv, MembersTyped
<1>6. Cardinality(Inviting') = Cardinality(Inviting) + 1
  BY <1>5, InvitingFinite, FS_AddElement
<1>7. Cardinality(Inviting') <= Cardinality(Slots)
  <2>1. Inviting' \in SUBSET Slots
    BY <1>5 DEF Inviting
  <2> QED
    BY <2>1, MembersAssumption, FS_Subset
<1>8. Cardinality(Granted) \in Nat /\ Cardinality(Granted) <= Seats(rows) /\ Granted' = Granted
  <2>1. Seats(rows) = Cardinality(Seated(rows)) /\ IsFiniteSet(Seated(rows))
    BY SeatsIsNat DEF MembersInv, MembersTyped
  <2>2. Granted \in SUBSET Seated(rows)
    BY DEF Granted
  <2>3. IsFiniteSet(Granted) /\ Cardinality(Granted) <= Cardinality(Seated(rows))
    BY <2>1, <2>2, FS_Subset
  <2> QED
    BY <1>4, <2>1, <2>3, FS_CardinalityType DEF Granted
<1>9. Seats(rows) + 1 <= SeatLimit /\ Seats(rows) \in Nat
  BY <1>1, MembersAssumption, SeatsIsNat DEF HasCapacity, NoLimit, MembersInv, MembersTyped
<1>10. SeatsInv'
  <2>1. Len(rows) \in Nat /\ Len(rows') = Len(rows)
    BY <1>4, LenProperties DEF MembersInv, MembersTyped
  <2> QED
    BY <1>1, <1>6, <1>7, <1>8, <1>9, <2>1, InvitingFinite, MembersAssumption DEF SeatsInv, Greatest
<1>11. t \notin FlushedTask /\ org # "none"
  BY <1>1, <1>3, TaskKinds DEF Admitted
<1> QED
  BY <1>3, <1>4, <1>10, <1>11, OneTaskMoves

LEMMA AcceptCheckKeeps ==
    ASSUME MembersInv, NEW s \in Slots, AcceptCheck(s)
    PROVE  MembersInv'
<1>1. PICK i \in DOMAIN rows :
        /\ rows[i].status = "invited"
        /\ BeginChange(s, [op |-> "accept", row |-> i, email |-> rows[i].invited_email])
  BY DEF AcceptCheck
<1>2. PICK t : t = [op |-> "accept", row |-> i, email |-> rows[i].invited_email]
  OBVIOUS
<1>3. rows[i].invited_email \in People /\ i \in Nat
  BY <1>1, LenProperties DEF MembersInv, MembersTyped, AddressesInv
<1>4. t \in CheckedTask /\ TaskOK(t) /\ t.op # "invite"
  BY <1>2, <1>3 DEF CheckedTask, ChangeOps, TaskOK
<1> QED
  BY <1>1, <1>2, <1>4, BeginOtherKeeps

LEMMA OtherCheckKeeps ==
    ASSUME MembersInv, NEW s \in Slots, UpdateCheck(s) \/ RemoveCheck(s)
    PROVE  MembersInv'
<1>1. PICK i \in DOMAIN rows, op \in {"active", "suspended", "remove"} :
        BeginChange(s, [op |-> op, row |-> i, email |-> rows[i].invited_email])
  BY DEF UpdateCheck, RemoveCheck
<1>2. PICK t : t = [op |-> op, row |-> i, email |-> rows[i].invited_email]
  OBVIOUS
<1>3. i \in 1..Len(rows) /\ Len(rows) \in Nat
  BY LenProperties DEF MembersInv, MembersTyped
<1>4. rows[i] \in MembershipRow
  BY <1>3, ElementOfSeq DEF MembersInv, MembersTyped
<1>5. rows[i].invited_email \in People \cup {Nobody} /\ i \in Nat
  BY <1>3, <1>4 DEF MembershipRow
<1>6. t \in CheckedTask /\ TaskOK(t) /\ t.op # "invite"
  BY <1>2, <1>5 DEF CheckedTask, ChangeOps, TaskOK
<1> QED
  BY <1>1, <1>2, <1>6, BeginOtherKeeps

LEMMA AbortChangeKeeps ==
    ASSUME MembersInv, NEW s \in Slots, AbortChange(s)
    PROVE  MembersInv'
<1>1. task' = [task EXCEPT ![s] = NoTask] /\ UNCHANGED <<org, rows, users, drift, readmitted>>
  BY DEF AbortChange
<1>2. NoTask \notin FlushedTask
  BY TaskKinds
<1>3. Inviting' \subseteq Inviting
  BY <1>1 DEF Inviting, NoTask, MembersInv, MembersTyped
<1>4. SeatsInv'
  BY <1>1, <1>3, SeatsHold
<1> QED
  BY <1>1, <1>2, <1>4, OneTaskMoves

LEMMA CreateOrganizationKeeps ==
    ASSUME MembersInv, CreateOrganization
    PROVE  MembersInv'
<1>1. PICK m : m = [user |-> Owner, invited_email |-> Nobody, status |-> "active"]
  OBVIOUS
<1>2. m \in MembershipRow /\ m.invited_email = Nobody /\ m.status = "active"
  BY <1>1, MembersAssumption DEF MembershipRow, Status
<1>3. rows' = <<m>> /\ org' = "active" /\ users' = 1 /\ UNCHANGED <<task, drift, readmitted>>
  BY <1>1 DEF CreateOrganization, SetGauge, Greatest
<1>4. <<m>> \in Seq(MembershipRow) /\ Len(<<m>>) = 1 /\ DOMAIN <<m>> = {1} /\ <<m>>[1] = m
  BY <1>2
<1>5. readmitted = {} /\ \A s \in Slots : task[s] = NoTask
  <2>1. org = "none"
    BY DEF CreateOrganization
  <2>2. DOMAIN << >> = {}
    BY EmptySeq
  <2> QED
    BY <2>1, <2>2 DEF MembersInv, MembersTyped, BeforeCreation
<1>6. MembersTyped' /\ BeforeCreation'
  BY <1>3, <1>4, <1>5 DEF MembersInv, MembersTyped, BeforeCreation
<1>7. TasksInv'
  BY <1>3, <1>5 DEF TasksInv
<1>8. LocksInv'
  BY <1>3, <1>5, TaskKinds DEF LocksInv
<1>9. AddressesInv'
  BY <1>2, <1>3, <1>4 DEF AddressesInv
<1>10. Inviting' = {} /\ Granted' = {1} /\ Seated(rows') = {1}
  BY <1>2, <1>3, <1>4, <1>5 DEF Inviting, NoTask, Granted, Seated
<1>11. Cardinality(Inviting') = 0 /\ Cardinality(Granted') = 1 /\ Seats(rows') = 1 /\ Len(rows') = 1
  BY <1>3, <1>4, <1>10, FS_EmptySet, FS_Singleton, SeatsIsNat
<1>12. Cardinality(Slots) \in Nat /\ Cardinality(Slots) # 0 /\ SeatLimit \in Nat /\ MaxRows \in Nat \ {0}
  BY MembersAssumption, FS_EmptySet, FS_CardinalityType
<1>13. SeatsInv'
  BY <1>11, <1>12 DEF SeatsInv, Greatest
<1>14. SeatGaugeExact'
  BY <1>3, <1>11 DEF SeatGaugeExact
<1> QED
  BY <1>6, <1>7, <1>8, <1>9, <1>13, <1>14 DEF MembersInv

\* The flush takes the locks: nobody else holds the row or the address.
LEMMA FlushKeeps ==
    ASSUME MembersInv, NEW s \in Slots, Flush(s)
    PROVE  MembersInv'
<1>1. PICK t : t = task[s]
  OBVIOUS
<1>2. /\ t # NoTask /\ ~Flushed(s) /\ ~Blocked(s)
      /\ UNCHANGED <<org, rows, users, drift, readmitted>>
  BY <1>1 DEF Flush
<1>3. t \in CheckedTask
  BY <1>1, <1>2, FlushedIsTyped DEF MembersInv, MembersTyped
<1>4. TaskOK(t) /\ org # "none"
  BY <1>1, <1>2 DEF MembersInv, TasksInv, BeforeCreation
<1>5. PICK n : n = IF Collides(t) \/ Vanished(t) THEN NoTask
                   ELSE [op |-> t.op, row |-> t.row, email |-> t.email, level |-> Seats(Applied(t, rows)), late |-> FALSE]
  OBVIOUS
<1>6. task' = [task EXCEPT ![s] = n]
  BY <1>1, <1>5 DEF Flush
<1>7. n = NoTask \/ n.op = t.op
  BY <1>5
<1>8. SeatsInv'
  <2>1. Inviting' \subseteq Inviting
    BY <1>1, <1>6, <1>7 DEF Inviting, NoTask, MembersInv, MembersTyped
  <2> QED
    BY <1>2, <2>1, SeatsHold
<1>9. CASE Collides(t) \/ Vanished(t)
  <2>1. n = NoTask /\ NoTask \notin FlushedTask
    BY <1>5, <1>9, TaskKinds
  <2> QED
    BY <1>2, <1>6, <1>8, <2>1, OneTaskMoves
<1>10. CASE ~Collides(t) /\ ~Vanished(t)
  <2>1. n = [op |-> t.op, row |-> t.row, email |-> t.email, level |-> Seats(Applied(t, rows)), late |-> FALSE]
    BY <1>5, <1>10
  <2>2. Seats(Applied(t, rows)) \in Nat
    <3>1. rows \in Seq(MembershipRow) /\ t.op \in ChangeOps /\ t.email \in People \cup {Nobody}
      BY <1>3 DEF MembersInv, MembersTyped, CheckedTask
    <3>2. t.op # "invite" => t.row \in DOMAIN rows
      BY <1>4 DEF TaskOK
    <3>3. Applied(t, rows) \in Seq(MembershipRow)
      BY <3>1, <3>2, AppliedRows
    <3> QED
      BY <3>3, SeatsIsNat
  <2>3. /\ n \in FlushedTask /\ n # NoTask
        /\ n.op = t.op /\ n.row = t.row /\ n.email = t.email /\ n.level = Seats(Applied(t, rows)) /\ n.late = FALSE
    BY <1>3, <2>1, <2>2, TaskKinds DEF FlushedTask, CheckedTask
  <2>4. TaskOK(n)
    BY <1>4, <2>3 DEF TaskOK
  <2>5. HeldOK(n)
    <3>1. n.op \notin {"invite", "remove"} => rows[n.row].status # "gone"
      BY <1>4, <1>10, <2>3 DEF Vanished, Present, TaskOK
    <3>2. n.op = "invite" => \A i \in DOMAIN rows : rows[i].status # "gone" => rows[i].invited_email # n.email
      BY <1>10, <2>3 DEF Collides, Present
    <3>3. n.op = "accept" => \A i \in DOMAIN rows \ {n.row} : rows[i].status # "gone" => rows[i].user # n.email
      BY <1>10, <2>3 DEF Collides, Present
    <3>4. Applied(n, rows) = Applied(t, rows)
      BY <2>3 DEF Applied
    <3> QED
      BY <2>3, <3>1, <3>2, <3>3, <3>4 DEF HeldOK
  <2>6. ASSUME NEW x \in Slots \ {s}, task[x] \in FlushedTask
        PROVE  Apart(n, task[x]) /\ Apart(task[x], n)
    <3>1. Flushed(x)
      BY <2>6, FlushedIsTyped DEF MembersInv
    <3>2. task[x].row = t.row => t.op = "invite" /\ task[x].email # t.email
      BY <1>1, <1>2, <3>1 DEF Blocked
    <3>3. PICK z : z = task[x]
      OBVIOUS
    <3>4. TaskOK(z) /\ z.op \in ChangeOps
      BY <2>6, <3>3, TaskKinds DEF MembersInv, TasksInv, FlushedTask
    <3>5. z.row = 0 => z.op = "invite"
      BY <3>4, LenProperties DEF TaskOK, MembersInv, MembersTyped
    <3>6. t.op = "invite" => t.row = 0
      BY <1>4 DEF TaskOK
    <3> QED
      BY <2>3, <3>2, <3>3, <3>5, <3>6 DEF Apart
  <2> QED
    BY <1>2, <1>4, <1>6, <1>8, <2>3, <2>4, <2>5, <2>6, OneTaskMoves
<1> QED
  BY <1>9, <1>10

\* What a commit may do to a row: a deleted row stays deleted, an address stays, only
\* an acceptance names a user, and only an invitation adds a row.
LEMMA CommittedRows ==
    ASSUME MembersInv, NEW t \in FlushedTask, TaskOK(t), HeldOK(t)
    PROVE  /\ Applied(t, rows) \in Seq(MembershipRow)
           /\ DOMAIN rows \subseteq DOMAIN Applied(t, rows)
           /\ \A i \in DOMAIN rows :
                 /\ Applied(t, rows)[i].invited_email = rows[i].invited_email
                 /\ rows[i].status = "gone" => Applied(t, rows)[i].status = "gone"
                 /\ i # t.row \/ t.op = "invite" => Applied(t, rows)[i] = rows[i]
                 /\ t.op # "accept" => Applied(t, rows)[i].user = rows[i].user
                 /\ t.op = "accept" /\ i = t.row => Applied(t, rows)[i].user = t.email
                 /\ Applied(t, rows)[i].status = "invited" => rows[i].status = "invited"
           /\ \A i \in DOMAIN Applied(t, rows) \ DOMAIN rows :
                 /\ t.op = "invite" /\ i = Len(rows) + 1
                 /\ Applied(t, rows)[i].user = Nobody /\ Applied(t, rows)[i].invited_email = t.email
                 /\ Applied(t, rows)[i].status = "invited"
<1>1. rows \in Seq(MembershipRow) /\ t.op \in ChangeOps /\ t.email \in People \cup {Nobody}
  BY DEF MembersInv, MembersTyped, FlushedTask
<1>2. t.op # "invite" => t.row \in DOMAIN rows
  BY DEF TaskOK
<1>3. Applied(t, rows) \in Seq(MembershipRow)
  BY <1>1, <1>2, AppliedRows
<1>4. CASE t.op = "invite"
  <2>1. /\ DOMAIN Applied(t, rows) = DOMAIN rows \cup {Len(rows) + 1}
        /\ \A i \in DOMAIN rows : Applied(t, rows)[i] = rows[i]
        /\ Applied(t, rows)[Len(rows) + 1] = [user |-> Nobody, invited_email |-> t.email, status |-> "invited"]
    BY <1>1, <1>4, AppliedRows
  <2> QED
    BY <1>3, <1>4, <2>1
<1>5. CASE t.op # "invite"
  <2>1. /\ DOMAIN Applied(t, rows) = DOMAIN rows
        /\ \A i \in DOMAIN rows \ {t.row} : Applied(t, rows)[i] = rows[i]
        /\ Applied(t, rows)[t.row].invited_email = rows[t.row].invited_email
        /\ Applied(t, rows)[t.row].user = IF t.op = "accept" THEN t.email ELSE rows[t.row].user
        /\ Applied(t, rows)[t.row].status =
              IF t.op = "accept" THEN "active" ELSE IF t.op = "remove" THEN "gone" ELSE t.op
    BY <1>1, <1>2, <1>5, AppliedRows
  <2>2. t.op # "remove" => rows[t.row].status # "gone"
    BY <1>5 DEF HeldOK
  <2> QED
    BY <1>1, <1>3, <1>5, <2>1, <2>2 DEF ChangeOps
<1> QED
  BY <1>4, <1>5

LEMMA OvertakenTask ==
    ASSUME NEW z \in FlushedTask
    PROVE  /\ [z EXCEPT !.late = TRUE] \in FlushedTask /\ [z EXCEPT !.late = TRUE].late = TRUE
           /\ [z EXCEPT !.late = TRUE].op = z.op /\ [z EXCEPT !.late = TRUE].row = z.row
           /\ [z EXCEPT !.late = TRUE].email = z.email
BY DEF FlushedTask

\* The other requests after s has committed.
LEMMA OthersAfter ==
    ASSUME MembersInv, NEW s \in Slots, MemberCommit(s), NEW x \in Slots, task'[x] # NoTask
    PROVE  /\ x # s /\ task[x] # NoTask
           /\ task'[x].op = task[x].op /\ task'[x].row = task[x].row /\ task'[x].email = task[x].email
           /\ task[x] \in FlushedTask => task'[x] \in FlushedTask /\ task'[x].late = TRUE
           /\ task[x] \notin FlushedTask => task'[x] = task[x]
<1>1. task' = [y \in Slots |-> IF y = s THEN NoTask
                 ELSE IF Flushed(y) THEN [task[y] EXCEPT !.late = TRUE] ELSE task[y]]
  BY DEF MemberCommit, OthersLate
<1>2. PICK z : z = task[x]
  OBVIOUS
<1>3. x # s
  BY <1>1
<1>4. Flushed(x) <=> z \in FlushedTask
  BY <1>2, FlushedIsTyped DEF MembersInv
<1>5. CASE z \in FlushedTask
  <2>1. task'[x] = [z EXCEPT !.late = TRUE]
    BY <1>1, <1>2, <1>3, <1>4, <1>5
  <2>2. z # NoTask
    BY <1>5, TaskKinds
  <2> QED
    BY <1>2, <1>3, <1>5, <2>1, <2>2, OvertakenTask
<1>6. CASE z \notin FlushedTask
  BY <1>1, <1>2, <1>3, <1>4, <1>6
<1> QED
  BY <1>5, <1>6

LEMMA MemberCommitKeeps ==
    ASSUME MembersInv, NEW s \in Slots, MemberCommit(s)
    PROVE  MembersInv'
<1>1. PICK t : t = task[s]
  OBVIOUS
<1>2. t \in FlushedTask /\ TaskOK(t) /\ HeldOK(t) /\ org # "none"
  <2>1. t \in FlushedTask
    BY <1>1, FlushedIsTyped DEF MemberCommit, MembersInv
  <2> QED
    BY <1>1, <2>1, TaskKinds DEF MembersInv, TasksInv, BeforeCreation
<1>3. PICK R : R = rows
  OBVIOUS
<1>4. PICK N : N = Applied(t, R)
  OBVIOUS
<1>5. /\ rows' = N /\ users' = SetGauge(t.level) /\ drift' = t.late /\ org' = org
      /\ readmitted' = IF t.op \in {"active", "accept"} /\ R[t.row].status = "suspended"
                       THEN readmitted \cup {t.row} ELSE readmitted
  BY <1>1, <1>3, <1>4 DEF MemberCommit, Synced
<1>6. /\ N \in Seq(MembershipRow) /\ R \in Seq(MembershipRow) /\ DOMAIN R \subseteq DOMAIN N
      /\ \A i \in DOMAIN R :
            /\ N[i].invited_email = R[i].invited_email
            /\ R[i].status = "gone" => N[i].status = "gone"
            /\ i # t.row \/ t.op = "invite" => N[i] = R[i]
            /\ t.op # "accept" => N[i].user = R[i].user
            /\ t.op = "accept" /\ i = t.row => N[i].user = t.email
            /\ N[i].status = "invited" => R[i].status = "invited"
      /\ \A i \in DOMAIN N \ DOMAIN R :
            /\ t.op = "invite" /\ i = Len(R) + 1
            /\ N[i].user = Nobody /\ N[i].invited_email = t.email /\ N[i].status = "invited"
  BY <1>2, <1>3, <1>4, CommittedRows DEF MembersInv, MembersTyped
<1>7. /\ t.op = "invite" => t.row = 0 /\ t.email \in People
      /\ t.op # "invite" => t.row \in DOMAIN R /\ t.email = R[t.row].invited_email
      /\ t.op = "accept" => t.email \in People
      /\ t.op \notin {"invite", "remove"} => R[t.row].status # "gone"
      /\ t.op = "invite" => \A i \in DOMAIN R : R[i].status # "gone" => R[i].invited_email # t.email
      /\ t.op = "accept" => \A i \in DOMAIN R \ {t.row} : R[i].status # "gone" => R[i].user # t.email
      /\ t.op \in ChangeOps /\ t.level \in Nat /\ t.late \in BOOLEAN
      /\ ~t.late => t.level = Seats(N)
  BY <1>2, <1>3, <1>4 DEF TaskOK, HeldOK, FlushedTask
<1>8. /\ \A i, j \in DOMAIN R :
            /\ R[i].status # "gone" /\ R[j].status # "gone" /\ R[i].invited_email # Nobody
            /\ R[i].invited_email = R[j].invited_email
            => i = j
      /\ \A i, j \in DOMAIN R :
            R[i].status # "gone" /\ R[j].status # "gone" /\ R[i].user # Nobody /\ R[i].user = R[j].user => i = j
      /\ \A i \in DOMAIN R : R[i].status = "invited" => R[i].invited_email \in People
  BY <1>3 DEF MembersInv, AddressesInv
<1>9. MembersTyped'
  <2>1. task' \in [Slots -> CheckedTask \cup FlushedTask \cup {NoTask}]
    <3>1. task' = [x \in Slots |-> task'[x]]
      BY DEF MemberCommit, OthersLate
    <3>2. ASSUME NEW x \in Slots
          PROVE  task'[x] \in CheckedTask \cup FlushedTask \cup {NoTask}
      <4>1. CASE task'[x] # NoTask
        BY <4>1, OthersAfter DEF MembersInv, MembersTyped
      <4> QED
        BY <4>1
    <3> QED
      BY <3>1, <3>2
  <2>2. users' \in Nat
    BY <1>5, <1>7 DEF SetGauge, Greatest
  <2>3. readmitted' \subseteq DOMAIN N
    BY <1>3, <1>5, <1>6, <1>7 DEF MembersInv, MembersTyped
  <2> QED
    BY <1>5, <1>6, <2>1, <2>2, <2>3 DEF MembersInv, MembersTyped
<1>10. BeforeCreation'
  BY <1>2, <1>5 DEF BeforeCreation
<1>11. AddressesInv'
  <2>1. \A i, j \in DOMAIN N :
            /\ N[i].status # "gone" /\ N[j].status # "gone" /\ N[i].invited_email # Nobody
            /\ N[i].invited_email = N[j].invited_email
            => i = j
    BY <1>6, <1>7, <1>8
  <2>2. \A i, j \in DOMAIN N :
            N[i].status # "gone" /\ N[j].status # "gone" /\ N[i].user # Nobody /\ N[i].user = N[j].user => i = j
    BY <1>6, <1>7, <1>8
  <2>3. \A i \in DOMAIN N : N[i].status = "invited" => N[i].invited_email \in People
    BY <1>6, <1>7, <1>8
  <2> QED
    BY <1>5, <2>1, <2>2, <2>3 DEF AddressesInv
<1>12. ASSUME NEW x \in Slots, NEW z, z = task[x], z # NoTask, x # s
       PROVE  /\ z.op = "invite" => z.row = 0 /\ z.email \in People
              /\ z.op # "invite" => z.row \in DOMAIN N /\ z.email = N[z.row].invited_email
              /\ z.op = "accept" => z.email \in People
              /\ z \in FlushedTask =>
                    /\ z.op \notin {"invite", "remove"} => N[z.row].status # "gone"
                    /\ z.op = "invite" => \A i \in DOMAIN N : N[i].status # "gone" => N[i].invited_email # z.email
                    /\ z.op = "accept" => \A i \in DOMAIN N \ {z.row} : N[i].status # "gone" => N[i].user # z.email
  <2>1. TaskOK(z) /\ (z \in FlushedTask => HeldOK(z))
    BY <1>12 DEF MembersInv, TasksInv
  <2>2. /\ z.op = "invite" => z.row = 0 /\ z.email \in People
        /\ z.op # "invite" => z.row \in DOMAIN R /\ z.email = R[z.row].invited_email
        /\ z.op = "accept" => z.email \in People
    BY <1>3, <2>1 DEF TaskOK
  <2>3. z.op # "invite" => z.row \in DOMAIN N /\ z.email = N[z.row].invited_email
    BY <1>6, <2>2
  <2>4. ASSUME z \in FlushedTask
        PROVE  /\ z.op \notin {"invite", "remove"} => N[z.row].status # "gone"
               /\ z.op = "invite" => \A i \in DOMAIN N : N[i].status # "gone" => N[i].invited_email # z.email
               /\ z.op = "accept" => \A i \in DOMAIN N \ {z.row} : N[i].status # "gone" => N[i].user # z.email
    <3>1. /\ z.op \notin {"invite", "remove"} => R[z.row].status # "gone"
          /\ z.op = "invite" => \A i \in DOMAIN R : R[i].status # "gone" => R[i].invited_email # z.email
          /\ z.op = "accept" => \A i \in DOMAIN R \ {z.row} : R[i].status # "gone" => R[i].user # z.email
      BY <1>3, <2>1, <2>4 DEF HeldOK
    <3>2. t.row = z.row => t.op = "invite" /\ z.op = "invite" /\ t.email # z.email
      BY <1>1, <1>2, <1>12, <2>4 DEF MembersInv, LocksInv, Apart
    <3>3. z.op \notin {"invite", "remove"} => N[z.row].status # "gone"
      BY <1>6, <2>2, <3>1, <3>2
    <3>4. z.op = "invite" => \A i \in DOMAIN N : N[i].status # "gone" => N[i].invited_email # z.email
      BY <1>6, <1>7, <2>2, <3>1, <3>2
    <3>5. ASSUME z.op = "accept", NEW i \in DOMAIN N \ {z.row}, N[i].status # "gone"
          PROVE  N[i].user # z.email
      <4>1. z.email # Nobody
        BY <2>2, <3>5, MembersAssumption
      <4>2. CASE i \notin DOMAIN R
        BY <1>6, <4>1, <4>2
      <4>3. CASE i \in DOMAIN R /\ ~(t.op = "accept" /\ i = t.row)
        BY <1>6, <3>1, <3>5, <4>3
      <4>4. CASE i \in DOMAIN R /\ t.op = "accept" /\ i = t.row
        BY <1>6, <1>7, <1>8, <2>2, <3>1, <3>5, <4>1, <4>4
      <4> QED
        BY <4>2, <4>3, <4>4
    <3> QED
      BY <3>3, <3>4, <3>5
  <2> QED
    BY <2>2, <2>3, <2>4
<1>13. TasksInv'
  <2> SUFFICES ASSUME NEW x \in Slots, NEW n, n = task'[x], n # NoTask
               PROVE  TaskOK(n)' /\ (n \in FlushedTask => HeldOK(n)')
    BY DEF TasksInv
  <2>1. PICK z : z = task[x]
    OBVIOUS
  <2>2. /\ z # NoTask /\ x # s /\ n.op = z.op /\ n.row = z.row /\ n.email = z.email
        /\ z \in FlushedTask => n \in FlushedTask /\ n.late = TRUE
        /\ z \notin FlushedTask => n = z
    BY <2>1, OthersAfter
  <2>3. /\ n.op = "invite" => n.row = 0 /\ n.email \in People
        /\ n.op # "invite" => n.row \in DOMAIN N /\ n.email = N[n.row].invited_email
        /\ n.op = "accept" => n.email \in People
        /\ n \in FlushedTask =>
              /\ n.late = TRUE
              /\ n.op \notin {"invite", "remove"} => N[n.row].status # "gone"
              /\ n.op = "invite" => \A i \in DOMAIN N : N[i].status # "gone" => N[i].invited_email # n.email
              /\ n.op = "accept" => \A i \in DOMAIN N \ {n.row} : N[i].status # "gone" => N[i].user # n.email
    BY <1>12, <2>1, <2>2
  <2> QED
    BY <1>5, <2>3 DEF TaskOK, HeldOK
<1>14. LocksInv'
  <2> SUFFICES ASSUME NEW x \in Slots, NEW y \in Slots, x # y, NEW n, NEW p, n = task'[x], p = task'[y],
                      n \in FlushedTask, p \in FlushedTask
               PROVE  Apart(n, p)
    BY DEF LocksInv
  <2>1. n # NoTask /\ p # NoTask
    BY TaskKinds
  <2>2. PICK z : z = task[x] /\ z \in FlushedTask /\ n.op = z.op /\ n.row = z.row /\ n.email = z.email
    BY <2>1, OthersAfter
  <2>3. PICK w : w = task[y] /\ w \in FlushedTask /\ p.op = w.op /\ p.row = w.row /\ p.email = w.email
    BY <2>1, OthersAfter
  <2>4. Apart(z, w)
    BY <2>2, <2>3 DEF MembersInv, LocksInv
  <2> QED
    BY <2>2, <2>3, <2>4 DEF Apart
<1>15. SeatGaugeExact'
  <2>1. Seats(N) \in Nat
    BY <1>6, SeatsIsNat
  <2>2. CASE t.late
    BY <1>5, <2>2 DEF SeatGaugeExact
  <2>3. CASE ~t.late
    BY <1>5, <1>7, <2>1, <2>3 DEF SeatGaugeExact, SetGauge, Greatest
  <2> QED
    BY <2>2, <2>3
<1>16. SeatsInv'
  <2>1. /\ IsFiniteSet(Inviting) /\ Cardinality(Inviting) \in Nat /\ Cardinality(Slots) \in Nat
    BY InvitingFinite
  <2>2. Inviting' \subseteq Inviting \ {s}
    <3> SUFFICES ASSUME NEW x \in Slots, task'[x].op = "invite"
                 PROVE  x # s /\ task[x].op = "invite"
      BY DEF Inviting
    <3>1. PICK n : n = task'[x] /\ n # NoTask
      BY DEF NoTask
    <3> QED
      BY <3>1, OthersAfter
  <2>3. IsFiniteSet(Granted) /\ Cardinality(Granted) \in Nat
    <3>1. IsFiniteSet(Seated(rows)) /\ Granted \in SUBSET Seated(rows)
      BY SeatsIsNat DEF Granted, MembersInv, MembersTyped
    <3>2. IsFiniteSet(Granted)
      BY <3>1, FS_Subset
    <3> QED
      BY <3>2, FS_CardinalityType
  <2>4. Len(R) \in Nat /\ DOMAIN R = 1..Len(R)
    BY <1>6, LenProperties
  <2>5. /\ Len(R) + Cardinality(Inviting) <= MaxRows
        /\ Cardinality(Granted) + Cardinality(Inviting) <= Greatest(SeatLimit, 1) + Cardinality(Slots) - 1
    BY <1>3 DEF MembersInv, SeatsInv
  <2>6. Greatest(SeatLimit, 1) \in Nat /\ MaxRows \in Nat
    BY MembersAssumption DEF Greatest
  <2>7. CASE t.op = "invite"
    <3>1. s \in Inviting
      BY <1>1, <2>7 DEF Inviting
    <3>2. IsFiniteSet(Inviting \ {s}) /\ Cardinality(Inviting \ {s}) = Cardinality(Inviting) - 1
      BY <2>1, <3>1, FS_RemoveElement
    <3>3. IsFiniteSet(Inviting') /\ Cardinality(Inviting') <= Cardinality(Inviting) - 1
      BY <2>2, <3>2, FS_Subset
    <3>4. Granted' \subseteq Granted \cup {Len(R) + 1}
      BY <1>3, <1>5, <1>6, <2>7 DEF Granted, Seated
    <3>5. IsFiniteSet(Granted \cup {Len(R) + 1}) /\ Cardinality(Granted \cup {Len(R) + 1}) <= Cardinality(Granted) + 1
      BY <2>3, FS_AddElement
    <3>6. IsFiniteSet(Granted') /\ Cardinality(Granted') <= Cardinality(Granted \cup {Len(R) + 1})
      BY <3>4, <3>5, FS_Subset
    <3>7. Cardinality(Granted') \in Nat /\ Cardinality(Inviting') \in Nat /\ Cardinality(Granted \cup {Len(R) + 1}) \in Nat
      BY <3>3, <3>5, <3>6, FS_CardinalityType
    <3>8. Len(N) = Len(R) + 1
      BY <1>2, <1>4, <1>6, <2>7, AppliedRows DEF FlushedTask
    <3>9. \A b, c, g, d, i, k, q \in Nat :
            b <= c /\ c <= g + 1 /\ d <= i - 1 /\ g + i <= q + k - 1 => b + d <= q + k - 1
      OBVIOUS
    <3>10. Cardinality(Granted') + Cardinality(Inviting') <= Greatest(SeatLimit, 1) + Cardinality(Slots) - 1
      BY <2>1, <2>3, <2>5, <2>6, <3>3, <3>5, <3>6, <3>7, <3>9
    <3>11. Len(N) + Cardinality(Inviting') <= MaxRows
      BY <2>1, <2>4, <2>5, <2>6, <3>3, <3>7, <3>8
    <3> QED
      BY <1>5, <3>10, <3>11 DEF SeatsInv
  <2>8. CASE t.op # "invite"
    <3>1. IsFiniteSet(Inviting') /\ Cardinality(Inviting') <= Cardinality(Inviting)
      BY <2>1, <2>2, FS_Subset
    <3>2. /\ DOMAIN N = DOMAIN R /\ Len(N) = Len(R)
          /\ N[t.row].status = IF t.op = "accept" THEN "active" ELSE IF t.op = "remove" THEN "gone" ELSE t.op
      BY <1>2, <1>4, <1>6, <1>7, <2>8, AppliedRows DEF FlushedTask
    <3>3. Granted' \subseteq Granted
      <4> SUFFICES ASSUME NEW i \in DOMAIN N, N[i].status \in {"active", "invited"}, i \notin readmitted'
                   PROVE  i \in DOMAIN R /\ R[i].status \in {"active", "invited"} /\ i \notin readmitted
        BY <1>3, <1>5 DEF Granted, Seated
      <4>1. i \notin readmitted /\ i \in DOMAIN R
        BY <1>5, <3>2
      <4>2. CASE i # t.row
        BY <1>6, <4>1, <4>2
      <4>3. CASE i = t.row
        <5>1. t.op \in {"active", "accept"}
          BY <1>7, <2>8, <3>2, <4>3 DEF ChangeOps
        <5>2. R[i].status \notin {"suspended", "gone"}
          BY <1>5, <1>7, <4>3, <5>1
        <5>3. R[i] \in MembershipRow
          BY <1>6, <2>4, <4>1, ElementOfSeq
        <5> QED
          BY <4>1, <5>2, <5>3 DEF MembershipRow, Status
      <4> QED
        BY <4>2, <4>3
    <3>4. IsFiniteSet(Granted') /\ Cardinality(Granted') <= Cardinality(Granted)
      BY <2>3, <3>3, FS_Subset
    <3>5. Cardinality(Granted') \in Nat /\ Cardinality(Inviting') \in Nat
      BY <3>1, <3>4, FS_CardinalityType
    <3> QED
      BY <1>5, <2>1, <2>3, <2>4, <2>5, <2>6, <3>1, <3>2, <3>4, <3>5 DEF SeatsInv
  <2> QED
    BY <2>7, <2>8
<1> QED
  BY <1>9, <1>10, <1>11, <1>13, <1>14, <1>15, <1>16 DEF MembersInv

LEMMA MembersStay ==
    ASSUME MembersInv, UNCHANGED memberVars
    PROVE  MembersInv'
<1>1. UNCHANGED <<org, rows, users, task, drift, readmitted>>
  BY DEF memberVars
<1>2. MembersTyped' /\ BeforeCreation' /\ LocksInv' /\ AddressesInv'
  BY <1>1 DEF MembersInv, MembersTyped, BeforeCreation, LocksInv, AddressesInv
<1>3. TasksInv'
  BY <1>1 DEF MembersInv, TasksInv, TaskOK, HeldOK
<1>4. SeatsInv' /\ SeatGaugeExact'
  BY <1>1 DEF MembersInv, SeatsInv, Inviting, Granted, Seated, SeatGaugeExact
<1> QED
  BY <1>2, <1>3, <1>4 DEF MembersInv

LEMMA MembersKept ==
    ASSUME MembersInv, MembersNext
    PROVE  MembersInv'
<1>1. CASE CreateOrganization
  BY <1>1, CreateOrganizationKeeps
<1>2. ASSUME NEW s \in Slots,
             \/ InviteCheck(s) \/ AcceptCheck(s) \/ UpdateCheck(s) \/ RemoveCheck(s)
             \/ Flush(s) \/ MemberCommit(s) \/ AbortChange(s)
      PROVE  MembersInv'
  BY <1>2, InviteCheckKeeps, AcceptCheckKeeps, OtherCheckKeeps, FlushKeeps, MemberCommitKeeps, AbortChangeKeeps
<1> QED
  BY <1>1, <1>2 DEF MembersNext

LEMMA SeatsFollow == MembersInv => SeatsRight
<1> SUFFICES ASSUME MembersInv PROVE SeatsRight
  OBVIOUS
<1>1. MembersOK
  <2>1. Len(rows) \in Nat /\ Len(rows) + Cardinality(Inviting) <= MaxRows /\ MaxRows \in Nat
    BY LenProperties, MembersAssumption DEF MembersInv, MembersTyped, SeatsInv
  <2>2. Len(rows) <= MaxRows
    BY <2>1, InvitingFinite
  <2> QED
    BY <2>2 DEF MembersInv, MembersTyped, AddressesInv, MembersOK, Present
<1>2. OneMembershipEach
  BY DEF MembersInv, AddressesInv, OneMembershipEach, Present
<1>3. SeatsExplained
  <2> DEFINE Q == {i \in readmitted : rows[i].status \in {"active", "invited"}}
  <2>1. Seats(rows) = Cardinality(Seated(rows)) /\ IsFiniteSet(Seated(rows))
    BY SeatsIsNat DEF MembersInv, MembersTyped
  <2>2. Seated(rows) \cap Q = Q /\ Granted = Seated(rows) \ Q
    BY DEF Seated, Granted, MembersInv, MembersTyped
  <2>3. Cardinality(Seated(rows) \ Q) = Cardinality(Seated(rows)) - Cardinality(Seated(rows) \cap Q)
    BY <2>1, FS_Difference
  <2>4. Q \in SUBSET Seated(rows) /\ Granted \in SUBSET Seated(rows)
    BY <2>2
  <2>5. IsFiniteSet(Q) /\ IsFiniteSet(Granted)
    BY <2>1, <2>4, FS_Subset
  <2>6. Cardinality(Q) \in Nat /\ Cardinality(Granted) \in Nat /\ Cardinality(Seated(rows)) \in Nat
    BY <2>1, <2>5, FS_CardinalityType
  <2>7. Cardinality(Granted) + Cardinality(Inviting) <= Greatest(SeatLimit, 1) + Cardinality(Slots) - 1
    BY DEF MembersInv, SeatsInv
  <2>8. Greatest(SeatLimit, 1) \in Nat
    BY MembersAssumption DEF Greatest
  <2> HIDE DEF Q
  <2>9. Cardinality(Granted) = Cardinality(Seated(rows)) - Cardinality(Q)
    BY <2>2, <2>3
  <2>10. Seats(rows) <= Greatest(SeatLimit, 1) + Cardinality(Slots) - 1 + Cardinality(Q)
    <3>1. ASSUME NEW g \in Nat, NEW i \in Nat, NEW z \in Nat, NEW q \in Nat, NEW k \in Nat, NEW n \in Nat,
                 g + i <= k + n - 1, g = z - q
          PROVE  z <= k + n - 1 + q
      BY <3>1
    <3> QED
      BY <2>1, <2>6, <2>7, <2>8, <2>9, <3>1, InvitingFinite
  <2> QED
    BY <2>10 DEF SeatsExplained, Q
<1> QED
  BY <1>1, <1>2, <1>3 DEF MembersInv, SeatsRight

\* A step of a request never revives a deleted row.
LEMMA NothingRevived ==
    ASSUME MembersInv, MembersNext
    PROVE  \A i \in DOMAIN rows : rows[i].status = "gone" => rows'[i].status = "gone"
<1>1. CASE CreateOrganization
  <2>1. DOMAIN rows = {}
    BY <1>1, EmptySeq DEF CreateOrganization, MembersInv, BeforeCreation
  <2> QED
    BY <2>1
<1>2. ASSUME NEW s \in Slots, MemberCommit(s)
      PROVE  \A i \in DOMAIN rows : rows[i].status = "gone" => rows'[i].status = "gone"
  <2>1. PICK t : t = task[s]
    OBVIOUS
  <2>2. t \in FlushedTask
    BY <1>2, <2>1, FlushedIsTyped DEF MemberCommit, MembersInv
  <2>3. TaskOK(t) /\ HeldOK(t)
    BY <2>1, <2>2, TaskKinds DEF MembersInv, TasksInv
  <2>4. rows' = Applied(t, rows)
    BY <1>2, <2>1 DEF MemberCommit
  <2> QED
    BY <2>2, <2>3, <2>4, CommittedRows
<1>3. ASSUME NEW s \in Slots,
             InviteCheck(s) \/ AcceptCheck(s) \/ UpdateCheck(s) \/ RemoveCheck(s) \/ Flush(s) \/ AbortChange(s)
      PROVE  rows' = rows
  BY <1>3 DEF InviteCheck, AcceptCheck, UpdateCheck, RemoveCheck, BeginChange, Flush, AbortChange
<1>4. \/ CreateOrganization \/ \E s \in Slots : MemberCommit(s)
      \/ \E s \in Slots :
            InviteCheck(s) \/ AcceptCheck(s) \/ UpdateCheck(s) \/ RemoveCheck(s) \/ Flush(s) \/ AbortChange(s)
  BY DEF MembersNext
<1>5. CASE rows' = rows
  BY <1>5
<1> QED
  BY <1>1, <1>2, <1>3, <1>4, <1>5

----------------------------------------------------------------------------
(* The organization.                                                       *)

IInv == MembersInv /\ RolesInv /\ TuplesInv

LEMMA OrganizationInitial == Init => IInv
BY MembersInitial, RolesInitial, TuplesInitial DEF Init, IInv

LEMMA OrganizationStep == IInv /\ [Next]_orgVars => IInv'
<1> SUFFICES ASSUME IInv, [Next]_orgVars PROVE IInv'
  OBVIOUS
<1>1. CASE MembersNext /\ UNCHANGED <<roleVars, tupleVars>>
  BY <1>1, MembersKept, RolesStay, TuplesStay DEF IInv
<1>2. CASE RolesNext /\ UNCHANGED <<memberVars, tupleVars>>
  BY <1>2, RolesKept, MembersStay, TuplesStay DEF IInv
<1>3. CASE TuplesNext /\ UNCHANGED <<memberVars, roleVars>>
  BY <1>3, TuplesKept, MembersStay, RolesStay DEF IInv
<1>4. CASE UNCHANGED orgVars
  BY <1>4, MembersStay, RolesStay, TuplesStay DEF orgVars, IInv
<1> QED
  BY <1>1, <1>2, <1>3, <1>4 DEF Next

LEMMA OrganizationInv == Spec => []IInv
BY OrganizationInitial, OrganizationStep, PTL DEF Spec

\* With any number of overlapping requests, an address and a person hold one membership
\* each, the seat gauge is exact unless its last writer was overtaken, and the plan's
\* seats are exceeded only by invitations that were checked at the same time and by
\* members who came back from a suspension (invite_member, accept_invite_by_token,
\* update_membership, remove_member and _sync_seat_gauge).
THEOREM SeatsAreRight == Spec => []SeatsRight
<1>1. IInv => SeatsRight
  BY SeatsFollow DEF IInv
<1> QED
  BY <1>1, OrganizationInv, PTL

\* The permission_keys column, the permission cache and every API key say what the
\* roles say now, apart from requests that overlapped, removals and announcements
\* that were lost (recompute_membership_permissions, invalidate_user_perms, create_key).
THEOREM PermissionsAreCurrent == Spec => []PermissionsCurrent
<1>1. IInv => PermissionsCurrent
  BY PermissionsFollow DEF IInv
<1> QED
  BY <1>1, OrganizationInv, PTL

\* A sync that got through alone leaves OpenFGA allowing exactly what the roles grant,
\* takes away no permission that is kept on the way, and a decision cached then is the
\* roles' decision (apply_tuple_sync, write, _fga_allowed).
THEOREM TuplesAlwaysFollow == Spec => []TuplesFollowRoles
<1>1. IInv => TuplesFollowRoles
  BY TuplesFollow DEF IInv
<1> QED
  BY <1>1, OrganizationInv, PTL

\* No request that was under way when a membership was deleted brings it back
\* (accept_invite_by_token and update_membership against remove_member).
THEOREM RemovalStays == Spec => RemovedStaysOut
<1> DEFINE Kept == \A i \in DOMAIN rows : rows[i].status = "gone" => rows'[i].status = "gone"
<1>1. IInv /\ [Next]_orgVars => [Kept]_memberVars
  <2> SUFFICES ASSUME IInv, [Next]_orgVars PROVE Kept \/ UNCHANGED memberVars
    OBVIOUS
  <2>1. CASE MembersNext
    BY <2>1, NothingRevived DEF IInv
  <2>2. CASE UNCHANGED memberVars
    BY <2>2
  <2>3. MembersNext \/ UNCHANGED memberVars
    BY DEF Next, orgVars
  <2> QED
    BY <2>1, <2>2, <2>3
<1>2. RemovedStaysOut <=> [][Kept]_memberVars
  BY DEF RemovedStaysOut
<1> HIDE DEF Kept
<1> QED
  BY <1>1, <1>2, OrganizationInv, PTL DEF Spec

----------------------------------------------------------------------------
(* The files of the organization: the storage gauge, the index rows and    *)
(* the objects.  The inductive invariant FilesInv.                         *)

Uploading == {c \in Clients : work[c].op \in {"upload", "presign"}}

\* What a request knows: an upload was checked against the limit, the others loaded a row.
WorkOK(w) ==
    \/ w = Idle
    \/ \E op \in {"upload", "presign"}, k \in Keys, z \in Sizes, step \in {"checked", "moved"} :
          /\ w = [op |-> op, row |-> 0, key |-> k, size |-> z, step |-> step]
          /\ z <= StorageLimit
    \/ \E op \in {"ready", "mismatch", "delete"}, i \in DOMAIN files, step \in {"checked", "moved"} :
          w = [op |-> op, row |-> i, key |-> files[i].key, size |-> files[i].size_bytes, step |-> step]

\* Why a row may be without its object.
Explained(i) ==
    \/ bucket[files[i].key] # NoObject
    \/ \E j \in DOMAIN files \ {i} : files[j].key = files[i].key
    \/ i \in halfDeleted
    \/ \E c \in Clients : work[c].op = "delete" /\ work[c].row = i

Completing(i) == \E c \in Clients : work[c].op = "ready" /\ work[c].row = i

ObjectsInv ==
    /\ \A i \in Undeleted : files[i].status = "ready" \/ Completing(i) => Explained(i)
    /\ \A c \in Clients : work[c].op = "upload" /\ work[c].step = "moved" =>
          \/ bucket[work[c].key] # NoObject
          \/ \E j \in DOMAIN files : files[j].key = work[c].key

LargestUpload == Min({Max(Sizes), StorageLimit})

\* The bytes uploads under way will add.
Promise(w) == IF w.op \in {"upload", "presign"} THEN w.size ELSE 0
Promised == SumFunctionOnSet([c \in Clients |-> Promise(work[c])], Clients)

GaugeInv ==
    /\ givenTwice \in Nat
    /\ level <= Stored /\ Stored <= level + givenTwice
    /\ level + Promised <= StorageLimit + (Cardinality(Clients) - 1) * LargestUpload

WorkInv ==
    /\ DOMAIN work = Clients /\ work = [c \in Clients |-> work[c]]
    /\ \A c \in Clients : WorkOK(work[c])
    /\ Len(files) + Cardinality(Uploading) <= MaxFiles

FilesInv == FilesOK /\ WorkInv /\ purge \subseteq Stale /\ ObjectsInv /\ GaugeInv

----------------------------------------------------------------------------

LEMMA UploadSizes ==
    /\ LargestUpload \in Nat /\ LargestUpload <= StorageLimit /\ StorageLimit \in Nat
    /\ \A z \in Sizes : /\ z \in Nat /\ z # NoObject
                        /\ z <= StorageLimit => z <= LargestUpload
<1>1. Sizes \in SUBSET Int /\ Sizes \subseteq Nat /\ StorageLimit \in Nat
  BY FileStorageAssumption
<1>2. Max(Sizes) \in Sizes /\ \A z \in Sizes : z <= Max(Sizes)
  BY <1>1, FileStorageAssumption, MaxIs
<1>3. PICK m \in Nat : m = Max(Sizes)
  BY <1>1, <1>2
<1>4. LargestUpload = IF m <= StorageLimit THEN m ELSE StorageLimit
  BY <1>1, <1>3, MinOfTwo DEF LargestUpload
<1> QED
  BY <1>1, <1>2, <1>3, <1>4 DEF NoObject

\* One upload more than the limit allows for every request but one.
LEMMA Allowance ==
    /\ Cardinality(Clients) \in Nat /\ (Clients # {} => Cardinality(Clients) # 0)
    /\ (Cardinality(Clients) - 1) * LargestUpload \in Int
    /\ 0 <= StorageLimit + (Cardinality(Clients) - 1) * LargestUpload
<1>1. PICK n \in Nat : n = Cardinality(Clients) /\ (Clients # {} => n # 0)
  BY FileStorageAssumption, FS_CardinalityType, FS_EmptySet
<1>2. PICK m \in Nat : m = LargestUpload /\ m <= StorageLimit /\ StorageLimit \in Nat
  BY UploadSizes
<1>3. CASE n = 0
  BY <1>1, <1>2, <1>3
<1>4. CASE n # 0
  <2>1. PICK k \in Nat : k = n - 1
    BY <1>4
  <2>2. k * m \in Nat
    BY <1>2, <2>1
  <2> QED
    BY <1>1, <1>2, <2>1, <2>2
<1> QED
  BY <1>3, <1>4

LEMMA FileAt ==
    ASSUME FilesOK
    PROVE  /\ DOMAIN files = 1..Len(files) /\ Len(files) \in Nat /\ IsFiniteSet(DOMAIN files)
           /\ \A i \in DOMAIN files : files[i] \in StoredFile
<1>1. DOMAIN files = 1..Len(files) /\ Len(files) \in Nat
  BY LenProperties DEF FilesOK
<1> QED
  BY <1>1, FS_Interval, ElementOfSeq DEF FilesOK

LEMMA BytesType ==
    ASSUME FilesOK, NEW S \in SUBSET DOMAIN files
    PROVE  /\ Summable([i \in DOMAIN files |-> files[i].size_bytes], S)
           /\ BytesOf(S) \in Nat
<1> DEFINE f == [i \in DOMAIN files |-> files[i].size_bytes]
<1>1. Sizes \in SUBSET Int /\ IsFiniteSet(Sizes) /\ Sizes # {} /\ Sizes \subseteq Nat
  BY FileStorageAssumption
<1>2. PICK m \in Nat : m = Max(Sizes) /\ \A z \in Sizes : z <= m
  BY <1>1, MaxIs
<1>3. IsFiniteSet(S)
  BY FileAt, FS_Subset
<1>4. ASSUME NEW i \in DOMAIN files PROVE f[i] \in 0..m
  <2>1. PICK z \in Sizes : z = f[i]
    BY FileAt DEF StoredFile
  <2>2. z \in 0..m
    BY <1>1, <1>2
  <2> QED
    BY <2>1, <2>2
<1> HIDE DEF f
<1>5. SumFunctionOnSet(f, S) \in Nat
  BY <1>3, <1>4, SumBounds
<1>6. Summable(f, S)
  BY <1>3, <1>4 DEF Summable
<1> QED
  BY <1>5, <1>6 DEF BytesOf, f

\* Rows keep their name and size, and a deleted one stays deleted.
KeepRows ==
    \A i \in DOMAIN files :
        /\ i \in DOMAIN files'
        /\ files'[i].key = files[i].key /\ files'[i].size_bytes = files[i].size_bytes
        /\ files[i].deleted => files'[i].deleted

LEMMA BytesKeep ==
    ASSUME FilesOK, KeepRows, NEW S \in SUBSET DOMAIN files
    PROVE  SumFunctionOnSet([i \in DOMAIN files' |-> files'[i].size_bytes], S) = BytesOf(S)
<1> DEFINE f == [i \in DOMAIN files |-> files[i].size_bytes]
           g == [i \in DOMAIN files' |-> files'[i].size_bytes]
<1>1. Summable(f, S)
  BY BytesType
<1>2. \A i \in S : f[i] = g[i]
  BY DEF KeepRows
<1> HIDE DEF f, g
<1>3. SumFunctionOnSet(f, S) = SumFunctionOnSet(g, S)
  BY <1>1, <1>2, SumSame
<1> QED
  BY <1>3 DEF f, g, BytesOf

----------------------------------------------------------------------------
(* Types                                                                   *)

LEMMA WorkKeeps ==
    ASSUME NEW w, WorkOK(w), KeepRows
    PROVE  WorkOK(w)'
BY DEF WorkOK, KeepRows

LEMMA WorkFields ==
    ASSUME NEW w, WorkOK(w), FilesOK
    PROVE  /\ w = Idle => w.op = "none"
           /\ w.op = "none" => w = Idle
           /\ w.op \in {"none", "upload", "presign", "ready", "mismatch", "delete"}
           /\ w.op \in {"upload", "presign"} =>
                 w.size \in Sizes /\ w.size <= StorageLimit /\ w.key \in Keys
           /\ w.op \in {"ready", "mismatch", "delete"} =>
                 /\ w.row \in DOMAIN files /\ w.key = files[w.row].key
                 /\ w.size = files[w.row].size_bytes /\ w.size \in Sizes
           /\ Promise(w) \in 0..LargestUpload
<1>1. CASE w = Idle
  BY <1>1, UploadSizes DEF Idle, Promise
<1>2. CASE \E op \in {"upload", "presign"}, k \in Keys, z \in Sizes, step \in {"checked", "moved"} :
             /\ w = [op |-> op, row |-> 0, key |-> k, size |-> z, step |-> step]
             /\ z <= StorageLimit
  <2>1. /\ w.op \in {"upload", "presign"} /\ w.size \in Sizes /\ w.size <= StorageLimit /\ w.key \in Keys
        /\ w # Idle
    BY <1>2 DEF Idle
  <2> QED
    BY <2>1, UploadSizes DEF Promise
<1>3. CASE \E op \in {"ready", "mismatch", "delete"}, i \in DOMAIN files, step \in {"checked", "moved"} :
             w = [op |-> op, row |-> i, key |-> files[i].key, size |-> files[i].size_bytes, step |-> step]
  <2>1. /\ w.op \in {"ready", "mismatch", "delete"} /\ w # Idle
        /\ w.row \in DOMAIN files /\ w.key = files[w.row].key /\ w.size = files[w.row].size_bytes
    BY <1>3 DEF Idle
  <2>2. w.size \in Sizes
    BY <2>1, FileAt DEF StoredFile
  <2> QED
    BY <2>1, <2>2, UploadSizes DEF Promise
<1> QED
  BY <1>1, <1>2, <1>3 DEF WorkOK

LEMMA StepTypes ==
    ASSUME FilesOK, WorkInv, KeepRows, NEW c \in Clients, NEW w, Step(c, w), WorkOK(w)'
    PROVE  /\ DOMAIN work' = Clients /\ work' = [d \in Clients |-> work'[d]]
           /\ \A d \in Clients : WorkOK(work[d])'
           /\ work'[c] = w /\ \A d \in Clients \ {c} : work'[d] = work[d]
<1>1. /\ DOMAIN work' = Clients /\ work' = [d \in Clients |-> work'[d]]
      /\ work'[c] = w /\ \A d \in Clients \ {c} : work'[d] = work[d]
  BY DEF Step, WorkInv
<1>2. \A d \in Clients : WorkOK(work[d])
  BY DEF WorkInv
<1>3. ASSUME NEW d \in Clients \ {c} PROVE WorkOK(work[d])'
  <2>1. PICK v : v = work[d] /\ work'[d] = v
    BY <1>1
  <2>2. WorkOK(v)'
    BY <1>2, <2>1, WorkKeeps
  <2> QED
    BY <2>1, <2>2 DEF WorkOK
<1>4. WorkOK(work[c])'
  BY <1>1 DEF WorkOK
<1> QED
  BY <1>1, <1>3, <1>4

\* The steps of one request change the number of uploads by what it was and is.
LEMMA UploadCount ==
    ASSUME FilesOK, WorkInv, NEW c \in Clients, NEW w, Step(c, w)
    PROVE  /\ Cardinality(Uploading) \in Nat /\ Cardinality(Uploading)' \in Nat
           /\ Cardinality(Uploading)' = Cardinality(Uploading)
                 + (IF w.op \in {"upload", "presign"} THEN 1 ELSE 0)
                 - (IF work[c].op \in {"upload", "presign"} THEN 1 ELSE 0)
<1>1. PICK U, V : U = Uploading /\ V = Uploading'
  OBVIOUS
<1>2. IsFiniteSet(U) /\ IsFiniteSet(V) /\ Cardinality(U) \in Nat /\ Cardinality(V) \in Nat
  BY <1>1, FileStorageAssumption, FS_Subset, FS_CardinalityType DEF Uploading
<1>3. work'[c] = w /\ \A d \in Clients \ {c} : work'[d] = work[d]
  BY DEF Step, WorkInv
<1>4. /\ c \in U <=> work[c].op \in {"upload", "presign"}
      /\ c \in V <=> w.op \in {"upload", "presign"}
      /\ U \ {c} = V \ {c}
  BY <1>1, <1>3 DEF Uploading
<1>5. PICK n : n = Cardinality(U \ {c})
  OBVIOUS
<1>6. Cardinality(U) = n + (IF c \in U THEN 1 ELSE 0) /\ Cardinality(V) = n + (IF c \in V THEN 1 ELSE 0)
  <2>1. \A S : IsFiniteSet(S) => Cardinality(S \ {c}) = IF c \in S THEN Cardinality(S) - 1 ELSE Cardinality(S)
    BY FS_RemoveElement
  <2>2. PICK u \in Nat, v \in Nat : u = Cardinality(U) /\ v = Cardinality(V)
    BY <1>2
  <2>3. n = IF c \in U THEN u - 1 ELSE u
    BY <1>2, <1>5, <2>1, <2>2
  <2>4. n = IF c \in V THEN v - 1 ELSE v
    BY <1>2, <1>4, <1>5, <2>1, <2>2
  <2> QED
    BY <2>2, <2>3, <2>4
<1>7. n \in Nat
  BY <1>2, <1>5, FS_RemoveElement, FS_CardinalityType, FS_Subset
<1> QED
  BY <1>1, <1>2, <1>4, <1>6, <1>7

LEMMA PromiseCount ==
    ASSUME FilesOK, WorkInv, NEW c \in Clients, NEW w, Step(c, w), Promise(w) \in Int
    PROVE  /\ Promised \in Nat
           /\ Promised' = Promised + (Promise(w) - Promise(work[c]))
           /\ Promise(work[c]) = 0 => Promised <= (Cardinality(Clients) - 1) * LargestUpload
<1> DEFINE f == [d \in Clients |-> Promise(work[d])]
           g == [d \in Clients |-> Promise(work'[d])]
<1>1. \A d \in Clients : f[d] \in 0..LargestUpload
  BY WorkFields DEF WorkInv
<1>2. IsFiniteSet(Clients) /\ LargestUpload \in Nat
  BY FileStorageAssumption, UploadSizes
<1>3. work'[c] = w /\ \A d \in Clients \ {c} : work'[d] = work[d]
  BY DEF Step, WorkInv
<1>4. f[c] = Promise(work[c]) /\ g[c] = Promise(w) /\ \A d \in Clients \ {c} : g[d] = f[d]
  BY <1>3
<1>5. Promised = SumFunctionOnSet(f, Clients) /\ Promised' = SumFunctionOnSet(g, Clients)
  BY DEF Promised, Promise
<1> HIDE DEF f, g
<1>6. Summable(f, Clients) /\ SumFunctionOnSet(f, Clients) \in Nat
  BY <1>1, <1>2, SumBounds DEF Summable
<1>7. SumFunctionOnSet(g, Clients) = SumFunctionOnSet(f, Clients) + (g[c] - f[c])
  BY <1>4, <1>6, SumChange
<1>8. ASSUME f[c] = 0 PROVE SumFunctionOnSet(f, Clients) <= (Cardinality(Clients) - 1) * LargestUpload
  <2>1. PICK R : R = Clients \ {c}
    OBVIOUS
  <2>2. IsFiniteSet(R) /\ Cardinality(R) = Cardinality(Clients) - 1
    BY <1>2, <2>1, FS_RemoveElement
  <2>3. SumFunctionOnSet(f, R) \in Nat /\ SumFunctionOnSet(f, R) <= Cardinality(R) * LargestUpload
    BY <1>1, <1>2, <2>1, <2>2, SumBounds
  <2>4. SumFunctionOnSet(f, Clients) = f[c] + SumFunctionOnSet(f, R)
    BY <1>6, <2>1, SumTakeOut
  <2> QED
    BY <1>8, <2>2, <2>3, <2>4
<1> QED
  BY <1>4, <1>5, <1>6, <1>7, <1>8

----------------------------------------------------------------------------
(* The objects                                                             *)

\* A row keeps its explanation unless its object goes.
LEMMA ExplainedKeeps ==
    ASSUME KeepRows, NEW i \in DOMAIN files, Explained(i),
           bucket[files[i].key] # NoObject => bucket'[files[i].key] # NoObject,
           i \in halfDeleted => i \in halfDeleted',
           \A c \in Clients : work[c].op = "delete" /\ work[c].row = i =>
              (work'[c].op = "delete" /\ work'[c].row = i) \/ i \in halfDeleted'
    PROVE  Explained(i)'
<1>1. CASE bucket[files[i].key] # NoObject
  BY <1>1 DEF Explained, KeepRows
<1>2. CASE \E j \in DOMAIN files \ {i} : files[j].key = files[i].key
  BY <1>2 DEF Explained, KeepRows
<1>3. CASE i \in halfDeleted
  BY <1>3 DEF Explained
<1>4. CASE \E c \in Clients : work[c].op = "delete" /\ work[c].row = i
  BY <1>4 DEF Explained
<1> QED
  BY <1>1, <1>2, <1>3, <1>4 DEF Explained

\* What a step must do for the objects: explain every row it makes ready or is about to.
LEMMA ObjectsKeep ==
    ASSUME FilesInv, KeepRows,
           \A i \in DOMAIN files : ~files'[i].deleted /\ Explained(i) => Explained(i)',
           \A i \in Undeleted' : files'[i].status = "ready" \/ Completing(i)' =>
              \/ i \in DOMAIN files /\ (files[i].status = "ready" \/ Completing(i))
              \/ Explained(i)',
           \A c \in Clients : work'[c].op = "upload" /\ work'[c].step = "moved" =>
              \/ work[c].op = "upload" /\ work[c].step = "moved" /\ work[c].key = work'[c].key
              \/ bucket'[work'[c].key] # NoObject,
           \A c \in Clients : work[c].op = "upload" /\ bucket[work[c].key] # NoObject =>
              \/ bucket'[work[c].key] # NoObject
              \/ \E j \in DOMAIN files' : files'[j].key = work[c].key
    PROVE  ObjectsInv'
<1>1. ASSUME NEW i \in Undeleted', files'[i].status = "ready" \/ Completing(i)' PROVE Explained(i)'
  <2>1. CASE i \in DOMAIN files /\ (files[i].status = "ready" \/ Completing(i))
    <3>1. i \in DOMAIN files /\ ~files'[i].deleted
      BY <2>1 DEF Undeleted
    <3>2. i \in Undeleted
      BY <3>1 DEF Undeleted, KeepRows
    <3>3. Explained(i)
      BY <2>1, <3>2 DEF FilesInv, ObjectsInv
    <3> QED
      BY <3>1, <3>3
  <2> QED
    BY <1>1, <2>1
<1>2. ASSUME NEW c \in Clients, work'[c].op = "upload", work'[c].step = "moved"
      PROVE  bucket'[work'[c].key] # NoObject \/ \E j \in DOMAIN files' : files'[j].key = work'[c].key
  <2>1. CASE work[c].op = "upload" /\ work[c].step = "moved" /\ work[c].key = work'[c].key
    <3>1. bucket[work[c].key] # NoObject \/ \E j \in DOMAIN files : files[j].key = work[c].key
      BY <2>1 DEF FilesInv, ObjectsInv
    <3>2. CASE bucket[work[c].key] # NoObject
      BY <2>1, <3>2
    <3>3. CASE \E j \in DOMAIN files : files[j].key = work[c].key
      BY <2>1, <3>3 DEF KeepRows
    <3> QED
      BY <3>1, <3>2, <3>3
  <2> QED
    BY <1>2, <2>1
<1> QED
  BY <1>1, <1>2 DEF ObjectsInv

----------------------------------------------------------------------------
(* The steps                                                               *)

LEMMA SameRowsKeep ==
    ASSUME UNCHANGED files
    PROVE  KeepRows
BY DEF KeepRows

\* A step that changes the record of one request, and neither rows nor level.
LEMMA QuietStep ==
    ASSUME FilesInv, NEW c \in Clients, NEW w, Step(c, w), WorkOK(w)',
           UNCHANGED <<files, level, purge, givenTwice>>, bucket' \in [Keys -> Sizes \cup {NoObject}],
           w.op \in {"upload", "presign"} =>
              \/ work[c].op \in {"upload", "presign"} /\ w.size = work[c].size
              \/ /\ work[c] = Idle /\ HasCapacity(level, w.size, StorageLimit)
                 /\ Len(files) + Cardinality(Uploading) < MaxFiles,
           ObjectsInv'
    PROVE  FilesInv'
<1>1. FilesOK' /\ purge' \subseteq Stale'
  BY DEF FilesInv, FilesOK, Stale, GetScoped
<1>2. KeepRows /\ WorkOK(work[c])
  BY SameRowsKeep DEF FilesInv, WorkInv
<1>3. /\ DOMAIN work' = Clients /\ work' = [d \in Clients |-> work'[d]]
      /\ \A d \in Clients : WorkOK(work[d])'
  BY <1>2, StepTypes DEF FilesInv
<1>4. WorkOK(w)
  BY DEF WorkOK
<1>5. /\ Cardinality(Uploading) \in Nat /\ Cardinality(Uploading)' \in Nat
      /\ Cardinality(Uploading)' = Cardinality(Uploading)
            + (IF w.op \in {"upload", "presign"} THEN 1 ELSE 0)
            - (IF work[c].op \in {"upload", "presign"} THEN 1 ELSE 0)
  BY UploadCount DEF FilesInv
<1>6. /\ Promise(w) \in 0..LargestUpload /\ Promise(work[c]) \in 0..LargestUpload
      /\ LargestUpload \in Nat
  BY <1>2, <1>4, WorkFields, UploadSizes DEF FilesInv
<1>7. Promise(w) \in Int
  BY <1>6
<1>8. /\ Promised \in Nat
      /\ Promised' = Promised + (Promise(w) - Promise(work[c]))
      /\ Promise(work[c]) = 0 => Promised <= (Cardinality(Clients) - 1) * LargestUpload
  BY <1>7, PromiseCount DEF FilesInv
<1>9. Len(files) \in Nat /\ MaxFiles \in Nat /\ level \in Nat /\ StorageLimit \in Nat
  BY FileAt, FileStorageAssumption DEF FilesInv, FilesOK
<1>10. Len(files)' + Cardinality(Uploading)' <= MaxFiles
  <2>1. CASE w.op \in {"upload", "presign"} /\ work[c].op \notin {"upload", "presign"}
    BY <1>5, <1>9, <2>1
  <2>2. CASE ~(w.op \in {"upload", "presign"} /\ work[c].op \notin {"upload", "presign"})
    <3>1. Cardinality(Uploading)' <= Cardinality(Uploading)
      BY <1>5, <2>2
    <3> QED
      BY <1>5, <1>9, <3>1 DEF FilesInv, WorkInv
  <2> QED
    BY <2>1, <2>2
<1>11. (level + Promised <= StorageLimit + (Cardinality(Clients) - 1) * LargestUpload)'
  <2>1. PICK B : B = (Cardinality(Clients) - 1) * LargestUpload /\ B \in Int
    BY Allowance
  <2>2. CASE w.op \in {"upload", "presign"} /\ work[c].op \notin {"upload", "presign"}
    <3>1. Promise(work[c]) = 0 /\ Promise(w) = w.size
      BY <2>2 DEF Promise
    <3>2. level + w.size <= StorageLimit
      BY <1>9, <2>2 DEF HasCapacity, NoLimit
    <3>3. PICK p \in Nat, z \in Int : p = Promised /\ z = w.size /\ Promised' = p + z /\ p <= B
      BY <1>6, <1>8, <2>1, <3>1
    <3>4. level + (p + z) <= StorageLimit + B
      BY <1>9, <2>1, <3>2, <3>3
    <3> QED
      BY <2>1, <3>3, <3>4
  <2>3. CASE ~(w.op \in {"upload", "presign"} /\ work[c].op \notin {"upload", "presign"})
    <3>1. Promise(w) <= Promise(work[c])
      <4>1. CASE w.op \in {"upload", "presign"}
        BY <1>6, <2>3, <4>1 DEF Promise, Idle
      <4>2. CASE w.op \notin {"upload", "presign"}
        <5>1. Promise(w) = 0
          BY <4>2 DEF Promise
        <5> QED
          BY <1>6, <5>1
      <4> QED
        BY <4>1, <4>2
    <3>2. level + Promised <= StorageLimit + B
      BY <2>1 DEF FilesInv, GaugeInv
    <3> QED
      BY <1>6, <1>8, <1>9, <2>1, <3>1, <3>2
  <2> QED
    BY <2>2, <2>3
<1>12. GaugeInv'
  <2>1. (level <= Stored /\ Stored <= level + givenTwice /\ givenTwice \in Nat)'
    BY DEF FilesInv, GaugeInv, Stored, BytesOf, Undeleted
  <2> QED
    BY <1>11, <2>1 DEF GaugeInv
<1> QED
  BY <1>1, <1>3, <1>10, <1>12 DEF FilesInv, WorkInv

\* Such a step explains rows as before when it takes no object away and deletes nothing.
LEMMA QuietObjects ==
    ASSUME FilesInv, NEW c \in Clients, NEW w, Step(c, w), UNCHANGED files,
           \A k \in Keys : bucket[k] # NoObject => bucket'[k] # NoObject,
           halfDeleted \subseteq halfDeleted',
           work[c].op = "delete" /\ work[c].row \in DOMAIN files /\ ~files[work[c].row].deleted =>
              \/ w.op = "delete" /\ w.row = work[c].row
              \/ work[c].row \in halfDeleted',
           w.op = "ready" => Verified(w.row) /\ UNCHANGED bucket /\ w.row \in DOMAIN files,
           w.op = "upload" /\ w.step = "moved" => bucket'[w.key] # NoObject
    PROVE  ObjectsInv'
<1>1. KeepRows
  BY SameRowsKeep
<1>2. work'[c] = w /\ \A d \in Clients \ {c} : work'[d] = work[d]
  BY DEF Step, FilesInv, WorkInv
<1>3. \A i \in DOMAIN files : files[i] \in StoredFile /\ files[i].key \in Keys /\ files[i].size_bytes # NoObject
  BY FileAt, UploadSizes DEF FilesInv, StoredFile
<1>4. ASSUME NEW i \in DOMAIN files, ~files'[i].deleted, Explained(i) PROVE Explained(i)'
  <2>1. \A d \in Clients : work[d].op = "delete" /\ work[d].row = i =>
          (work'[d].op = "delete" /\ work'[d].row = i) \/ i \in halfDeleted'
    BY <1>2, <1>4
  <2>2. bucket[files[i].key] # NoObject => bucket'[files[i].key] # NoObject
    BY <1>3
  <2> QED
    BY <1>1, <1>4, <2>1, <2>2, ExplainedKeeps
<1>5. ASSUME NEW i \in Undeleted', files'[i].status = "ready" \/ Completing(i)'
      PROVE  \/ i \in DOMAIN files /\ (files[i].status = "ready" \/ Completing(i))
             \/ Explained(i)'
  <2>1. i \in DOMAIN files
    BY DEF Undeleted
  <2>2. CASE files'[i].status = "ready"
    BY <2>1, <2>2
  <2>3. CASE Completing(i)'
    <3>1. PICK d \in Clients : work'[d].op = "ready" /\ work'[d].row = i
      BY <2>3 DEF Completing
    <3>2. CASE d = c
      <4>1. bucket'[files'[i].key] # NoObject
        BY <1>2, <1>3, <2>1, <3>1, <3>2 DEF Verified, BucketHead
      <4> QED
        BY <4>1 DEF Explained
    <3>3. CASE d # c
      BY <1>2, <2>1, <3>1, <3>3 DEF Completing
    <3> QED
      BY <3>2, <3>3
  <2> QED
    BY <1>5, <2>2, <2>3
<1>6. \A d \in Clients : work'[d].op = "upload" /\ work'[d].step = "moved" =>
         \/ work[d].op = "upload" /\ work[d].step = "moved" /\ work[d].key = work'[d].key
         \/ bucket'[work'[d].key] # NoObject
  BY <1>2
<1>7. \A d \in Clients : work[d].op = "upload" /\ bucket[work[d].key] # NoObject => bucket'[work[d].key] # NoObject
  <2>1. \A d \in Clients : work[d].op = "upload" => work[d].key \in Keys
    BY WorkFields DEF FilesInv, WorkInv
  <2> QED
    BY <2>1
<1> QED
  BY <1>1, <1>4, <1>5, <1>6, <1>7, ObjectsKeep

LEMMA BeginUploadKeeps ==
    ASSUME FilesInv, NEW c \in Clients, BeginUpload(c)
    PROVE  FilesInv'
<1>1. PICK k \in Keys, z \in Sizes, op \in {"upload", "presign"} :
        /\ work[c] = Idle
        /\ Len(files) + Cardinality({d \in Clients : work[d].op \in {"upload", "presign"}}) < MaxFiles
        /\ HasCapacity(level, z, StorageLimit)
        /\ Step(c, [op |-> op, row |-> 0, key |-> k, size |-> z, step |-> "checked"])
        /\ UNCHANGED <<files, bucket, level, purge, givenTwice, halfDeleted>>
  BY DEF BeginUpload
<1>2. PICK w : w = [op |-> op, row |-> 0, key |-> k, size |-> z, step |-> "checked"]
  OBVIOUS
<1>3. w.op = op /\ w.size = z /\ w.step = "checked" /\ Step(c, w) /\ work[c].op = "none"
  BY <1>1, <1>2 DEF Idle
<1>4. z <= StorageLimit
  <2>1. level \in Nat /\ z \in Nat /\ StorageLimit \in Nat
    BY UploadSizes DEF FilesInv, FilesOK
  <2> QED
    BY <1>1, <2>1 DEF HasCapacity, NoLimit
<1>5. WorkOK(w)'
  BY <1>2, <1>4 DEF WorkOK
<1>6. ObjectsInv'
  <2>1. work[c].op # "delete" /\ w.op # "ready" /\ ~(w.op = "upload" /\ w.step = "moved")
    BY <1>3
  <2> QED
    BY <1>1, <1>3, <2>1, QuietObjects
<1>7. Len(files) + Cardinality(Uploading) < MaxFiles
  BY <1>1 DEF Uploading
<1> QED
  BY <1>1, <1>3, <1>5, <1>6, <1>7, QuietStep DEF FilesInv, FilesOK

\* The gauge statement of a request.
LEMMA MovedRecord ==
    ASSUME FilesInv, NEW c \in Clients, work[c].op # "none"
    PROVE  /\ WorkOK(Moved(c)) /\ Moved(c).op = work[c].op /\ Moved(c).size = work[c].size
           /\ Moved(c).key = work[c].key /\ Moved(c).row = work[c].row
<1>1. PICK w : w = work[c] /\ WorkOK(w) /\ w # Idle
  BY DEF FilesInv, WorkInv, Idle
<1>2. CASE \E op \in {"upload", "presign"}, k \in Keys, z \in Sizes, step \in {"checked", "moved"} :
             /\ w = [op |-> op, row |-> 0, key |-> k, size |-> z, step |-> step]
             /\ z <= StorageLimit
  <2>1. PICK op \in {"upload", "presign"}, k \in Keys, z \in Sizes, step \in {"checked", "moved"} :
             /\ w = [op |-> op, row |-> 0, key |-> k, size |-> z, step |-> step]
             /\ z <= StorageLimit
    BY <1>2
  <2>2. Moved(c) = [op |-> op, row |-> 0, key |-> k, size |-> z, step |-> "moved"]
    BY <1>1, <2>1 DEF Moved
  <2> QED
    BY <1>1, <2>1, <2>2 DEF WorkOK
<1>3. CASE \E op \in {"ready", "mismatch", "delete"}, i \in DOMAIN files, step \in {"checked", "moved"} :
             w = [op |-> op, row |-> i, key |-> files[i].key, size |-> files[i].size_bytes, step |-> step]
  <2>1. PICK op \in {"ready", "mismatch", "delete"}, i \in DOMAIN files, step \in {"checked", "moved"} :
             w = [op |-> op, row |-> i, key |-> files[i].key, size |-> files[i].size_bytes, step |-> step]
    BY <1>3
  <2>2. Moved(c) = [op |-> op, row |-> i, key |-> files[i].key, size |-> files[i].size_bytes, step |-> "moved"]
    BY <1>1, <2>1 DEF Moved
  <2> QED
    BY <1>1, <2>1, <2>2 DEF WorkOK
<1> QED
  BY <1>1, <1>2, <1>3 DEF WorkOK

LEMMA MoveUpKeeps ==
    ASSUME FilesInv, NEW c \in Clients, MoveUp(c)
    PROVE  FilesInv'
<1>1. /\ work[c].op = "upload" /\ BucketPut(work[c].key, work[c].size) /\ Step(c, Moved(c))
      /\ UNCHANGED <<files, level, purge, givenTwice, halfDeleted>>
  BY DEF MoveUp
<1>2. PICK w : w = Moved(c)
  OBVIOUS
<1>3. /\ WorkOK(w) /\ w.op = "upload" /\ w.size = work[c].size /\ w.key = work[c].key
  BY <1>1, <1>2, MovedRecord
<1>4. work[c].key \in Keys /\ work[c].size \in Sizes
  BY <1>1, WorkFields DEF FilesInv, WorkInv
<1>5. /\ bucket' \in [Keys -> Sizes \cup {NoObject}]
      /\ bucket'[w.key] # NoObject
      /\ \A k \in Keys : bucket[k] # NoObject => bucket'[k] # NoObject
  BY <1>1, <1>3, <1>4, UploadSizes DEF BucketPut, FilesInv, FilesOK
<1>6. WorkOK(w)'
  BY <1>1, <1>3, WorkKeeps, SameRowsKeep
<1>7. Step(c, w)
  BY <1>1, <1>2
<1>8. ObjectsInv'
  <2>1. work[c].op # "delete" /\ w.op # "ready"
    BY <1>1, <1>3
  <2> QED
    BY <1>1, <1>5, <1>7, <2>1, QuietObjects
<1> QED
  BY <1>1, <1>3, <1>5, <1>6, <1>7, <1>8, QuietStep

LEMMA BeginCompleteKeeps ==
    ASSUME FilesInv, NEW c \in Clients, BeginComplete(c)
    PROVE  FilesInv'
<1>1. PICK i \in DOMAIN files :
        /\ work[c] = Idle
        /\ Step(c, [op |-> IF Verified(i) THEN "ready" ELSE "mismatch", row |-> i, key |-> files[i].key,
                    size |-> files[i].size_bytes, step |-> "checked"])
        /\ UNCHANGED <<files, bucket, level, purge, givenTwice, halfDeleted>>
  BY DEF BeginComplete
<1>2. PICK op, w : /\ op = IF Verified(i) THEN "ready" ELSE "mismatch"
                   /\ w = [op |-> op, row |-> i, key |-> files[i].key, size |-> files[i].size_bytes, step |-> "checked"]
  OBVIOUS
<1>3. /\ w.op = op /\ w.row = i /\ w.step = "checked" /\ work[c].op = "none" /\ Step(c, w)
      /\ w.op \in {"ready", "mismatch"} /\ (w.op = "ready" => Verified(i))
  BY <1>1, <1>2 DEF Idle
<1>4. WorkOK(w)'
  BY <1>1, <1>2 DEF WorkOK
<1>5. ObjectsInv'
  <2>1. work[c].op # "delete" /\ (w.op = "ready" => Verified(w.row)) /\ w.op # "upload" /\ w.row \in DOMAIN files
    BY <1>3
  <2> QED
    BY <1>1, <1>3, <2>1, QuietObjects
<1>6. w.op \notin {"upload", "presign"}
  BY <1>3
<1> QED
  BY <1>1, <1>3, <1>4, <1>5, <1>6, QuietStep DEF FilesInv, FilesOK

LEMMA MoveDownKeeps ==
    ASSUME FilesInv, NEW c \in Clients, MoveDown(c)
    PROVE  FilesInv'
<1>1. /\ work[c].op \in {"mismatch", "delete"} /\ Step(c, Moved(c))
      /\ UNCHANGED <<files, bucket, level, purge, givenTwice, halfDeleted>>
  BY DEF MoveDown
<1>2. PICK w : w = Moved(c)
  OBVIOUS
<1>3. WorkOK(w) /\ w.op = work[c].op /\ w.row = work[c].row
  BY <1>1, <1>2, MovedRecord
<1>4. WorkOK(w)' /\ Step(c, w)
  BY <1>1, <1>2, <1>3, WorkKeeps, SameRowsKeep
<1>5. ObjectsInv'
  <2>1. w.op # "ready" /\ w.op # "upload" /\ (work[c].op = "delete" => w.op = "delete" /\ w.row = work[c].row)
    BY <1>1, <1>3
  <2> QED
    BY <1>1, <1>4, <2>1, QuietObjects
<1>6. w.op \notin {"upload", "presign"}
  BY <1>1, <1>3
<1> QED
  BY <1>1, <1>4, <1>5, <1>6, QuietStep DEF FilesInv, FilesOK

LEMMA FailKeepsFiles ==
    ASSUME FilesInv, NEW c \in Clients, Fail(c)
    PROVE  FilesInv'
<1>1. /\ halfDeleted' = halfDeleted \cup
          {i \in DOMAIN files : work[c].op = "delete" /\ work[c].row = i /\ ~files[i].deleted}
      /\ Step(c, Idle)
      /\ UNCHANGED <<files, bucket, level, purge, givenTwice>>
  BY DEF Fail
<1>2. WorkOK(Idle)' /\ Idle.op = "none"
  BY DEF WorkOK, Idle
<1>3. ObjectsInv'
  BY <1>1, <1>2, QuietObjects
<1>4. Idle.op \notin {"upload", "presign"}
  BY <1>2
<1> QED
  BY <1>1, <1>2, <1>3, <1>4, QuietStep DEF FilesInv, FilesOK

\* The object goes while its row is still listed, and the deletion is under way.
LEMMA BeginDeleteKeeps ==
    ASSUME FilesInv, NEW c \in Clients, BeginDelete(c)
    PROVE  FilesInv'
<1>1. PICK r \in DOMAIN files :
        /\ work[c] = Idle
        /\ BucketDelete(files[r].key)
        /\ Step(c, [op |-> "delete", row |-> r, key |-> files[r].key,
                    size |-> files[r].size_bytes, step |-> "checked"])
        /\ UNCHANGED <<files, level, purge, givenTwice, halfDeleted>>
  BY DEF BeginDelete
<1>2. PICK w : w = [op |-> "delete", row |-> r, key |-> files[r].key, size |-> files[r].size_bytes, step |-> "checked"]
  OBVIOUS
<1>3. w.op = "delete" /\ w.row = r /\ work[c].op = "none" /\ Step(c, w)
  BY <1>1, <1>2 DEF Idle
<1>4. WorkOK(w)'
  BY <1>1, <1>2 DEF WorkOK
<1>5. work'[c] = w /\ \A d \in Clients \ {c} : work'[d] = work[d]
  BY <1>3 DEF Step, FilesInv, WorkInv
<1>6. /\ bucket' \in [Keys -> Sizes \cup {NoObject}]
      /\ \A k \in Keys : k # files[r].key => bucket'[k] = bucket[k]
  BY <1>1 DEF BucketDelete, FilesInv, FilesOK
<1>7. KeepRows
  BY <1>1, SameRowsKeep
<1>8. \A i \in DOMAIN files : files[i].key \in Keys
  BY FileAt DEF FilesInv, StoredFile
<1>9. ASSUME NEW i \in DOMAIN files, ~files'[i].deleted, Explained(i) PROVE Explained(i)'
  <2>1. CASE i = r
    <3>1. \E d \in Clients : work'[d].op = "delete" /\ work'[d].row = i
      BY <1>3, <1>5, <2>1
    <3> QED
      BY <3>1 DEF Explained
  <2>2. CASE i # r /\ files[i].key = files[r].key
    <3>1. \E j \in DOMAIN files' \ {i} : files'[j].key = files'[i].key
      BY <1>1, <2>2
    <3> QED
      BY <3>1 DEF Explained
  <2>3. CASE files[i].key # files[r].key
    <3>1. bucket'[files[i].key] = bucket[files[i].key]
      BY <1>6, <1>8, <2>3
    <3>2. \A d \in Clients : work[d].op = "delete" => work'[d] = work[d]
      BY <1>3, <1>5
    <3> QED
      BY <1>1, <1>7, <1>9, <3>1, <3>2, ExplainedKeeps
  <2> QED
    BY <2>1, <2>2, <2>3
<1>10. \A i \in Undeleted' : files'[i].status = "ready" \/ Completing(i)' =>
              i \in DOMAIN files /\ (files[i].status = "ready" \/ Completing(i))
  <2>1. ASSUME NEW i, Completing(i)' PROVE Completing(i)
    BY <1>3, <1>5, <2>1 DEF Completing
  <2> QED
    BY <1>1, <2>1 DEF Undeleted
<1>11. \A d \in Clients : work'[d].op = "upload" => work'[d] = work[d]
  BY <1>3, <1>5
<1>12. \A d \in Clients : work[d].op = "upload" /\ bucket[work[d].key] # NoObject =>
              \/ bucket'[work[d].key] # NoObject
              \/ \E j \in DOMAIN files' : files'[j].key = work[d].key
  <2>1. \A d \in Clients : work[d].op = "upload" => work[d].key \in Keys
    BY WorkFields DEF FilesInv, WorkInv
  <2>2. ASSUME NEW d \in Clients, work[d].op = "upload", work[d].key = files[r].key
        PROVE  \E j \in DOMAIN files' : files'[j].key = work[d].key
    BY <1>1, <2>2
  <2> QED
    BY <1>6, <2>1, <2>2
<1>13. ObjectsInv'
  BY <1>7, <1>9, <1>10, <1>11, <1>12, ObjectsKeep
<1>14. w.op \notin {"upload", "presign"}
  BY <1>3
<1> QED
  BY <1>1, <1>3, <1>4, <1>6, <1>13, <1>14, QuietStep

----------------------------------------------------------------------------
(* Requests that end, and rows that change                                 *)

LEMMA RowChanged ==
    ASSUME FilesOK, NEW i \in DOMAIN files, NEW n \in StoredFile, files' = [files EXCEPT ![i] = n],
           n.key = files[i].key, n.size_bytes = files[i].size_bytes, files[i].deleted => n.deleted
    PROVE  /\ files' \in Seq(StoredFile) /\ Len(files') = Len(files) /\ DOMAIN files' = DOMAIN files
           /\ files'[i] = n /\ \A j \in DOMAIN files \ {i} : files'[j] = files[j]
           /\ KeepRows
<1>1. i \in 1..Len(files) /\ DOMAIN files = 1..Len(files) /\ Len(files) \in Nat
  BY FileAt
<1>2. files' \in Seq(StoredFile) /\ Len(files') = Len(files)
  BY <1>1, ExceptSeq DEF FilesOK
<1> QED
  BY <1>1, <1>2 DEF KeepRows

\* A request ends, and its upload (if it is one) has become a row.
LEMMA EndedWork ==
    ASSUME FilesInv, NEW c \in Clients, Step(c, Idle), KeepRows, Len(files') \in Nat,
           Len(files') <= Len(files) + (IF work[c].op \in {"upload", "presign"} THEN 1 ELSE 0)
    PROVE  /\ WorkInv' /\ Promised \in Nat /\ Promised' = Promised - Promise(work[c])
           /\ work'[c] = Idle /\ \A d \in Clients \ {c} : work'[d] = work[d]
<1>1. WorkOK(Idle)' /\ Promise(Idle) = 0 /\ Idle.op = "none"
  BY DEF WorkOK, Promise, Idle
<1>2. /\ DOMAIN work' = Clients /\ work' = [d \in Clients |-> work'[d]]
      /\ \A d \in Clients : WorkOK(work[d])'
      /\ work'[c] = Idle /\ \A d \in Clients \ {c} : work'[d] = work[d]
  BY <1>1, StepTypes DEF FilesInv
<1>3. /\ Cardinality(Uploading) \in Nat /\ Cardinality(Uploading)' \in Nat
      /\ Cardinality(Uploading)' = Cardinality(Uploading)
            + (IF Idle.op \in {"upload", "presign"} THEN 1 ELSE 0)
            - (IF work[c].op \in {"upload", "presign"} THEN 1 ELSE 0)
  BY UploadCount DEF FilesInv
<1>4. PICK a \in Nat, b \in Nat, e \in 0..1 :
        /\ a = Cardinality(Uploading) /\ b = Cardinality(Uploading)' /\ b = a - e
        /\ e = IF work[c].op \in {"upload", "presign"} THEN 1 ELSE 0
  BY <1>1, <1>3
<1>5. Len(files)' + Cardinality(Uploading)' <= MaxFiles
  <2>1. Len(files) + a <= MaxFiles
    BY <1>4 DEF FilesInv, WorkInv
  <2>2. Len(files') <= Len(files) + e /\ Len(files) \in Nat
    BY <1>4, FileAt DEF FilesInv
  <2>3. Len(files') + b <= MaxFiles
    BY <1>4, <2>1, <2>2, FileStorageAssumption
  <2> QED
    BY <1>4, <2>3
<1>6. /\ Promised \in Nat /\ Promised' = Promised + (Promise(Idle) - Promise(work[c]))
  BY <1>1, PromiseCount DEF FilesInv
<1>7. Promise(work[c]) \in Int
  BY WorkFields, UploadSizes DEF FilesInv, WorkInv
<1> QED
  BY <1>1, <1>2, <1>5, <1>6, <1>7 DEF WorkInv

\* The requests rest while the client, the clock or the purge steps.
LEMMA RestingWork ==
    ASSUME FilesInv, UNCHANGED work, KeepRows, Len(files') = Len(files)
    PROVE  WorkInv' /\ Promised' = Promised /\ Promised \in Nat
<1>1. ASSUME NEW d \in Clients PROVE WorkOK(work[d])'
  <2>1. PICK w : w = work[d] /\ work'[d] = w
    OBVIOUS
  <2>2. WorkOK(w)
    BY <2>1 DEF FilesInv, WorkInv
  <2>3. WorkOK(w)'
    BY <2>2, WorkKeeps
  <2> QED
    BY <2>1, <2>3 DEF WorkOK
<1>2. Uploading' = Uploading
  BY DEF Uploading
<1>3. Promised' = Promised
  BY DEF Promised
<1>4. Promised \in Nat
  <2> DEFINE f == [d \in Clients |-> Promise(work[d])]
  <2>1. \A d \in Clients : f[d] \in 0..LargestUpload
    BY WorkFields DEF FilesInv, WorkInv
  <2> HIDE DEF f
  <2>2. SumFunctionOnSet(f, Clients) \in Nat
    BY <2>1, UploadSizes, FileStorageAssumption, SumBounds
  <2> QED
    BY <2>2 DEF f, Promised
<1> QED
  BY <1>1, <1>2, <1>3, <1>4 DEF FilesInv, WorkInv

\* Rows that change as little: the explanations stay.
LEMMA EndedExplained ==
    ASSUME FilesInv, KeepRows, UNCHANGED bucket, NEW i \in DOMAIN files, Explained(i),
           i \in halfDeleted => i \in halfDeleted',
           \A c \in Clients : work[c].op = "delete" /\ work[c].row = i => work'[c] = work[c]
    PROVE  Explained(i)'
BY ExplainedKeeps

LEMMA CommitReadyKeeps ==
    ASSUME FilesInv, NEW c \in Clients, CommitReady(c)
    PROVE  FilesInv'
<1>1. PICK r : /\ r = work[c].row /\ work[c].op = "ready" /\ r \notin purge
               /\ files' = [files EXCEPT ![r].status = "ready"] /\ Step(c, Idle)
               /\ UNCHANGED <<bucket, level, purge, givenTwice, halfDeleted>>
  BY DEF CommitReady, RowFree
<1>2. r \in DOMAIN files /\ Promise(work[c]) = 0
  BY <1>1, WorkFields DEF FilesInv, WorkInv, Promise
<1>3. PICK f, n : f = files[r] /\ n = [f EXCEPT !.status = "ready"]
  OBVIOUS
<1>4. f \in StoredFile
  BY <1>2, <1>3, FileAt DEF FilesInv
<1>5. n \in StoredFile /\ n.key = f.key /\ n.size_bytes = f.size_bytes /\ n.deleted = f.deleted
  BY <1>3, <1>4 DEF StoredFile
<1>6. files' = [files EXCEPT ![r] = n]
  BY <1>1, <1>3
<1>7. /\ files' \in Seq(StoredFile) /\ Len(files') = Len(files) /\ DOMAIN files' = DOMAIN files
      /\ files'[r] = n /\ \A j \in DOMAIN files \ {r} : files'[j] = files[j]
      /\ KeepRows
  BY <1>2, <1>3, <1>5, <1>6, RowChanged DEF FilesInv
<1>8. FilesOK'
  BY <1>1, <1>7 DEF FilesInv, FilesOK
<1>9. /\ WorkInv' /\ Promised' = Promised /\ Promised \in Nat
      /\ work'[c] = Idle /\ \A d \in Clients \ {c} : work'[d] = work[d]
  <2>1. Len(files') \in Nat /\ Len(files') <= Len(files) + (IF work[c].op \in {"upload", "presign"} THEN 1 ELSE 0)
    BY <1>1, <1>7, FileAt DEF FilesInv
  <2> QED
    BY <1>1, <1>2, <1>7, <2>1, EndedWork
<1>10. purge' \subseteq Stale'
  BY <1>1, <1>7 DEF FilesInv, Stale, GetScoped
<1>11. Undeleted' = Undeleted
  BY <1>3, <1>5, <1>7 DEF Undeleted
<1>12. Stored' = Stored
  <2>1. Undeleted \in SUBSET DOMAIN files
    BY DEF Undeleted
  <2> QED
    BY <1>7, <1>11, <2>1, BytesKeep DEF FilesInv, Stored, BytesOf
<1>13. ObjectsInv'
  <2>1. \A i \in DOMAIN files : ~files'[i].deleted /\ Explained(i) => Explained(i)'
    <3>1. \A d \in Clients : work[d].op = "delete" => work'[d] = work[d]
      BY <1>1, <1>9
    <3> QED
      BY <1>1, <1>7, <3>1, EndedExplained
  <2>2. \A i \in Undeleted' : files'[i].status = "ready" \/ Completing(i)' =>
              i \in DOMAIN files /\ (files[i].status = "ready" \/ Completing(i))
    <3>1. ASSUME NEW i, Completing(i)' PROVE Completing(i)
      BY <1>9, <3>1 DEF Completing, Idle
    <3>2. Completing(r)
      BY <1>1 DEF Completing
    <3>3. ASSUME NEW i \in DOMAIN files, i # r, files'[i].status = "ready" PROVE files[i].status = "ready"
      BY <1>7, <3>3
    <3> QED
      BY <1>11, <3>1, <3>2, <3>3 DEF Undeleted
  <2>3. \A d \in Clients : work'[d].op = "upload" => work'[d] = work[d]
    BY <1>9 DEF Idle
  <2> QED
    BY <1>1, <1>7, <2>1, <2>2, <2>3, ObjectsKeep
<1>14. GaugeInv'
  BY <1>1, <1>9, <1>12 DEF FilesInv, GaugeInv
<1> QED
  BY <1>8, <1>9, <1>10, <1>13, <1>14 DEF FilesInv

\* complete_upload or delete_file gives the bytes back; another request may have done so.
LEMMA CommitReleaseKeeps ==
    ASSUME FilesInv, NEW c \in Clients, CommitRelease(c)
    PROVE  FilesInv'
<1>1. PICK r, z : /\ r = work[c].row /\ z = work[c].size /\ work[c].op \in {"mismatch", "delete"} /\ r \notin purge
                  /\ level' = AdjustGauge(level, -z)
                  /\ files' = [files EXCEPT ![r].deleted = TRUE]
                  /\ givenTwice' = givenTwice + IF files[r].deleted THEN z ELSE 0
                  /\ halfDeleted' = halfDeleted \ {r}
                  /\ Step(c, Idle)
                  /\ UNCHANGED <<bucket, purge>>
  BY DEF CommitRelease, RowFree, Release
<1>2. r \in DOMAIN files /\ z = files[r].size_bytes /\ z \in Nat /\ Promise(work[c]) = 0
  BY <1>1, WorkFields, UploadSizes DEF FilesInv, WorkInv, Promise
<1>3. PICK f, n : f = files[r] /\ n = [f EXCEPT !.deleted = TRUE]
  OBVIOUS
<1>4. f \in StoredFile
  BY <1>2, <1>3, FileAt DEF FilesInv
<1>5. n \in StoredFile /\ n.key = f.key /\ n.size_bytes = f.size_bytes /\ n.deleted /\ n.status = f.status
  BY <1>3, <1>4 DEF StoredFile
<1>6. files' = [files EXCEPT ![r] = n]
  BY <1>1, <1>3
<1>7. /\ files' \in Seq(StoredFile) /\ Len(files') = Len(files) /\ DOMAIN files' = DOMAIN files
      /\ files'[r] = n /\ \A j \in DOMAIN files \ {r} : files'[j] = files[j]
      /\ KeepRows
  BY <1>2, <1>3, <1>5, <1>6, RowChanged DEF FilesInv
<1>8. level \in Nat /\ level' \in Nat /\ level' <= level /\ level' = Greatest(level - z, 0)
  BY <1>1, <1>2 DEF AdjustGauge, Greatest, FilesInv, FilesOK
<1>9. FilesOK'
  BY <1>1, <1>7, <1>8 DEF FilesInv, FilesOK
<1>10. /\ WorkInv' /\ Promised' = Promised /\ Promised \in Nat
       /\ work'[c] = Idle /\ \A d \in Clients \ {c} : work'[d] = work[d]
  <2>1. Len(files') \in Nat /\ Len(files') <= Len(files) + (IF work[c].op \in {"upload", "presign"} THEN 1 ELSE 0)
    BY <1>1, <1>7, FileAt DEF FilesInv
  <2> QED
    BY <1>1, <1>2, <1>7, <2>1, EndedWork
<1>11. purge' \subseteq Stale'
  BY <1>1, <1>7 DEF FilesInv, Stale, GetScoped
<1>12. Undeleted' = Undeleted \ {r} /\ Undeleted \in SUBSET DOMAIN files
  BY <1>5, <1>7 DEF Undeleted
<1>13. Stored \in Nat /\ Stored' = Stored - (IF files[r].deleted THEN 0 ELSE z) /\ Stored' \in Nat
  <2>1. BytesOf(Undeleted) \in Nat /\ BytesOf(Undeleted \ {r}) \in Nat
    BY <1>12, BytesType DEF FilesInv
  <2>2. Stored' = BytesOf(Undeleted \ {r})
    <3>1. Undeleted \ {r} \in SUBSET DOMAIN files
      BY <1>12
    <3> QED
      BY <1>7, <1>12, <3>1, BytesKeep DEF FilesInv, Stored, BytesOf
  <2>3. CASE files[r].deleted
    <3>1. Undeleted \ {r} = Undeleted
      BY <2>3 DEF Undeleted
    <3> QED
      BY <2>1, <2>2, <2>3, <3>1 DEF Stored
  <2>4. CASE ~files[r].deleted
    <3>1. r \in Undeleted
      BY <1>2, <2>4 DEF Undeleted
    <3>2. BytesOf(Undeleted) = z + BytesOf(Undeleted \ {r})
      BY <1>2, <1>12, <3>1, BytesType, SumTakeOut DEF FilesInv, BytesOf
    <3> QED
      BY <1>2, <2>1, <2>2, <2>4, <3>2 DEF Stored
  <2> QED
    BY <2>3, <2>4
<1>14. GaugeInv'
  <2>1. PICK s \in Nat, t \in Nat, g \in Nat, h \in {givenTwice'} :
           /\ s = Stored /\ t = Stored' /\ g = givenTwice /\ h = givenTwice'
           /\ t = s - (IF files[r].deleted THEN 0 ELSE z)
           /\ h = g + (IF files[r].deleted THEN z ELSE 0)
           /\ level <= s /\ s <= level + g
    BY <1>1, <1>13 DEF FilesInv, GaugeInv
  <2>2. level' <= t /\ t <= level' + h /\ h \in Nat
    BY <1>2, <1>8, <2>1 DEF Greatest
  <2>3. (level + Promised <= StorageLimit + (Cardinality(Clients) - 1) * LargestUpload)'
    <3>1. PICK B \in Int : B = (Cardinality(Clients) - 1) * LargestUpload
      BY Allowance
    <3>2. level + Promised <= StorageLimit + B
      BY <3>1 DEF FilesInv, GaugeInv
    <3>3. level' + Promised <= StorageLimit + B
      BY <1>8, <1>10, <3>2, UploadSizes
    <3> QED
      BY <1>10, <3>1, <3>3
  <2> QED
    BY <2>1, <2>2, <2>3 DEF GaugeInv
<1>15. ObjectsInv'
  <2>1. \A i \in DOMAIN files : ~files'[i].deleted /\ Explained(i) => Explained(i)'
    <3>1. ASSUME NEW i \in DOMAIN files, ~files'[i].deleted PROVE i # r
      BY <1>5, <1>7, <3>1
    <3>2. ASSUME NEW i \in DOMAIN files, i # r, NEW d \in Clients, work[d].row = i PROVE work'[d] = work[d]
      BY <1>1, <1>10, <3>2
    <3> QED
      BY <1>1, <1>7, <3>1, <3>2, EndedExplained
  <2>2. \A i \in Undeleted' : files'[i].status = "ready" \/ Completing(i)' =>
              i \in DOMAIN files /\ (files[i].status = "ready" \/ Completing(i))
    <3>1. ASSUME NEW i, Completing(i)' PROVE Completing(i)
      BY <1>10, <3>1 DEF Completing, Idle
    <3>2. ASSUME NEW i \in DOMAIN files, files'[i].status = "ready" PROVE files[i].status = "ready"
      BY <1>3, <1>5, <1>7, <3>2
    <3> QED
      BY <1>12, <3>1, <3>2
  <2>3. \A d \in Clients : work'[d].op = "upload" => work'[d] = work[d]
    BY <1>10 DEF Idle
  <2> QED
    BY <1>1, <1>7, <2>1, <2>2, <2>3, ObjectsKeep
<1> QED
  BY <1>9, <1>10, <1>11, <1>14, <1>15 DEF FilesInv

\* The row of an upload, and its bytes in the gauge.
LEMMA IndexKeeps ==
    ASSUME FilesInv, NEW c \in Clients, NEW status \in {"pending", "ready"}, Index(c, status),
           work[c].op \in {"upload", "presign"},
           status = "ready" => work[c].op = "upload" /\ work[c].step = "moved"
    PROVE  FilesInv'
<1>1. PICK n, z : /\ z = work[c].size
                  /\ n = [key |-> work[c].key, size_bytes |-> z, status |-> status,
                          deleted |-> FALSE, old |-> FALSE]
                  /\ files' = Append(files, n)
                  /\ level' = AdjustGauge(level, z)
                  /\ Step(c, Idle)
                  /\ UNCHANGED <<bucket, purge, givenTwice, halfDeleted>>
  BY DEF Index
<1>2. z \in Sizes /\ z \in Nat /\ z = Promise(work[c]) /\ work[c].key \in Keys
  BY <1>1, WorkFields, UploadSizes DEF FilesInv, WorkInv, Promise
<1>3. n \in StoredFile /\ n.key = work[c].key /\ n.size_bytes = z /\ n.status = status /\ ~n.deleted
  BY <1>1, <1>2 DEF StoredFile
<1>4. PICK k : k = Len(files) + 1
  OBVIOUS
<1>5. /\ files' \in Seq(StoredFile) /\ Len(files') = Len(files) + 1 /\ Len(files) \in Nat
      /\ DOMAIN files' = DOMAIN files \cup {k} /\ k \notin DOMAIN files
      /\ \A i \in DOMAIN files : files'[i] = files[i]
      /\ files'[k] = n
  <2>1. /\ files' \in Seq(StoredFile) /\ Len(files') = Len(files) + 1
        /\ \A i \in 1..Len(files) : files'[i] = files[i] /\ files'[Len(files) + 1] = n
    BY <1>1, <1>3, AppendProperties DEF FilesInv, FilesOK
  <2>2. /\ DOMAIN files = 1..Len(files) /\ Len(files) \in Nat
        /\ DOMAIN files' = 1..Len(files')
    BY <2>1, FileAt, LenProperties DEF FilesInv
  <2>3. files'[k] = n
    BY <1>1, <1>3, <1>4, AppendProperties DEF FilesInv, FilesOK
  <2> QED
    BY <1>4, <2>1, <2>2, <2>3
<1>6. KeepRows
  BY <1>5 DEF KeepRows
<1>7. level \in Nat /\ level' = level + z
  BY <1>1, <1>2 DEF AdjustGauge, Greatest, FilesInv, FilesOK
<1>8. /\ WorkInv' /\ Promised' = Promised - z /\ Promised \in Nat
      /\ work'[c] = Idle /\ \A d \in Clients \ {c} : work'[d] = work[d]
  <2>1. Len(files') \in Nat /\ Len(files') <= Len(files) + (IF work[c].op \in {"upload", "presign"} THEN 1 ELSE 0)
    BY <1>5
  <2> QED
    BY <1>1, <1>2, <1>6, <2>1, EndedWork
<1>9. FilesOK'
  <2>1. Len(files') <= MaxFiles
    <3>1. PICK b : b = Cardinality(Uploading)' /\ Len(files') + b <= MaxFiles
      BY <1>8 DEF WorkInv
    <3>2. b \in Nat
      BY <3>1, <1>1, UploadCount DEF FilesInv
    <3> QED
      BY <1>5, <3>1, <3>2, FileStorageAssumption
  <2> QED
    BY <1>1, <1>2, <1>5, <1>7, <2>1 DEF FilesInv, FilesOK
<1>10. purge' \subseteq Stale'
  BY <1>1, <1>5 DEF FilesInv, Stale, GetScoped
<1>11. Undeleted' = Undeleted \cup {k} /\ Undeleted \in SUBSET DOMAIN files
  BY <1>3, <1>5 DEF Undeleted
<1>12. Stored \in Nat /\ Stored' = Stored + z
  <2> DEFINE g == [i \in DOMAIN files' |-> files'[i].size_bytes]
  <2>1. SumFunctionOnSet(g, Undeleted) = Stored /\ Stored \in Nat
    BY <1>6, <1>11, BytesKeep, BytesType DEF FilesInv, Stored
  <2>2. g[k] = z /\ k \notin Undeleted /\ g[k] \in Int
    BY <1>2, <1>3, <1>5, <1>11
  <2>3. Summable(g, Undeleted)
    <3>1. IsFiniteSet(Undeleted)
      BY <1>11, BytesType DEF FilesInv, Summable
    <3>2. ASSUME NEW i \in Undeleted PROVE g[i] \in Int
      <4>1. files[i] \in StoredFile /\ g[i] = files[i].size_bytes
        BY <1>5, <1>11, FileAt DEF FilesInv
      <4> QED
        BY <4>1, UploadSizes DEF StoredFile
    <3> QED
      BY <3>1, <3>2 DEF Summable
  <2>4. Stored' = SumFunctionOnSet(g, Undeleted')
    BY DEF Stored, BytesOf
  <2> HIDE DEF g
  <2>5. SumFunctionOnSet(g, Undeleted \cup {k}) = SumFunctionOnSet(g, Undeleted) + g[k]
    BY <2>2, <2>3, SumInsert
  <2> QED
    BY <1>11, <2>1, <2>2, <2>4, <2>5
<1>13. GaugeInv'
  <2>1. PICK B \in Int : B = (Cardinality(Clients) - 1) * LargestUpload
    BY Allowance
  <2>2. level + Promised <= StorageLimit + B
    BY <2>1 DEF FilesInv, GaugeInv
  <2>3. level' + Promised' <= StorageLimit + B
    BY <1>2, <1>7, <1>8, <2>2, UploadSizes
  <2>4. (givenTwice \in Nat /\ level <= Stored /\ Stored <= level + givenTwice)'
    BY <1>1, <1>2, <1>7, <1>12 DEF FilesInv, GaugeInv
  <2> QED
    BY <2>1, <2>3, <2>4 DEF GaugeInv
<1>14. ObjectsInv'
  <2>1. \A i \in DOMAIN files : ~files'[i].deleted /\ Explained(i) => Explained(i)'
    <3>1. \A d \in Clients : work[d].op = "delete" => work'[d] = work[d]
      BY <1>8
    <3> QED
      BY <1>1, <1>6, <3>1, EndedExplained
  <2>2. ASSUME NEW i \in Undeleted', files'[i].status = "ready" \/ Completing(i)'
        PROVE  \/ i \in DOMAIN files /\ (files[i].status = "ready" \/ Completing(i))
               \/ Explained(i)'
    <3>1. Completing(i)' => Completing(i)
      BY <1>8 DEF Completing, Idle
    <3>2. CASE i \in DOMAIN files
      BY <1>5, <2>2, <3>1, <3>2
    <3>3. CASE i \notin DOMAIN files
      <4>1. i = k
        BY <1>11, <3>3
      <4>2. ~Completing(i)
        BY <3>3, WorkFields DEF Completing, FilesInv, WorkInv
      <4>3. status = "ready"
        BY <1>3, <1>5, <2>2, <3>1, <4>1, <4>2
      <4>4. bucket[work[c].key] # NoObject \/ \E j \in DOMAIN files : files[j].key = work[c].key
        BY <4>3 DEF FilesInv, ObjectsInv
      <4>5. CASE bucket[work[c].key] # NoObject
        BY <1>1, <1>3, <1>5, <4>1, <4>5 DEF Explained
      <4>6. CASE \E j \in DOMAIN files : files[j].key = work[c].key
        <5>1. PICK j \in DOMAIN files : files[j].key = work[c].key
          BY <4>6
        <5>2. j \in DOMAIN files' \ {i} /\ files'[j].key = files'[i].key
          BY <1>3, <1>5, <3>3, <4>1, <5>1
        <5> QED
          BY <5>2 DEF Explained
      <4> QED
        BY <4>4, <4>5, <4>6
    <3> QED
      BY <3>2, <3>3
  <2>3. \A d \in Clients : work'[d].op = "upload" => work'[d] = work[d]
    BY <1>8 DEF Idle
  <2> QED
    BY <1>1, <1>6, <2>1, <2>2, <2>3, ObjectsKeep
<1> QED
  BY <1>8, <1>9, <1>10, <1>13, <1>14 DEF FilesInv

----------------------------------------------------------------------------
(* The client, the clock and the nightly purge                             *)

\* What is left when the requests rest and no object goes.
LEMMA RestingObjects ==
    ASSUME FilesInv, UNCHANGED work, KeepRows, DOMAIN files' = DOMAIN files,
           \A k \in Keys : bucket[k] # NoObject => bucket'[k] # NoObject,
           \A i \in DOMAIN files : /\ files'[i].status = files[i].status
                                   /\ ~files'[i].deleted /\ i \in halfDeleted => i \in halfDeleted'
    PROVE  ObjectsInv'
<1>1. \A i \in DOMAIN files : files[i].key \in Keys
  BY FileAt DEF FilesInv, StoredFile
<1>2. \A i \in DOMAIN files : ~files'[i].deleted /\ Explained(i) => Explained(i)'
  BY <1>1, ExplainedKeeps
<1>3. \A i \in Undeleted' : files'[i].status = "ready" \/ Completing(i)' =>
         i \in DOMAIN files /\ (files[i].status = "ready" \/ Completing(i))
  BY DEF Undeleted, Completing
<1>4. \A d \in Clients : work[d].op = "upload" /\ bucket[work[d].key] # NoObject => bucket'[work[d].key] # NoObject
  <2>1. \A d \in Clients : work[d].op = "upload" => work[d].key \in Keys
    BY WorkFields DEF FilesInv, WorkInv
  <2> QED
    BY <2>1
<1> QED
  BY <1>2, <1>3, <1>4, ObjectsKeep

\* Neither rows that count nor the level change.
LEMMA RestingGauge ==
    ASSUME FilesInv, UNCHANGED <<work, level, givenTwice>>, KeepRows, Undeleted' = Undeleted, Promised' = Promised
    PROVE  GaugeInv'
<1>1. Undeleted \in SUBSET DOMAIN files
  BY DEF Undeleted
<1>2. Stored' = Stored
  BY <1>1, BytesKeep DEF FilesInv, Stored, BytesOf
<1> QED
  BY <1>2 DEF FilesInv, GaugeInv

LEMMA ClientPutKeeps ==
    ASSUME FilesInv, ClientPut
    PROVE  FilesInv'
<1>1. PICK i \in DOMAIN files, z \in Sizes :
        BucketPut(files[i].key, z) /\ UNCHANGED <<files, level, work, purge, givenTwice, halfDeleted>>
  BY DEF ClientPut
<1>2. /\ bucket' \in [Keys -> Sizes \cup {NoObject}]
      /\ \A k \in Keys : bucket[k] # NoObject => bucket'[k] # NoObject
  <2>1. files[i].key \in Keys
    BY FileAt DEF FilesInv, StoredFile
  <2> QED
    BY <1>1, <2>1, UploadSizes DEF BucketPut, FilesInv, FilesOK
<1>3. KeepRows
  BY <1>1, SameRowsKeep
<1>4. FilesOK' /\ purge' \subseteq Stale' /\ Undeleted' = Undeleted
  BY <1>1, <1>2 DEF FilesInv, FilesOK, Stale, GetScoped, Undeleted
<1>5. WorkInv' /\ Promised' = Promised
  BY <1>1, <1>3, RestingWork
<1>6. ObjectsInv'
  BY <1>1, <1>2, <1>3, RestingObjects
<1>7. GaugeInv'
  BY <1>1, <1>3, <1>4, <1>5, RestingGauge
<1> QED
  BY <1>4, <1>5, <1>6, <1>7 DEF FilesInv

LEMMA AgeKeeps ==
    ASSUME FilesInv, Age
    PROVE  FilesInv'
<1>1. PICK i \in DOMAIN files :
        /\ files' = [files EXCEPT ![i].old = TRUE]
        /\ UNCHANGED <<bucket, level, work, purge, givenTwice, halfDeleted>>
  BY DEF Age
<1>2. PICK f, n : f = files[i] /\ n = [f EXCEPT !.old = TRUE]
  OBVIOUS
<1>3. f \in StoredFile
  BY <1>2, FileAt DEF FilesInv
<1>4. /\ n \in StoredFile /\ n.key = f.key /\ n.size_bytes = f.size_bytes /\ n.deleted = f.deleted
      /\ n.status = f.status /\ n.old
  BY <1>2, <1>3 DEF StoredFile
<1>5. files' = [files EXCEPT ![i] = n]
  BY <1>1, <1>2
<1>6. /\ files' \in Seq(StoredFile) /\ Len(files') = Len(files) /\ DOMAIN files' = DOMAIN files
      /\ files'[i] = n /\ \A j \in DOMAIN files \ {i} : files'[j] = files[j]
      /\ KeepRows
  BY <1>2, <1>4, <1>5, RowChanged DEF FilesInv
<1>7. FilesOK'
  BY <1>1, <1>6 DEF FilesInv, FilesOK
<1>8. \A j \in DOMAIN files : files'[j].status = files[j].status /\ files'[j].deleted = files[j].deleted
  BY <1>2, <1>4, <1>6
<1>9. Undeleted' = Undeleted
  BY <1>6, <1>8 DEF Undeleted
<1>10. purge' \subseteq Stale'
  BY <1>1, <1>2, <1>4, <1>6 DEF FilesInv, Stale, GetScoped
<1>11. WorkInv' /\ Promised' = Promised
  BY <1>1, <1>6, RestingWork
<1>12. ObjectsInv'
  BY <1>1, <1>6, <1>8, RestingObjects
<1>13. GaugeInv'
  BY <1>1, <1>6, <1>9, <1>11, RestingGauge
<1> QED
  BY <1>7, <1>10, <1>11, <1>12, <1>13 DEF FilesInv

LEMMA PurgeRowsKeep ==
    ASSUME FilesInv, PurgeMark \/ PurgeFail
    PROVE  FilesInv'
<1>1. UNCHANGED <<files, bucket, level, work, givenTwice, halfDeleted>> /\ purge' \subseteq Stale
  BY DEF PurgeMark, PurgeFail
<1>2. KeepRows /\ DOMAIN files' = DOMAIN files
  BY <1>1, SameRowsKeep
<1>3. FilesOK' /\ purge' \subseteq Stale' /\ Undeleted' = Undeleted
  BY <1>1 DEF FilesInv, FilesOK, Stale, GetScoped, Undeleted
<1>4. WorkInv' /\ Promised' = Promised
  BY <1>1, <1>2, RestingWork
<1>5. ObjectsInv'
  BY <1>1, <1>2, RestingObjects
<1>6. GaugeInv'
  BY <1>1, <1>2, <1>3, <1>4, RestingGauge
<1> QED
  BY <1>3, <1>4, <1>5, <1>6 DEF FilesInv

\* The rows the purge holds are still listed when it commits: their bytes go from both.
LEMMA PurgeCommitKeeps ==
    ASSUME FilesInv, PurgeCommit
    PROVE  FilesInv'
<1>1. /\ files' = [i \in DOMAIN files |-> [files[i] EXCEPT !.deleted = @ \/ i \in purge]]
      /\ halfDeleted' = halfDeleted \ purge
      /\ level' = AdjustGauge(level, -BytesOf(purge))
      /\ purge' = {}
      /\ UNCHANGED <<bucket, work, givenTwice>>
  BY DEF PurgeCommit
<1>2. ASSUME NEW i \in DOMAIN files
      PROVE  /\ files'[i] \in StoredFile /\ files'[i].key = files[i].key
             /\ files'[i].size_bytes = files[i].size_bytes /\ files'[i].status = files[i].status
             /\ files'[i].deleted <=> files[i].deleted \/ i \in purge
  <2>1. PICK f, n : f = files[i] /\ n = [f EXCEPT !.deleted = f.deleted \/ i \in purge]
    OBVIOUS
  <2>2. f \in StoredFile /\ (f.deleted \/ i \in purge) \in BOOLEAN
    BY <2>1, FileAt DEF FilesInv
  <2>3. /\ n \in StoredFile /\ n.key = f.key /\ n.size_bytes = f.size_bytes /\ n.status = f.status
        /\ n.deleted = (f.deleted \/ i \in purge)
    BY <2>1, <2>2 DEF StoredFile
  <2>4. files'[i] = n
    BY <1>1, <2>1
  <2> QED
    BY <2>1, <2>3, <2>4
<1>3. DOMAIN files' = DOMAIN files /\ files' \in Seq(StoredFile) /\ Len(files') = Len(files)
  <2>1. DOMAIN files = 1..Len(files) /\ Len(files) \in Nat
    BY FileAt DEF FilesInv
  <2>2. files' \in [1..Len(files) -> StoredFile]
    <3>1. \A i \in DOMAIN files : files'[i] \in StoredFile
      BY <1>2
    <3> QED
      BY <1>1, <2>1, <3>1
  <2> QED
    BY <2>1, <2>2, IsASeq, LenProperties
<1>4. KeepRows
  BY <1>2, <1>3 DEF KeepRows
<1>5. Undeleted' = Undeleted \ purge /\ Undeleted \in SUBSET DOMAIN files /\ purge \in SUBSET Undeleted
  BY <1>2, <1>3 DEF FilesInv, Undeleted, Stale, GetScoped
<1>6. PICK b \in Nat, s \in Nat, t \in Nat : b = BytesOf(purge) /\ s = Stored /\ t = Stored' /\ s = b + t
  <2>1. Undeleted \ purge \in SUBSET DOMAIN files /\ purge \in SUBSET DOMAIN files
    BY <1>5
  <2>2. Stored' = BytesOf(Undeleted \ purge)
    BY <1>4, <1>5, <2>1, BytesKeep DEF FilesInv, Stored, BytesOf
  <2>3. BytesOf(Undeleted) = BytesOf(purge) + BytesOf(Undeleted \ purge)
    BY <1>5, BytesType, SumSplit DEF FilesInv, BytesOf
  <2> QED
    BY <1>5, <2>1, <2>2, <2>3, BytesType DEF FilesInv, Stored
<1>7. level \in Nat /\ level' \in Nat /\ level' = Greatest(level - b, 0) /\ level' <= level
  BY <1>1, <1>6 DEF AdjustGauge, Greatest, FilesInv, FilesOK
<1>8. FilesOK' /\ purge' \subseteq Stale'
  BY <1>1, <1>3, <1>7 DEF FilesInv, FilesOK
<1>9. WorkInv' /\ Promised' = Promised /\ Promised \in Nat
  BY <1>1, <1>3, <1>4, RestingWork
<1>10. ObjectsInv'
  BY <1>1, <1>2, <1>3, <1>4, RestingObjects
<1>11. GaugeInv'
  <2>1. PICK B \in Int : B = (Cardinality(Clients) - 1) * LargestUpload
    BY Allowance
  <2>2. /\ level + Promised <= StorageLimit + B
        /\ givenTwice \in Nat /\ level <= s /\ s <= level + givenTwice
    BY <1>6, <2>1 DEF FilesInv, GaugeInv
  <2>3. level' + Promised <= StorageLimit + B
    BY <1>7, <1>9, <2>2, UploadSizes
  <2>4. level' <= t /\ t <= level' + givenTwice
    BY <1>6, <1>7, <2>2 DEF Greatest
  <2> QED
    BY <1>1, <1>6, <1>9, <2>1, <2>2, <2>3, <2>4 DEF GaugeInv
<1> QED
  BY <1>8, <1>9, <1>10, <1>11 DEF FilesInv

----------------------------------------------------------------------------

LEMMA FilesInitially == FilesInit => FilesInv
<1> SUFFICES ASSUME FilesInit PROVE FilesInv
  OBVIOUS
<1>1. /\ files = <<>> /\ bucket = [k \in Keys |-> NoObject] /\ level = 0
      /\ work = [c \in Clients |-> Idle] /\ purge = {} /\ givenTwice = 0 /\ halfDeleted = {}
  BY DEF FilesInit
<1>2. files \in Seq(StoredFile) /\ Len(files) = 0 /\ DOMAIN files = {}
  <2>1. <<>> \in Seq(StoredFile) /\ Len(<<>>) = 0 /\ DOMAIN <<>> = {}
    BY EmptySeq
  <2> QED
    BY <1>1, <2>1
<1>3. FilesOK
  <2>1. bucket \in [Keys -> Sizes \cup {NoObject}]
    BY <1>1
  <2> QED
    BY <1>1, <1>2, <2>1, FileStorageAssumption DEF FilesOK
<1>4. Uploading = {} /\ WorkInv
  <2>1. Uploading = {}
    BY <1>1 DEF Uploading, Idle
  <2> QED
    BY <1>1, <1>2, <2>1, FS_EmptySet, FileStorageAssumption DEF WorkInv, WorkOK
<1>5. Undeleted = {} /\ ObjectsInv
  BY <1>1, <1>2 DEF Undeleted, ObjectsInv, Idle
<1>6. GaugeInv
  <2>1. Stored = 0
    BY <1>5, SumEmpty DEF Stored, BytesOf
  <2> DEFINE f == [c \in Clients |-> Promise(work[c])]
  <2>2. \A c \in Clients : f[c] \in 0..0
    BY <1>1 DEF Promise, Idle
  <2>3. Promised = SumFunctionOnSet(f, Clients)
    BY DEF Promised
  <2> HIDE DEF f
  <2>4. SumFunctionOnSet(f, Clients) \in Nat /\ SumFunctionOnSet(f, Clients) <= Cardinality(Clients) * 0
    BY <2>2, FileStorageAssumption, SumBounds
  <2>5. Promised = 0
    BY <2>3, <2>4, Allowance
  <2> QED
    BY <1>1, <2>1, <2>5, Allowance, UploadSizes DEF GaugeInv
<1> QED
  BY <1>1, <1>3, <1>4, <1>5, <1>6 DEF FilesInv

LEMMA FilesStep == FilesInv /\ [FilesNext]_fileVars => FilesInv'
<1> SUFFICES ASSUME FilesInv, [FilesNext]_fileVars PROVE FilesInv'
  OBVIOUS
<1>1. ASSUME NEW c \in Clients, CommitUpload(c) PROVE FilesInv'
  BY <1>1, IndexKeeps DEF CommitUpload
<1>2. ASSUME NEW c \in Clients, CommitPresign(c) PROVE FilesInv'
  BY <1>2, IndexKeeps DEF CommitPresign
<1>3. CASE UNCHANGED fileVars
  <2>1. UNCHANGED <<files, bucket, level, work, purge, givenTwice, halfDeleted>>
    BY <1>3 DEF fileVars
  <2>2. KeepRows /\ DOMAIN files' = DOMAIN files
    BY <2>1, SameRowsKeep
  <2>3. FilesOK' /\ purge' \subseteq Stale' /\ Undeleted' = Undeleted
    BY <2>1 DEF FilesInv, FilesOK, Stale, GetScoped, Undeleted
  <2>4. WorkInv' /\ Promised' = Promised
    BY <2>1, <2>2, RestingWork
  <2>5. ObjectsInv'
    BY <2>1, <2>2, RestingObjects
  <2>6. GaugeInv'
    BY <2>1, <2>2, <2>3, <2>4, RestingGauge
  <2> QED
    BY <2>3, <2>4, <2>5, <2>6 DEF FilesInv
<1> QED
  BY <1>1, <1>2, <1>3, ClientPutKeeps, AgeKeeps, PurgeRowsKeep, PurgeCommitKeeps, BeginUploadKeeps, MoveUpKeeps,
     BeginCompleteKeeps, CommitReadyKeeps, BeginDeleteKeeps, MoveDownKeeps, CommitReleaseKeeps, FailKeepsFiles
     DEF FilesNext

LEMMA FilesAreSound ==
    ASSUME FilesInv
    PROVE  StorageSound
<1>1. StorageGaugeExact
  <2>1. Stored \in Nat /\ level \in Nat
    <3>1. Undeleted \in SUBSET DOMAIN files
      BY DEF Undeleted
    <3> QED
      BY <3>1, BytesType DEF FilesInv, FilesOK, Stored
  <2> QED
    BY <2>1 DEF FilesInv, GaugeInv, StorageGaugeExact
<1>2. CapacityOvershoot
  <2>1. PICK B \in Int : B = (Cardinality(Clients) - 1) * LargestUpload
    BY Allowance
  <2>2. Promised \in Nat /\ level \in Nat /\ StorageLimit \in Nat /\ givenTwice \in Nat
    <3>1. Promised \in Nat
      <4> DEFINE f == [d \in Clients |-> Promise(work[d])]
      <4>1. \A d \in Clients : f[d] \in 0..LargestUpload
        BY WorkFields DEF FilesInv, WorkInv
      <4> HIDE DEF f
      <4>2. SumFunctionOnSet(f, Clients) \in Nat
        BY <4>1, UploadSizes, FileStorageAssumption, SumBounds
      <4> QED
        BY <4>2 DEF f, Promised
    <3> QED
      BY <3>1, UploadSizes DEF FilesInv, FilesOK, GaugeInv
  <2>3. PICK s \in Nat : s = Stored
    <3>1. Undeleted \in SUBSET DOMAIN files
      BY DEF Undeleted
    <3> QED
      BY <3>1, BytesType DEF FilesInv, Stored
  <2>4. level + Promised <= StorageLimit + B /\ s <= level + givenTwice
    BY <2>1, <2>3 DEF FilesInv, GaugeInv
  <2>5. s <= StorageLimit + B + givenTwice
    BY <2>2, <2>4
  <2> QED
    BY <2>1, <2>3, <2>5 DEF CapacityOvershoot, LargestUpload
<1>3. ReadyHasObject
  BY DEF FilesInv, ObjectsInv, Explained, ReadyHasObject
<1> QED
  BY <1>1, <1>2, <1>3 DEF FilesInv, StorageSound

\* upload_file, presign_upload, complete_upload, delete_file and purge_expired, for any
\* number of requests, files and sizes: the gauge never charges for bytes that are not
\* stored and is exact while no row was released twice; the limit is exceeded by at most
\* one upload for every other request; a listed file has its object.
THEOREM StorageIsSound == FilesSpec => []StorageSound
<1>1. FilesInit => FilesInv
  BY FilesInitially
<1>2. FilesInv /\ [FilesNext]_fileVars => FilesInv'
  BY FilesStep
<1>3. FilesInv => StorageSound
  BY FilesAreSound
<1> QED
  BY <1>1, <1>2, <1>3, PTL DEF FilesSpec
====
