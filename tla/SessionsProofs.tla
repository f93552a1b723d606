--------------------------- MODULE SessionsProofs ---------------------------
(***************************************************************************)
(* Proofs about Sessions, for any number of users, organizations, requests *)
(* and tokens and all lifetimes, and about RateLimit, which guards the     *)
(* log-in: for all limits and windows and any number of attempts.          *)
(***************************************************************************)
EXTENDS Sessions, RateLimit, SequenceTheorems, TLAPS

----------------------------------------------------------------------------
(* The inductive invariant                                                 *)

\* Links between rows stay inside the table, and a token that was rotated is
\* revoked.
LinksInv ==
    \A t \in Issued :
        /\ tokens[t].replaced_by \in Issued \cup {NoToken}
        /\ tokens[t].source \in Issued \cup {NoToken}
        /\ tokens[t].source # NoToken => tokens[tokens[t].source].revoked_at # Never
        /\ tokens[t].loaded <= tokens[t].born /\ tokens[t].born <= clock

\* A reset row that was used says so; uses lie in the past.
ResetsInv ==
    \A i \in DOMAIN resets :
        /\ resets[i].uses # {} => resets[i].used_at # Never
        /\ \A x \in resets[i].uses : x[1] <= x[2] /\ x[2] <= clock

\* What a revocation listed as not live was revoked already.
ListOK(live, known) ==
    /\ live \subseteq Issued /\ known \subseteq Issued
    /\ \A t \in known \ live : tokens[t].revoked_at # Never

\* Whoever loaded a token or a reset link did so before the others, that loaded it
\* too, committed.
RotateOK(j) ==
    /\ j.token \in Issued /\ j.at \in Times /\ j.at <= clock
    /\ \A a \in Issued : tokens[a].source = j.token => j.at <= tokens[a].born

ResetOK(j) ==
    /\ j.user \in Users /\ j.at \in Times /\ j.at <= clock
    /\ j.reset \in DOMAIN resets
    /\ \A y \in resets[j.reset].uses : j.at <= y[2]

JobOK(j) ==
    /\ j.op = "mint" => j.user \in Users /\ j.org \in Orgs \cup {NoOrg}
    /\ j.op = "rotate" => RotateOK(j)
    /\ j.op = "reuse" => j.user \in Users
    /\ j.op \in {"reset", "resetCommit"} => ResetOK(j)
    /\ j.op \in {"reuseCommit", "resetCommit"} => ListOK(j.live, j.known)
    /\ j.op = "logout" => j.token \in Issued

JobsInv == job = [s \in Slots |-> job[s]] /\ \A s \in Slots : JobOK(job[s])

IInv == SessionsSound /\ OverlapsOnly /\ LinksInv /\ ResetsInv /\ JobsInv

----------------------------------------------------------------------------
(* How a step may change the tables                                        *)

\* The rows of a table stay: revoked ones revoked, linked ones linked.
Later ==
    /\ Issued \subseteq Issued'
    /\ \A t \in Issued :
          /\ tokens'[t].user = tokens[t].user /\ tokens'[t].org = tokens[t].org
          /\ tokens'[t].source = tokens[t].source
          /\ tokens'[t].loaded = tokens[t].loaded /\ tokens'[t].born = tokens[t].born
          /\ tokens[t].revoked_at # Never => tokens'[t].revoked_at # Never
          /\ tokens[t].replaced_by # NoToken => tokens'[t].replaced_by # NoToken

Fresh == Issued' \ Issued

\* A link that changes points to the new row, which continues the session.
LinksTo(t) ==
    \/ tokens'[t].replaced_by = tokens[t].replaced_by
    \/ /\ tokens'[t].replaced_by \in Fresh
       /\ LET n == tokens'[tokens'[t].replaced_by] IN
          n.user = tokens[t].user /\ n.org = tokens[t].org /\ n.source = t

\* A new row is minted now, for a source that was loaded before its other successors
\* were committed.
FreshOK(n) ==
    /\ tokens'[n].replaced_by = NoToken
    /\ tokens'[n].born = clock /\ tokens'[n].loaded <= clock
    /\ \/ tokens'[n].source = NoToken
       \/ /\ tokens'[n].source \in Issued
          /\ tokens'[tokens'[n].source].revoked_at # Never
          /\ \A a \in Issued : tokens[a].source = tokens'[n].source
                                  => tokens'[n].loaded <= tokens[a].born

TableStep ==
    /\ tokens' \in Seq(RefreshToken) /\ Len(tokens') <= MaxTokens
    /\ Later
    /\ \A t \in Issued : LinksTo(t)
    /\ \A n \in Fresh : FreshOK(n)
    /\ \A m, n \in Fresh : m = n

ResetStep ==
    /\ DOMAIN resets \subseteq DOMAIN resets'
    /\ \A i \in DOMAIN resets : \A y \in resets'[i].uses : y \in resets[i].uses \/ y[2] = clock

\* Time does not go back.
ClockStep == clock' \in Times /\ clock <= clock'

----------------------------------------------------------------------------
LEMMA RowType ==
    ASSUME tokens \in Seq(RefreshToken), NEW t \in Issued
    PROVE  tokens[t] \in RefreshToken
BY LenProperties DEF Issued

LEMMA ClockType == TypeOK => clock \in Nat
BY SessionAssumption DEF TypeOK, Times

\* The columns of a token.
LEMMA Columns ==
    ASSUME NEW row \in RefreshToken
    PROVE  /\ row.user \in Users /\ row.org \in Orgs \cup {NoOrg}
           /\ row.revoked_at \in Times \cup {Never}
           /\ row.replaced_by \in Ids /\ row.source \in Ids
           /\ row.loaded \in Times /\ row.born \in Times
BY DEF RefreshToken

LEMMA TableKept ==
    ASSUME IInv, TableStep, ClockStep
    PROVE  LinksInv' /\ RotationKeepsSession' /\ BranchesOverlap'
<1>0. /\ LinksInv /\ RotationKeepsSession /\ BranchesOverlap
      /\ \A t \in Issued : tokens[t] \in RefreshToken
      /\ \A t \in Issued' : tokens'[t] \in RefreshToken
      /\ clock \in Nat /\ clock' \in Nat /\ clock <= clock'
  BY LenProperties, ClockType, SessionAssumption
     DEF IInv, SessionsSound, OverlapsOnly, TypeOK, TableStep, ClockStep, Times, Issued
<1>a. /\ \A t \in Issued : tokens[t].loaded \in Nat /\ tokens[t].born \in Nat
      /\ \A t \in Issued' : tokens'[t].loaded \in Nat /\ tokens'[t].born \in Nat
  BY <1>0, Columns, SessionAssumption DEF Times
<1>b. NoToken \notin Issued /\ NoToken \notin Issued'
  BY LenProperties DEF IInv, SessionsSound, TypeOK, TableStep, Issued, NoToken
<1> USE DEF TableStep
<1>1. LinksInv'
  <2> SUFFICES ASSUME NEW t \in Issued'
               PROVE  /\ tokens'[t].replaced_by \in Issued' \cup {NoToken}
                      /\ tokens'[t].source \in Issued' \cup {NoToken}
                      /\ tokens'[t].source # NoToken => tokens'[tokens'[t].source].revoked_at # Never
                      /\ tokens'[t].loaded <= tokens'[t].born /\ tokens'[t].born <= clock'
    BY DEF LinksInv
  <2>1. CASE t \in Issued
    BY <1>0, <1>a, <2>1 DEF LinksInv, Later, LinksTo, Fresh
  <2>2. CASE t \in Fresh
    BY <1>0, <1>a, <2>2 DEF FreshOK, Later, Fresh
  <2> QED
    BY <2>1, <2>2 DEF Fresh
<1>2. RotationKeepsSession'
  <2> SUFFICES ASSUME NEW t \in Issued', tokens'[t].replaced_by # NoToken
               PROVE  LET n == tokens'[tokens'[t].replaced_by] IN
                      n.user = tokens'[t].user /\ n.org = tokens'[t].org /\ n.source = t
    BY DEF RotationKeepsSession
  <2>1. t \in Issued
    BY DEF FreshOK, Fresh
  <2>2. CASE tokens'[t].replaced_by = tokens[t].replaced_by
    <3>1. tokens[t].replaced_by \in Issued
      BY <1>0, <2>1, <2>2 DEF LinksInv
    <3> QED
      BY <1>0, <2>1, <2>2, <3>1 DEF RotationKeepsSession, Later
  <2>3. CASE tokens'[t].replaced_by # tokens[t].replaced_by
    BY <2>1, <2>3 DEF LinksTo, Later
  <2> QED
    BY <2>2, <2>3
<1>3. BranchesOverlap'
  <2> SUFFICES ASSUME NEW a \in Issued', NEW b \in Issued', tokens'[a].source # NoToken,
                      tokens'[a].source = tokens'[b].source
               PROVE  tokens'[b].loaded <= tokens'[a].born
    BY DEF BranchesOverlap
  <2>1. CASE a \in Issued /\ b \in Issued
    BY <1>0, <2>1 DEF BranchesOverlap, Later
  <2>2. CASE a \in Issued /\ b \in Fresh
    BY <1>0, <2>2 DEF FreshOK, Later
  <2>3. CASE a \in Fresh /\ b \in Issued
    <3>1. tokens'[a].born = clock
      BY <2>3 DEF FreshOK
    <3>2. tokens'[b].loaded <= clock
      BY <1>0, <1>a, <2>3 DEF LinksInv, Later
    <3> QED
      BY <3>1, <3>2
  <2>4. CASE a \in Fresh /\ b \in Fresh
    BY <2>4 DEF FreshOK
  <2> QED
    BY <2>1, <2>2, <2>3, <2>4 DEF Fresh
<1> QED
  BY <1>1, <1>2, <1>3

\* A request under way does not lose what it knows to a step of another.
LEMMA JobKept ==
    ASSUME IInv, TableStep, ResetStep, ClockStep, NEW j, JobOK(j)
    PROVE  JobOK(j)'
<1>0. clock \in Nat /\ clock' \in Nat /\ clock <= clock'
  BY ClockType, SessionAssumption DEF IInv, SessionsSound, ClockStep, Times
<1>1. j.op = "rotate" => RotateOK(j)'
  <2> SUFFICES ASSUME RotateOK(j) PROVE RotateOK(j)'
    BY DEF JobOK
  <2>1. j.token \in Issued' /\ j.at \in Times /\ j.at \in Nat /\ j.at <= clock /\ j.at <= clock'
    BY <1>0, SessionAssumption DEF RotateOK, TableStep, Later, Times
  <2>2. ASSUME NEW a \in Issued', tokens'[a].source = j.token
        PROVE  j.at <= tokens'[a].born
    <3>1. CASE a \in Issued
      BY <2>2, <3>1 DEF RotateOK, TableStep, Later
    <3>2. CASE a \in Fresh
      BY <2>1, <3>2 DEF TableStep, FreshOK
    <3> QED
      BY <3>1, <3>2 DEF Fresh
  <2> QED
    BY <2>1, <2>2 DEF RotateOK
<1>2. j.op \in {"reset", "resetCommit"} => ResetOK(j)'
  <2> SUFFICES ASSUME ResetOK(j) PROVE ResetOK(j)'
    BY DEF JobOK
  <2>1. j.at \in Nat /\ j.at <= clock /\ j.at <= clock'
    BY <1>0, SessionAssumption DEF ResetOK, Times
  <2> QED
    BY <2>1 DEF ResetOK, ResetStep
<1>3. j.op \in {"reuseCommit", "resetCommit"} => ListOK(j.live, j.known)'
  BY DEF JobOK, ListOK, TableStep, Later
<1>4. j.op = "logout" => j.token \in Issued'
  BY DEF JobOK, TableStep, Later
<1> QED
  BY <1>1, <1>2, <1>3, <1>4 DEF JobOK

----------------------------------------------------------------------------
(* Facts about the operators                                               *)

LEMMA IssuedRange ==
    ASSUME tokens \in Seq(RefreshToken)
    PROVE  Len(tokens) \in Nat /\ Issued = 1..Len(tokens)
BY LenProperties DEF Issued

LEMMA SameTable ==
    ASSUME TypeOK, UNCHANGED tokens
    PROVE  TableStep
BY DEF TypeOK, TableStep, Later, LinksTo, Fresh, Issued

NewRow(u, o, from, at) ==
    [user |-> u, org |-> o, expires_at |-> clock + TokenLife, access |-> clock + AccessLife,
     revoked_at |-> Never, replaced_by |-> NoToken, source |-> from, loaded |-> at, born |-> clock]

\* issue_tokens adds one row and leaves the others alone.
LEMMA MintFacts ==
    ASSUME TypeOK, Room, NEW u \in Users, NEW o \in Orgs \cup {NoOrg},
           NEW from \in Ids, NEW at \in Times
    PROVE  /\ NewRow(u, o, from, at) \in RefreshToken
           /\ Mint(u, o, from, at) \in Seq(RefreshToken)
           /\ Len(Mint(u, o, from, at)) = Len(tokens) + 1
           /\ \A t \in Issued : Mint(u, o, from, at)[t] = tokens[t]
           /\ Mint(u, o, from, at)[Len(tokens) + 1] = NewRow(u, o, from, at)
<1>1. tokens \in Seq(RefreshToken) /\ clock \in Times /\ clock \in Nat
  BY ClockType DEF TypeOK
<1>2. NewRow(u, o, from, at) \in RefreshToken
  BY <1>1, SessionAssumption DEF NewRow, RefreshToken, Ids, Never, NoToken
<1>3. Mint(u, o, from, at) = Append(tokens, NewRow(u, o, from, at))
  BY DEF Mint, NewRow, AccessUntil
<1> QED
  BY <1>1, <1>2, <1>3, IssuedRange

LEMMA RevokedColumns ==
    ASSUME NEW row \in RefreshToken, NEW at \in Times,
           NEW new, new = [row EXCEPT !.revoked_at = at]
    PROVE  /\ new \in RefreshToken /\ new.revoked_at = at
           /\ new.user = row.user /\ new.org = row.org /\ new.source = row.source
           /\ new.loaded = row.loaded /\ new.born = row.born /\ new.replaced_by = row.replaced_by
BY DEF RefreshToken

\* A revocation writes one column.
LEMMA RevokedFacts ==
    ASSUME clock \in Times, NEW table \in Seq(RefreshToken), NEW live
    PROVE  LET new == Revoked(table, live) IN
           /\ new \in Seq(RefreshToken) /\ Len(new) = Len(table) /\ DOMAIN new = DOMAIN table
           /\ \A t \in DOMAIN table :
                /\ new[t].user = table[t].user /\ new[t].org = table[t].org
                /\ new[t].source = table[t].source /\ new[t].loaded = table[t].loaded
                /\ new[t].born = table[t].born /\ new[t].replaced_by = table[t].replaced_by
                /\ table[t].revoked_at # Never => new[t].revoked_at # Never
                /\ t \in live => new[t].revoked_at # Never
<1> DEFINE new == Revoked(table, live)
<1>1. Len(table) \in Nat /\ DOMAIN table = 1..Len(table) /\ table \in [1..Len(table) -> RefreshToken]
  BY LenProperties
<1>2. \A t \in 1..Len(table) :
         new[t] = IF t \in live THEN [table[t] EXCEPT !.revoked_at = clock] ELSE table[t]
  BY <1>1 DEF Revoked
<1>3. ASSUME NEW t \in 1..Len(table)
      PROVE  new[t] \in RefreshToken
  <2>1. table[t] \in RefreshToken
    BY <1>1
  <2>2. [table[t] EXCEPT !.revoked_at = clock] \in RefreshToken
    BY <2>1, RevokedColumns, Zenon
  <2> QED
    BY <1>2, <2>1, <2>2, Zenon
<1>4. new \in [1..Len(table) -> RefreshToken]
  BY <1>1, <1>3 DEF Revoked
<1>5. new \in Seq(RefreshToken) /\ Len(new) = Len(table) /\ DOMAIN new = DOMAIN table
  BY <1>1, <1>4, SeqDef
<1>6. clock # Never
  BY SessionAssumption DEF Times, Never
<1>7. ASSUME NEW t \in DOMAIN table
      PROVE  /\ new[t].user = table[t].user /\ new[t].org = table[t].org
             /\ new[t].source = table[t].source /\ new[t].loaded = table[t].loaded
             /\ new[t].born = table[t].born /\ new[t].replaced_by = table[t].replaced_by
             /\ table[t].revoked_at # Never => new[t].revoked_at # Never
             /\ t \in live => new[t].revoked_at # Never
  <2>1. CASE t \in live
    <3>1. table[t] \in RefreshToken /\ new[t] = [table[t] EXCEPT !.revoked_at = clock]
      BY <1>1, <1>2, <2>1
    <3> DEFINE row == table[t]
    <3> HIDE DEF new, row
    <3>2. row \in RefreshToken /\ new[t] = [row EXCEPT !.revoked_at = clock]
      BY <3>1 DEF row
    <3>3. /\ new[t].revoked_at = clock
          /\ new[t].user = row.user /\ new[t].org = row.org /\ new[t].source = row.source
          /\ new[t].loaded = row.loaded /\ new[t].born = row.born
          /\ new[t].replaced_by = row.replaced_by
      BY <3>2, RevokedColumns
    <3> QED
      BY <1>6, <3>3 DEF row
  <2>2. CASE t \notin live
    BY <1>1, <1>2, <2>2
  <2> QED
    BY <2>1, <2>2
<1> HIDE DEF new
<1>8. /\ new \in Seq(RefreshToken) /\ Len(new) = Len(table) /\ DOMAIN new = DOMAIN table
      /\ \A t \in DOMAIN table :
                /\ new[t].user = table[t].user /\ new[t].org = table[t].org
                /\ new[t].source = table[t].source /\ new[t].loaded = table[t].loaded
                /\ new[t].born = table[t].born /\ new[t].replaced_by = table[t].replaced_by
                /\ table[t].revoked_at # Never => new[t].revoked_at # Never
                /\ t \in live => new[t].revoked_at # Never
  BY <1>5, <1>7
<1> QED
  BY <1>8 DEF new

\* The three ways the table changes.
LEMMA RevokeTable ==
    ASSUME TypeOK, NEW live, tokens' = Revoked(tokens, live)
    PROVE  TableStep /\ \A t \in live \cap Issued : tokens'[t].revoked_at # Never
<1>1. tokens \in Seq(RefreshToken) /\ clock \in Times /\ Len(tokens) <= MaxTokens
  BY DEF TypeOK
<1>2. /\ tokens' \in Seq(RefreshToken) /\ Len(tokens') = Len(tokens) /\ Issued' = Issued
      /\ \A t \in Issued :
           /\ tokens'[t].user = tokens[t].user /\ tokens'[t].org = tokens[t].org
           /\ tokens'[t].source = tokens[t].source /\ tokens'[t].loaded = tokens[t].loaded
           /\ tokens'[t].born = tokens[t].born /\ tokens'[t].replaced_by = tokens[t].replaced_by
           /\ tokens[t].revoked_at # Never => tokens'[t].revoked_at # Never
           /\ t \in live => tokens'[t].revoked_at # Never
  BY <1>1, RevokedFacts DEF Issued
<1> QED
  BY <1>1, <1>2 DEF TableStep, Later, LinksTo, Fresh

LEMMA MintTable ==
    ASSUME TypeOK, Room, NEW u \in Users, NEW o \in Orgs \cup {NoOrg}, NEW live,
           live \subseteq Issued,
           tokens' = Revoked(Mint(u, o, NoToken, clock), live) \/ (tokens' = Mint(u, o, NoToken, clock) /\ live = {})
    PROVE  TableStep /\ \A t \in live : tokens'[t].revoked_at # Never
<1> DEFINE table == Mint(u, o, NoToken, clock)
           n == Len(tokens) + 1
<1>1. tokens \in Seq(RefreshToken) /\ clock \in Times /\ clock \in Nat /\ Len(tokens) <= MaxTokens
  BY ClockType DEF TypeOK
<1>2. Len(tokens) \in Nat /\ Issued = 1..Len(tokens) /\ n <= MaxTokens
  BY <1>1, IssuedRange, SessionAssumption DEF Room
<1>3. /\ table \in Seq(RefreshToken) /\ Len(table) = n /\ DOMAIN table = 1..n
      /\ \A t \in Issued : table[t] = tokens[t]
      /\ table[n] = NewRow(u, o, NoToken, clock)
  <2>1. NoToken \in Ids
    BY SessionAssumption DEF Ids, NoToken
  <2>2. /\ table \in Seq(RefreshToken) /\ Len(table) = n
        /\ \A t \in Issued : table[t] = tokens[t]
        /\ table[n] = NewRow(u, o, NoToken, clock)
    BY <1>1, <2>1, MintFacts
  <2> HIDE DEF table
  <2> QED
    BY <2>2, LenProperties
<1>4. /\ tokens' \in Seq(RefreshToken) /\ Len(tokens') = n /\ Issued' = 1..n
      /\ \A t \in 1..n :
           /\ tokens'[t].user = table[t].user /\ tokens'[t].org = table[t].org
           /\ tokens'[t].source = table[t].source /\ tokens'[t].loaded = table[t].loaded
           /\ tokens'[t].born = table[t].born /\ tokens'[t].replaced_by = table[t].replaced_by
           /\ table[t].revoked_at # Never => tokens'[t].revoked_at # Never
           /\ t \in live => tokens'[t].revoked_at # Never
  <2> HIDE DEF table, n
  <2>1. tokens' = Revoked(table, live) \/ (tokens' = table /\ live = {})
    BY DEF table
  <2> QED
    BY <1>1, <1>3, <2>1, RevokedFacts DEF Issued
<1>5. /\ table[n].source = NoToken /\ table[n].born = clock /\ table[n].loaded = clock
      /\ table[n].replaced_by = NoToken
  BY <1>3 DEF NewRow
<1> HIDE DEF table
<1>6. Fresh = {n}
  BY <1>2, <1>4 DEF Fresh
<1>7. Later /\ \A t \in Issued : LinksTo(t)
  BY <1>2, <1>3, <1>4 DEF Later, LinksTo
<1>8. FreshOK(n)
  BY <1>1, <1>2, <1>4, <1>5 DEF FreshOK
<1>9. \A t \in live : t \in 1..n
  BY <1>2
<1> QED
  BY <1>2, <1>4, <1>6, <1>7, <1>8, <1>9 DEF TableStep

LEMMA RotateTable ==
    ASSUME IInv, Room, NEW j, RotateOK(j), tokens' = Rotated(j.token, j.at)
    PROVE  TableStep
<1> DEFINE t0 == j.token
           old == tokens[t0]
           table == Mint(old.user, old.org, t0, j.at)
           n == Len(tokens) + 1
           new == [[old EXCEPT !.revoked_at = j.at] EXCEPT !.replaced_by = n]
<1>0. TypeOK
  BY DEF IInv, SessionsSound
<1>1. /\ tokens \in Seq(RefreshToken) /\ clock \in Times /\ clock \in Nat /\ Len(tokens) <= MaxTokens
      /\ t0 \in Issued /\ j.at \in Times /\ j.at \in Nat /\ j.at <= clock
  BY <1>0, ClockType, SessionAssumption DEF TypeOK, RotateOK, Times
<1>2. Len(tokens) \in Nat /\ Issued = 1..Len(tokens) /\ n <= MaxTokens /\ n \in Ids /\ t0 \in Ids /\ t0 # n
  BY <1>1, IssuedRange, SessionAssumption DEF Room, Ids
<1>3. old \in RefreshToken /\ old.user \in Users /\ old.org \in Orgs \cup {NoOrg}
  BY <1>1, RowType, Columns
<1>4. /\ table \in Seq(RefreshToken) /\ Len(table) = n
      /\ \A t \in Issued : table[t] = tokens[t]
      /\ table[n] = NewRow(old.user, old.org, t0, j.at)
  <2>1. \A u \in Users, o \in Orgs \cup {NoOrg}, from \in Ids, at \in Times :
          /\ Mint(u, o, from, at) \in Seq(RefreshToken)
          /\ Len(Mint(u, o, from, at)) = n
          /\ \A t \in Issued : Mint(u, o, from, at)[t] = tokens[t]
          /\ Mint(u, o, from, at)[n] = NewRow(u, o, from, at)
    BY <1>0, MintFacts
  <2>2. old.user \in Users /\ old.org \in Orgs \cup {NoOrg} /\ t0 \in Ids /\ j.at \in Times
    BY <1>1, <1>2, <1>3
  <2> HIDE DEF t0, old, n
  <2> QED
    BY <2>1, <2>2, Zenon
<1>5. /\ new \in RefreshToken /\ new.revoked_at = j.at /\ new.replaced_by = n
      /\ new.user = old.user /\ new.org = old.org /\ new.source = old.source
      /\ new.loaded = old.loaded /\ new.born = old.born
  <2> HIDE DEF old
  <2>1. [old EXCEPT !.revoked_at = j.at] \in RefreshToken
    BY <1>1, <1>3 DEF RefreshToken
  <2> QED
    BY <1>1, <1>2, <1>3, <2>1 DEF RefreshToken
<1>6. tokens' = [table EXCEPT ![t0] = new]
  BY <1>1, <1>4 DEF Rotated
<1> HIDE DEF table, new
<1>7. /\ tokens' \in Seq(RefreshToken) /\ Len(tokens') = n /\ Issued' = 1..n
      /\ tokens'[t0] = new /\ tokens'[n] = table[n]
      /\ \A t \in Issued \ {t0} : tokens'[t] = tokens[t]
  BY <1>1, <1>2, <1>4, <1>5, <1>6, ExceptSeq, LenProperties DEF Issued
<1>8. Fresh = {n}
  BY <1>2, <1>7 DEF Fresh
<1>9. j.at # Never
  BY <1>1 DEF Never
<1>10. Later
  BY <1>2, <1>5, <1>7, <1>9 DEF Later, NoToken
<1>11. /\ tokens'[n].user = old.user /\ tokens'[n].org = old.org /\ tokens'[n].source = t0
       /\ tokens'[n].loaded = j.at /\ tokens'[n].born = clock /\ tokens'[n].replaced_by = NoToken
  BY <1>4, <1>7 DEF NewRow
<1>12. \A t \in Issued : LinksTo(t)
  BY <1>5, <1>7, <1>8, <1>11 DEF LinksTo
<1>13. FreshOK(n)
  BY <1>1, <1>5, <1>7, <1>9, <1>11 DEF FreshOK, RotateOK
<1> QED
  BY <1>2, <1>7, <1>8, <1>10, <1>12, <1>13 DEF TableStep

----------------------------------------------------------------------------
(* The invariant holds initially and every step keeps it                   *)

LEMMA InitInv == Init => IInv
<1> SUFFICES ASSUME Init PROVE IInv
  OBVIOUS
<1>1. Len(tokens) = 0 /\ Len(resets) = 0 /\ Issued = {} /\ DOMAIN resets = {}
  BY DEF Init, Issued
<1>2. TypeOK
  BY <1>1, SessionAssumption DEF Init, TypeOK, Times, Idle
<1>3. JobsInv
  BY DEF Init, JobsInv, JobOK, Idle
<1>4. LinksInv /\ ResetsInv /\ OverlapsOnly /\ RotationKeepsSession /\ ListedSessionsDie
  BY <1>1 DEF Init, LinksInv, ResetsInv, OverlapsOnly, BranchesOverlap, ResetOnce,
      RotationKeepsSession, ListedSessionsDie
<1> QED
  BY <1>2, <1>3, <1>4 DEF IInv, SessionsSound

Operations == {"idle", "mint", "rotate", "reuse", "reuseCommit", "logout", "reset", "resetCommit"}

\* What is left to show of a step once the tables are known to move on.
ResetsKept ==
    /\ resets' \in Seq(PasswordResetToken) /\ Len(resets') <= MaxResets
    /\ ResetStep /\ ResetsInv' /\ ResetOnce'

DoomedKept ==
    /\ doomed' \subseteq Issued'
    /\ \A t \in doomed' \ doomed : tokens'[t].revoked_at # Never

JobMoves ==
    \/ UNCHANGED job
    \/ \E s \in Slots : \E j : Becomes(s, j) /\ JobOK(j)' /\ j.op \in Operations

LEMMA StepKeeps ==
    ASSUME IInv, TableStep, ClockStep, ResetsKept, DoomedKept, JobMoves
    PROVE  IInv' /\ Later
<1>1. LinksInv' /\ RotationKeepsSession' /\ BranchesOverlap'
  BY TableKept
<1>2. ListedSessionsDie'
  BY DEF DoomedKept, IInv, SessionsSound, TypeOK, ListedSessionsDie, TableStep, Later
<1>3. JobsInv' /\ \A s \in Slots : job'[s].op \in Operations
  <2>0. /\ job = [s \in Slots |-> job[s]]
        /\ \A s \in Slots : job[s].op \in Operations
        /\ \A s \in Slots : \A j : j = job[s] => JobOK(j)'
    <3>1. ASSUME NEW s \in Slots, NEW j, j = job[s] PROVE JobOK(j)'
      <4>1. JobOK(j)
        BY <3>1 DEF IInv, JobsInv
      <4> QED
        BY <4>1, JobKept DEF ResetsKept
    <3> QED
      BY <3>1 DEF IInv, JobsInv, SessionsSound, TypeOK, Operations
  <2>1. CASE UNCHANGED job
    BY <2>0, <2>1 DEF JobsInv, JobOK, RotateOK, ResetOK, ListOK
  <2>2. ASSUME NEW s \in Slots, NEW j, Becomes(s, j), JobOK(j)', j.op \in Operations
        PROVE  JobsInv' /\ \A r \in Slots : job'[r].op \in Operations
    <3>1. /\ job' = [r \in Slots |-> job'[r]]
          /\ job'[s] = j /\ \A r \in Slots \ {s} : job'[r] = job[r]
      BY <2>0, <2>2 DEF Becomes
    <3> QED
      BY <2>0, <2>2, <3>1 DEF JobsInv, JobOK, RotateOK, ResetOK, ListOK
  <2> QED
    BY <2>1, <2>2 DEF JobMoves
<1>4. TypeOK'
  BY <1>3 DEF TypeOK, TableStep, ClockStep, ResetsKept, DoomedKept, Operations
<1> QED
  BY <1>1, <1>2, <1>3, <1>4 DEF IInv, SessionsSound, OverlapsOnly, ResetsKept, TableStep

LEMMA SameResets ==
    ASSUME IInv, UNCHANGED resets, ClockStep
    PROVE  ResetsKept
<1>1. clock \in Nat /\ clock' \in Nat /\ clock <= clock'
  BY ClockType, SessionAssumption DEF IInv, SessionsSound, ClockStep, Times
<1>2. resets \in Seq(PasswordResetToken) /\ Len(resets) <= MaxResets /\ ResetOnce /\ ResetsInv
  BY DEF IInv, SessionsSound, TypeOK, OverlapsOnly
<1>3. \A i \in DOMAIN resets : \A x \in resets[i].uses : x[2] \in Nat
  <2>1. \A i \in DOMAIN resets : resets[i] \in PasswordResetToken
    BY <1>2, LenProperties
  <2> QED
    BY <2>1, SessionAssumption DEF PasswordResetToken, Times
<1> QED
  BY <1>1, <1>2, <1>3 DEF ResetsKept, ResetStep, ResetsInv, ResetOnce

LEMMA SameDoomed ==
    ASSUME IInv, TableStep, UNCHANGED doomed
    PROVE  DoomedKept
BY DEF IInv, SessionsSound, TypeOK, TableStep, Later, DoomedKept

LEMMA SameClock ==
    ASSUME IInv, UNCHANGED clock
    PROVE  ClockStep
BY ClockType DEF IInv, SessionsSound, TypeOK, ClockStep

LEMMA IdleOK == JobOK(Idle)' /\ Idle.op \in Operations
BY DEF JobOK, Idle, Operations

\* Steps that only load rows.
LEMMA LoadKeeps ==
    ASSUME IInv, OnlyJob, NEW s \in Slots, NEW j, Becomes(s, j), JobOK(j), j.op \in Operations
    PROVE  IInv' /\ Later
<1>1. UNCHANGED <<clock, tokens, resets, doomed>>
  BY DEF OnlyJob, rows
<1>2. TableStep /\ ClockStep /\ ResetsKept /\ DoomedKept
  BY <1>1, SameTable, SameClock, SameResets, SameDoomed DEF IInv, SessionsSound
<1>3. JobOK(j)'
  BY <1>2, JobKept DEF ResetsKept
<1> QED
  BY <1>2, <1>3, StepKeeps DEF JobMoves

\* POST /auth/reset-password: one more use of a link that nobody had used when it
\* was loaded.
LEMMA ResetCommitKeeps == ASSUME IInv, NEW s \in Slots, ResetCommit(s) PROVE IInv' /\ Later
<1> DEFINE j == job[s]
           i == j.reset
           old == resets[i]
           use == <<j.at, clock>>
           new == [[old EXCEPT !.used_at = clock] EXCEPT !.uses = old.uses \cup {use}]
<1>0. /\ TypeOK /\ ResetsInv /\ ResetOnce
      /\ resets \in Seq(PasswordResetToken) /\ Len(resets) <= MaxResets
      /\ clock \in Times /\ clock \in Nat /\ clock # Never
  BY ClockType DEF IInv, SessionsSound, OverlapsOnly, TypeOK, Never
<1>1. ResetOK(j) /\ ListOK(j.live, j.known) /\ Room
  BY DEF IInv, JobsInv, JobOK, ResetCommit
<1>2. Becomes(s, Idle) /\ UNCHANGED clock
  BY DEF ResetCommit
<1>3. TableStep /\ \A t \in j.live : tokens'[t].revoked_at # Never
  <2>1. /\ tokens' = Revoked(Mint(j.user, NoOrg, NoToken, clock), j.live)
        /\ j.user \in Users /\ j.live \subseteq Issued
    BY <1>1 DEF ResetCommit, ResetOK, ListOK
  <2> HIDE DEF j
  <2> QED
    BY <1>0, <1>1, <2>1, MintTable
<1>4. DoomedKept
  BY <1>0, <1>1, <1>3 DEF ResetCommit, DoomedKept, ListOK, TableStep, Later, TypeOK
<1>5. /\ i \in DOMAIN resets /\ old \in PasswordResetToken /\ DOMAIN resets = 1..Len(resets)
      /\ j.at \in Times /\ j.at \in Nat /\ j.at <= clock
      /\ \A y \in old.uses : j.at <= y[2]
  BY <1>0, <1>1, LenProperties, SessionAssumption DEF ResetOK, Times
<1>6. resets' = [resets EXCEPT ![i] = new]
  BY <1>5 DEF ResetCommit
<1>7. /\ new \in PasswordResetToken /\ new.used_at = clock /\ new.uses = old.uses \cup {use}
  <2>1. old.uses \cup {use} \in SUBSET (Times \X Times)
    BY <1>0, <1>5 DEF PasswordResetToken
  <2> HIDE DEF old, use
  <2>2. [old EXCEPT !.used_at = clock] \in PasswordResetToken
    BY <1>0, <1>5 DEF PasswordResetToken
  <2> QED
    BY <1>0, <1>5, <2>1, <2>2 DEF PasswordResetToken
<1>8. \A x \in old.uses : x[1] \in Nat /\ x[2] \in Nat /\ x[1] <= clock /\ x[1] <= x[2] /\ x[2] <= clock
  <2>1. \A x \in old.uses : x[1] \in Nat /\ x[2] \in Nat
    BY <1>5, SessionAssumption DEF PasswordResetToken, Times
  <2> QED
    BY <1>0, <1>5, <2>1 DEF ResetsInv
<1>9. \A x \in new.uses :
         /\ x[1] <= x[2] /\ x[2] <= clock
         /\ x \in old.uses \/ x[2] = clock
         /\ \A y \in new.uses : x[1] <= y[2]
  <2>1. \A x, y \in old.uses : x[1] <= y[2]
    BY <1>0, <1>5 DEF ResetOnce
  <2>2. use[1] = j.at /\ use[2] = clock
    OBVIOUS
  <2> HIDE DEF use, new, old
  <2> QED
    BY <1>0, <1>5, <1>7, <1>8, <2>1, <2>2
<1> HIDE DEF new, old
<1>10. /\ resets' \in Seq(PasswordResetToken) /\ Len(resets') = Len(resets)
       /\ DOMAIN resets' = DOMAIN resets
       /\ resets'[i] = new /\ \A k \in DOMAIN resets \ {i} : resets'[k] = resets[k]
  BY <1>0, <1>5, <1>6, <1>7, ExceptSeq
<1>11. ResetsKept
  <2>1. ResetStep
    BY <1>9, <1>10 DEF ResetStep, old
  <2>2. ResetsInv'
    BY <1>0, <1>2, <1>7, <1>9, <1>10 DEF ResetsInv
  <2>3. ResetOnce'
    BY <1>0, <1>9, <1>10 DEF ResetOnce
  <2> QED
    BY <1>0, <1>10, <2>1, <2>2, <2>3 DEF ResetsKept
<1> QED
  BY <1>2, <1>3, <1>4, <1>11, SameClock, IdleOK, StepKeeps DEF JobMoves

LEMMA ForgotKeeps == ASSUME IInv, ForgotPassword PROVE IInv' /\ Later
<1>0. /\ TypeOK /\ ResetsInv /\ ResetOnce
      /\ resets \in Seq(PasswordResetToken) /\ Len(resets) <= MaxResets
      /\ clock \in Times /\ clock \in Nat
  BY ClockType DEF IInv, SessionsSound, OverlapsOnly, TypeOK
<1>1. /\ UNCHANGED <<clock, tokens, job, doomed>> /\ Len(resets) < MaxResets
      /\ \E u \in Users : resets' = Append(resets, ResetRow(u))
  BY DEF ForgotPassword
<1>2. PICK u \in Users : resets' = Append(resets, ResetRow(u))
  BY <1>1
<1>3. ResetRow(u) \in PasswordResetToken /\ ResetRow(u).uses = {}
  BY <1>0, SessionAssumption DEF ResetRow, PasswordResetToken, Never
<1>4. /\ Len(resets) \in Nat /\ DOMAIN resets = 1..Len(resets)
      /\ resets' \in Seq(PasswordResetToken) /\ Len(resets') = Len(resets) + 1
      /\ DOMAIN resets' = 1..(Len(resets) + 1)
      /\ \A k \in DOMAIN resets : resets'[k] = resets[k]
      /\ resets'[Len(resets) + 1] = ResetRow(u)
  BY <1>0, <1>2, <1>3
<1>5. ResetsKept
  BY <1>0, <1>1, <1>3, <1>4, SessionAssumption DEF ResetsKept, ResetStep, ResetsInv, ResetOnce
<1> QED
  BY <1>0, <1>1, <1>5, SameTable, SameClock, SameDoomed, StepKeeps DEF JobMoves

LEMMA SlotKeeps == ASSUME IInv, NEW s \in Slots, Handle(s) PROVE IInv' /\ Later
<1>0. /\ TypeOK /\ LinksInv /\ ResetsInv /\ ResetOnce /\ JobOK(job[s])
      /\ tokens \in Seq(RefreshToken) /\ resets \in Seq(PasswordResetToken)
      /\ clock \in Times /\ clock \in Nat
  BY ClockType DEF IInv, SessionsSound, OverlapsOnly, JobsInv, TypeOK
<1>a. \A t \in Issued : tokens[t].user \in Users
  BY <1>0, RowType, Columns
<1>b. \A i \in DOMAIN resets : resets[i] \in PasswordResetToken
  BY <1>0, LenProperties
<1>1. CASE LoginLoad(s)
  <2>1. PICK u \in Users : Becomes(s, [op |-> "mint", user |-> u, org |-> NoOrg])
    BY <1>1 DEF LoginLoad
  <2> DEFINE j == [op |-> "mint", user |-> u, org |-> NoOrg]
  <2>2. JobOK(j) /\ j.op \in Operations
    BY DEF JobOK, Operations
  <2> HIDE DEF j
  <2> QED
    BY <1>1, <2>1, <2>2, LoadKeeps DEF LoginLoad, j
<1>2. CASE SwitchLoad(s)
  <2>1. PICK t \in Issued, o \in Orgs : Becomes(s, [op |-> "mint", user |-> tokens[t].user, org |-> o])
    BY <1>2 DEF SwitchLoad
  <2> DEFINE j == [op |-> "mint", user |-> tokens[t].user, org |-> o]
  <2>2. JobOK(j) /\ j.op \in Operations
    BY <1>a DEF JobOK, Operations
  <2> QED
    BY <1>2, <2>1, <2>2, LoadKeeps DEF SwitchLoad
<1>3. CASE RefreshLoad(s)
  <2>1. PICK t \in Issued :
           \/ Usable(tokens[t]) /\ Becomes(s, [op |-> "rotate", token |-> t, at |-> clock])
           \/ Becomes(s, [op |-> "reuse", user |-> tokens[t].user])
    BY <1>3 DEF RefreshLoad
  <2>2. CASE Usable(tokens[t]) /\ Becomes(s, [op |-> "rotate", token |-> t, at |-> clock])
    <3> DEFINE j == [op |-> "rotate", token |-> t, at |-> clock]
    <3>1. \A a \in Issued : tokens[a].source # t
      BY <1>0, <2>2 DEF Usable, LinksInv, NoToken, Issued
    <3>2. JobOK(j) /\ j.op \in Operations
      BY <1>0, <3>1 DEF JobOK, RotateOK, Operations
    <3> QED
      BY <1>3, <2>2, <3>2, LoadKeeps DEF RefreshLoad
  <2>3. CASE Becomes(s, [op |-> "reuse", user |-> tokens[t].user])
    <3> DEFINE j == [op |-> "reuse", user |-> tokens[t].user]
    <3>1. JobOK(j) /\ j.op \in Operations
      BY <1>a DEF JobOK, Operations
    <3> QED
      BY <1>3, <2>3, <3>1, LoadKeeps DEF RefreshLoad
  <2> QED
    BY <2>1, <2>2, <2>3
<1>4. CASE RevokeList(s)
  <2> DEFINE u == job[s].user
             known == {t \in Issued : tokens[t].user = u}
  <2>1. ListOK(LiveOf(u), known)
    BY DEF ListOK, LiveOf
  <2>2. CASE job[s].op = "reuse"
    <3> DEFINE j == [op |-> "reuseCommit", live |-> LiveOf(u), known |-> known]
    <3>1. JobOK(j) /\ j.op \in Operations
      BY <2>1 DEF JobOK, Operations
    <3>2. Becomes(s, j) /\ OnlyJob
      BY <1>4, <2>2 DEF RevokeList
    <3> QED
      BY <3>1, <3>2, LoadKeeps
  <2>3. CASE job[s].op = "reset"
    <3> DEFINE j == [op |-> "resetCommit", user |-> u, live |-> LiveOf(u), known |-> known,
                     at |-> job[s].at, reset |-> job[s].reset]
    <3>1. ResetOK(job[s])
      BY <1>0, <2>3 DEF JobOK
    <3>2. ResetOK(j)
      BY <3>1 DEF ResetOK
    <3>3. JobOK(j) /\ j.op \in Operations
      BY <2>1, <3>2 DEF JobOK, Operations
    <3>4. Becomes(s, j) /\ OnlyJob
      BY <1>4, <2>3 DEF RevokeList
    <3> QED
      BY <3>3, <3>4, LoadKeeps
  <2> QED
    BY <1>4, <2>2, <2>3 DEF RevokeList
<1>5. CASE LogoutLoad(s)
  <2>1. PICK t \in Issued : Becomes(s, [op |-> "logout", token |-> t])
    BY <1>5 DEF LogoutLoad
  <2> DEFINE j == [op |-> "logout", token |-> t]
  <2>2. JobOK(j) /\ j.op \in Operations
    BY DEF JobOK, Operations
  <2> QED
    BY <1>5, <2>1, <2>2, LoadKeeps DEF LogoutLoad
<1>6. CASE ResetLoad(s)
  <2>1. PICK i \in DOMAIN resets :
           /\ ResetValid(resets[i])
           /\ Becomes(s, [op |-> "reset", user |-> resets[i].user, at |-> clock, reset |-> i])
    BY <1>6 DEF ResetLoad
  <2> DEFINE j == [op |-> "reset", user |-> resets[i].user, at |-> clock, reset |-> i]
  <2>2. resets[i].uses = {} /\ resets[i].user \in Users
    BY <1>0, <1>b, <2>1 DEF ResetsInv, ResetValid, PasswordResetToken
  <2>3. JobOK(j) /\ j.op \in Operations
    BY <1>0, <2>2 DEF JobOK, ResetOK, Operations
  <2> QED
    BY <1>6, <2>1, <2>3, LoadKeeps DEF ResetLoad
<1>7. CASE MintCommit(s)
  <2>1. Becomes(s, Idle) /\ UNCHANGED <<clock, resets, doomed>>
    BY <1>7 DEF MintCommit
  <2>2. TableStep
    <3>1. job[s].user \in Users /\ job[s].org \in Orgs \cup {NoOrg} /\ Room
      BY <1>0, <1>7 DEF MintCommit, JobOK
    <3>2. tokens' = Mint(job[s].user, job[s].org, NoToken, clock)
      BY <1>7 DEF MintCommit
    <3>3. ASSUME NEW u \in Users, NEW o \in Orgs \cup {NoOrg}, NEW live, live = {},
                 tokens' = Mint(u, o, NoToken, clock)
          PROVE  TableStep
      <4>1. live \subseteq Issued
        BY <3>3
      <4> QED
        BY <1>0, <3>1, <3>3, <4>1, MintTable, Zenon
    <3> QED
      BY <3>1, <3>2, <3>3
  <2> QED
    BY <2>1, <2>2, SameClock, SameResets, SameDoomed, IdleOK, StepKeeps DEF JobMoves
<1>8. CASE RefreshCommit(s)
  <2>1. Becomes(s, Idle) /\ UNCHANGED <<clock, resets, doomed>>
    BY <1>8 DEF RefreshCommit
  <2>2. TableStep
    BY <1>0, <1>8, RotateTable DEF RefreshCommit, JobOK
  <2> QED
    BY <2>1, <2>2, SameClock, SameResets, SameDoomed, IdleOK, StepKeeps DEF JobMoves
<1>9. CASE ReuseCommit(s)
  <2>1. Becomes(s, Idle) /\ UNCHANGED <<clock, resets>>
    BY <1>9 DEF ReuseCommit
  <2>2. ListOK(job[s].live, job[s].known)
    BY <1>0, <1>9 DEF ReuseCommit, JobOK
  <2>3. TableStep /\ \A t \in job[s].live \cap Issued : tokens'[t].revoked_at # Never
    BY <1>0, <1>9, RevokeTable DEF ReuseCommit
  <2>4. DoomedKept
    BY <1>0, <1>9, <2>2, <2>3 DEF ReuseCommit, DoomedKept, ListOK, TableStep, Later, TypeOK
  <2> QED
    BY <2>1, <2>3, <2>4, SameClock, SameResets, IdleOK, StepKeeps DEF JobMoves
<1>10. CASE LogoutCommit(s)
  <2>1. Becomes(s, Idle) /\ UNCHANGED <<clock, resets, doomed>>
    BY <1>10 DEF LogoutCommit
  <2>2. TableStep
    BY <1>0, <1>10, RevokeTable DEF LogoutCommit
  <2> QED
    BY <2>1, <2>2, SameClock, SameResets, SameDoomed, IdleOK, StepKeeps DEF JobMoves
<1>12. CASE Fail(s)
  BY <1>12, LoadKeeps, IdleOK DEF Fail, OnlyJob, JobOK, Idle
<1>11. CASE ResetCommit(s)
  BY <1>11, ResetCommitKeeps
<1> QED
  BY <1>1, <1>2, <1>3, <1>4, <1>5, <1>6, <1>7, <1>8, <1>9, <1>10, <1>11, <1>12 DEF Handle

LEMMA InvStep == IInv /\ [Next]_vars => IInv' /\ Later
<1> SUFFICES ASSUME IInv, [Next]_vars PROVE IInv' /\ Later
  OBVIOUS
<1>0. TypeOK /\ clock \in Nat
  BY ClockType DEF IInv, SessionsSound
<1>1. ASSUME NEW s \in Slots, Handle(s) PROVE IInv' /\ Later
  BY <1>1, SlotKeeps
<1>2. CASE ForgotPassword
  BY <1>2, ForgotKeeps
<1>3. CASE Tick
  <2>1. ClockStep
    BY <1>0, <1>3, SessionAssumption DEF Tick, ClockStep, Times
  <2> QED
    BY <1>0, <1>3, <2>1, SameTable, SameResets, SameDoomed, StepKeeps DEF Tick, rows, JobMoves
<1>4. CASE UNCHANGED vars
  BY <1>0, <1>4, SameTable, SameClock, SameResets, SameDoomed, StepKeeps DEF vars, rows, JobMoves
<1> QED
  BY <1>1, <1>2, <1>3, <1>4 DEF Next

----------------------------------------------------------------------------
\* refresh, logout, switch-org and reset-password under any overlap: a session that a
\* reuse detection or a password reset listed is dead once that has committed, and
\* rotation hands a session on to a token of the same user and organization.
THEOREM SessionsAreSound == Spec => []SessionsSound
<1>1. IInv => SessionsSound
  BY DEF IInv
<1> QED
  BY InitInv, InvStep, <1>1, PTL DEF Spec

\* Without a lock on the row, a refresh token or a reset link can be spent twice; only
\* by requests that overlapped, though: whoever loads it after the other committed
\* is refused.
THEOREM OnlyOverlapsBranch == Spec => []OverlapsOnly
<1>1. IInv => OverlapsOnly
  BY DEF IInv
<1> QED
  BY InitInv, InvStep, <1>1, PTL DEF Spec

\* A refresh token that a client was told is gone never comes back, and the link from
\* a rotated token to its successor, by which reuse is recognised, is never lost.
THEOREM RevocationStays == Spec => RevocationIsFinal
<1>1. IInv /\ [Next]_vars
        => [\A t \in Issued :
              /\ tokens[t].revoked_at # Never => tokens'[t].revoked_at # Never
              /\ tokens[t].replaced_by # NoToken => tokens'[t].replaced_by # NoToken]_vars
  BY InvStep DEF Later
<1> QED
  BY InitInv, InvStep, <1>1, PTL DEF Spec, RevocationIsFinal

----------------------------------------------------------------------------
(* The limiter in front of the credential endpoints.  What was let through *)
(* never exceeds the counter of the window, which a failed EXPIRE leaves   *)
(* in place.                                                               *)

\* The attempts that the counter of b knows of.
Known(b) == IF distributed \/ fresh[b] THEN count[b] ELSE 0

\* An attempt checks a bucket there is; only Redis needs an EXPIRE.
TryOK(q) ==
    /\ q.at \in {"check", "expire"} => q.bucket \in Buckets
    /\ q.at = "expire" => distributed

LimiterInv ==
    /\ distributed \in BOOLEAN
    /\ count \in [Buckets -> Nat] /\ ttl \in [Buckets -> {NoTtl} \cup 1..Window]
    /\ fresh \in [Buckets -> BOOLEAN] /\ passed \in [Buckets -> Nat]
    /\ DOMAIN try = Logins /\ \A a \in Logins : \A q \in {try[a]} : TryOK(q)
    /\ \A b \in Buckets : /\ passed[b] <= Limit[b] /\ passed[b] <= Known(b)
                          /\ ~distributed => ttl[b] = NoTtl

\* Counting an attempt: the n-th of a window is let through only within the limit.
LEMMA CountingBounds ==
    ASSUME LimiterInv, NEW b \in Buckets, NEW k \in Nat, passed[b] <= k
    PROVE  /\ Saturated(b, k + 1) \in Nat
           /\ Counted(b, Saturated(b, k + 1)) \in [Buckets -> Nat]
           /\ Counted(b, Saturated(b, k + 1))[b] <= Limit[b]
           /\ Counted(b, Saturated(b, k + 1))[b] <= Saturated(b, k + 1)
           /\ \A c \in Buckets \ {b} : Counted(b, Saturated(b, k + 1))[c] = passed[c]
<1>1. Limit[b] \in Nat /\ passed \in [Buckets -> Nat] /\ passed[b] \in Nat /\ passed[b] <= Limit[b]
  BY LimitAssumption DEF LimiterInv, Buckets
<1>2. PICK n \in Nat : n = Saturated(b, k + 1) /\ (n = k + 1 \/ n = Limit[b] + 1)
  BY <1>1 DEF Saturated
<1>3. CASE TooMany(b, n)
  BY <1>1, <1>2, <1>3 DEF Counted, TooMany
<1>4. CASE ~TooMany(b, n)
  <2>1. n = k + 1 /\ n <= Limit[b]
    BY <1>1, <1>2, <1>4 DEF TooMany
  <2> QED
    BY <1>1, <1>2, <1>4, <2>1 DEF Counted
<1> QED
  BY <1>3, <1>4

\* Whatever a check decides, the attempt goes on with a bucket there is.
LEMMA AfterOK ==
    ASSUME NEW b, NEW i
    PROVE  After(b, i).at # "expire" /\ (After(b, i).at = "check" => After(b, i).bucket \in Buckets)
BY LimitAssumption DEF After, NotTrying, Buckets

LEMMA TryStep ==
    ASSUME LimiterInv, NEW a \in Logins, NEW p, TryOK(p)', try' = [try EXCEPT ![a] = p],
           distributed' = distributed
    PROVE  DOMAIN try' = Logins /\ \A c \in Logins : \A q \in {try'[c]} : TryOK(q)'
<1>1. try'[a] = p /\ \A c \in Logins \ {a} : try'[c] = try[c]
  BY DEF LimiterInv
<1>2. \A q : TryOK(q) => TryOK(q)'
  BY DEF TryOK
<1> QED
  BY <1>1, <1>2 DEF LimiterInv

LEMMA DecideTry ==
    ASSUME NEW a, NEW b, NEW n, Decide(a, b, n)
    PROVE  \E p : try' = [try EXCEPT ![a] = p] /\ TryOK(p)'
<1>1. PICK p : try' = [try EXCEPT ![a] = p] /\ (p = NotTrying \/ p = After(b, try[a].identity))
  BY DEF Decide
<1>2. p.at # "expire" /\ (p.at = "check" => p.bucket \in Buckets)
  BY <1>1, AfterOK DEF NotTrying
<1> QED
  BY <1>1, <1>2 DEF TryOK

LEMMA LimiterStep ==
    ASSUME LimiterInv, NEW a \in Logins,
           StartAttempt(a) \/ CheckRedis(a) \/ Expire(a) \/ Dies(a) \/ Degraded(a) \/ CheckLocal(a)
    PROVE  LimiterInv'
<1>0. TryOK(try[a])
  BY DEF LimiterInv
<1>d. distributed' = distributed
  BY DEF StartAttempt, CheckRedis, Expire, Dies, Degraded, CheckLocal
<1>1. \E p : try' = [try EXCEPT ![a] = p] /\ TryOK(p)'
  <2>1. CASE StartAttempt(a)
    <3>1. PICK i \in BOOLEAN : try' = [try EXCEPT ![a] = [at |-> "check", bucket |-> "ip", identity |-> i]]
      BY <2>1 DEF StartAttempt
    <3>2. TryOK([at |-> "check", bucket |-> "ip", identity |-> i])'
      BY LimitAssumption DEF TryOK, Buckets
    <3> QED
      BY <3>1, <3>2
  <2>2. CASE CheckRedis(a)
    <3>1. PICK b, n : /\ b = try[a].bucket
                      /\ \/ Decide(a, b, n)
                         \/ try' = [try EXCEPT ![a] = [at |-> "expire", bucket |-> b,
                                                       identity |-> try[a].identity, n |-> n]]
      BY <2>2 DEF CheckRedis
    <3>2. TryOK([at |-> "expire", bucket |-> b, identity |-> try[a].identity, n |-> n])'
      BY <1>0, <1>d, <2>2, <3>1 DEF TryOK, CheckRedis
    <3> QED
      BY <3>1, <3>2, DecideTry
  <2>3. CASE Expire(a) \/ CheckLocal(a)
    BY <2>3, DecideTry DEF Expire, CheckLocal
  <2>4. CASE Dies(a)
    <3>1. TryOK(NotTrying)'
      BY DEF TryOK, NotTrying
    <3> QED
      BY <2>4, <3>1 DEF Dies
  <2>5. CASE Degraded(a)
    <3>1. PICK p : p = After(try[a].bucket, try[a].identity)
      OBVIOUS
    <3>2. TryOK(p)'
      BY <3>1, AfterOK DEF TryOK
    <3> QED
      BY <2>5, <3>1, <3>2 DEF Degraded
  <2> QED
    BY <2>1, <2>2, <2>3, <2>4, <2>5
<1>2. DOMAIN try' = Logins /\ \A c \in Logins : \A q \in {try'[c]} : TryOK(q)'
  BY <1>1, <1>d, TryStep
<1>3. CASE StartAttempt(a) \/ Dies(a) \/ Degraded(a)
  <2>1. UNCHANGED <<distributed, count, ttl, fresh, passed>>
    BY <1>3 DEF StartAttempt, Dies, Degraded
  <2> QED
    BY <1>2, <2>1 DEF LimiterInv, Known
<1>4. CASE CheckRedis(a)
  <2>1. PICK b \in Buckets : b = try[a].bucket /\ distributed
    BY <1>0, <1>4 DEF CheckRedis, TryOK
  <2>2. count[b] \in Nat /\ passed[b] <= count[b]
    BY <2>1 DEF LimiterInv, Known
  <2>3. PICK n \in Nat : n = Saturated(b, count[b] + 1)
    BY <2>2, CountingBounds
  <2>4. count' = [count EXCEPT ![b] = n] /\ passed' = Counted(b, n) /\ UNCHANGED <<distributed, ttl, fresh>>
    BY <1>4, <2>1, <2>3 DEF CheckRedis
  <2>5. /\ passed' \in [Buckets -> Nat] /\ passed'[b] <= Limit[b] /\ passed'[b] <= n
        /\ \A c \in Buckets \ {b} : passed'[c] = passed[c]
    BY <2>2, <2>3, <2>4, CountingBounds
  <2>6. /\ count' \in [Buckets -> Nat] /\ count'[b] = n /\ \A c \in Buckets \ {b} : count'[c] = count[c]
    BY <2>4 DEF LimiterInv
  <2>7. \A c \in Buckets : passed'[c] <= Limit[c] /\ passed'[c] <= count'[c]
    BY <2>1, <2>5, <2>6 DEF LimiterInv, Known
  <2> QED
    BY <1>2, <2>1, <2>4, <2>5, <2>6, <2>7 DEF LimiterInv, Known
<1>5. CASE Expire(a)
  <2>1. PICK b \in Buckets : b = try[a].bucket /\ distributed
    BY <1>0, <1>5 DEF Expire, TryOK
  <2>2. /\ UNCHANGED <<distributed, count, fresh, passed>>
        /\ ttl' = [ttl EXCEPT ![b] = IF count[b] = 0 THEN NoTtl ELSE Window]
    BY <1>5, <2>1 DEF Expire
  <2>3. ttl' \in [Buckets -> {NoTtl} \cup 1..Window]
    BY <2>2, LimitAssumption DEF LimiterInv
  <2> QED
    BY <1>2, <2>1, <2>2, <2>3 DEF LimiterInv, Known
<1>6. CASE CheckLocal(a)
  <2>1. PICK b \in Buckets : b = try[a].bucket /\ ~distributed
    BY <1>0, <1>6 DEF CheckLocal, TryOK
  <2>2. PICK k \in Nat : k = (IF fresh[b] THEN count[b] ELSE 0) /\ passed[b] <= k
    BY <2>1 DEF LimiterInv, Known
  <2>3. PICK n \in Nat : n = Saturated(b, k + 1)
    BY <2>2, CountingBounds
  <2>4. /\ count' = [count EXCEPT ![b] = n] /\ fresh' = [fresh EXCEPT ![b] = TRUE]
        /\ passed' = Counted(b, n) /\ UNCHANGED <<distributed, ttl>>
    BY <1>6, <2>1, <2>2, <2>3 DEF CheckLocal
  <2>5. /\ passed' \in [Buckets -> Nat] /\ passed'[b] <= Limit[b] /\ passed'[b] <= n
        /\ \A c \in Buckets \ {b} : passed'[c] = passed[c]
    BY <2>2, <2>3, <2>4, CountingBounds
  <2>6. /\ count' \in [Buckets -> Nat] /\ count'[b] = n /\ \A c \in Buckets \ {b} : count'[c] = count[c]
    BY <2>4 DEF LimiterInv
  <2>7. /\ fresh' \in [Buckets -> BOOLEAN] /\ fresh'[b] = TRUE /\ \A c \in Buckets \ {b} : fresh'[c] = fresh[c]
    BY <2>4 DEF LimiterInv
  <2>8. \A c \in Buckets : Known(c)' = IF c = b THEN n ELSE Known(c)
    BY <2>1, <2>4, <2>6, <2>7 DEF Known
  <2>9. \A c \in Buckets : passed'[c] <= Limit[c] /\ passed'[c] <= Known(c)'
    BY <2>5, <2>8 DEF LimiterInv
  <2> QED
    BY <1>2, <2>4, <2>5, <2>6, <2>7, <2>9 DEF LimiterInv
<1> QED
  BY <1>3, <1>4, <1>5, <1>6

LEMMA LimiterTime ==
    ASSUME LimiterInv, SecondPasses
    PROVE  LimiterInv'
<1> DEFINE Over == IF distributed THEN Expiring ELSE IF phase = Window - 1 THEN Buckets ELSE {}
<1>1. /\ ttl' = [b \in Buckets |-> IF ttl[b] <= 1 THEN NoTtl ELSE ttl[b] - 1]
      /\ count' = [b \in Buckets |-> IF b \in Expiring THEN 0 ELSE count[b]]
      /\ fresh' = [b \in Buckets |-> fresh[b] /\ b \notin Over]
      /\ passed' = [b \in Buckets |-> IF b \in Over THEN 0 ELSE passed[b]]
      /\ UNCHANGED <<distributed, try>>
  BY DEF SecondPasses
<1>2. distributed => Over = Expiring
  OBVIOUS
<1>3. ~distributed => Expiring = {}
  BY DEF LimiterInv, Expiring, NoTtl
<1> HIDE DEF Over
<1>4. /\ count' \in [Buckets -> Nat] /\ passed' \in [Buckets -> Nat]
  BY <1>1 DEF LimiterInv
<1>5. fresh' \in [Buckets -> BOOLEAN]
  BY <1>1
<1>6. ttl' \in [Buckets -> {NoTtl} \cup 1..Window]
  BY <1>1, LimitAssumption DEF LimiterInv, NoTtl
<1>7. ASSUME NEW b \in Buckets
      PROVE  passed'[b] <= Limit[b] /\ passed'[b] <= Known(b)' /\ (~distributed => ttl'[b] = NoTtl)
  <2>1. /\ passed[b] \in Nat /\ Limit[b] \in Nat /\ count[b] \in Nat /\ passed[b] <= Limit[b]
        /\ passed[b] <= Known(b) /\ (~distributed => ttl[b] = NoTtl)
    BY LimitAssumption DEF LimiterInv, Buckets
  <2>2. CASE b \in Over
    <3>1. passed'[b] = 0
      BY <1>1, <2>2
    <3>2. Known(b)' \in Nat
      BY <1>4 DEF Known
    <3> QED
      BY <1>1, <2>1, <3>1, <3>2 DEF NoTtl
  <2>3. CASE b \notin Over
    <3>1. passed'[b] = passed[b] /\ count'[b] = count[b] /\ fresh'[b] = (fresh[b] /\ TRUE)
      BY <1>1, <1>2, <1>3, <2>3
    <3>2. Known(b)' = Known(b)
      BY <1>1, <3>1 DEF Known
    <3> QED
      BY <1>1, <2>1, <3>1, <3>2 DEF NoTtl
  <2> QED
    BY <2>2, <2>3
<1>8. DOMAIN try' = Logins /\ \A a \in Logins : \A q \in {try'[a]} : TryOK(q)'
  BY <1>1 DEF LimiterInv, TryOK
<1> QED
  BY <1>1, <1>4, <1>5, <1>6, <1>7, <1>8 DEF LimiterInv

\* No window lets more attempts through than its limit, on Redis or in the process,
\* whatever attempts overlap and wherever a process dies or Redis fails.
THEOREM AttemptsAreLimited == LimitSpec => []WithinLimit
<1>1. LimitInit => LimiterInv
  <2> SUFFICES ASSUME LimitInit PROVE LimiterInv
    OBVIOUS
  <2>1. \A b \in Buckets : Limit[b] \in Nat
    BY LimitAssumption DEF Buckets
  <2> QED
    BY <2>1 DEF LimitInit, LimiterInv, Known, TryOK, NotTrying, NoTtl
<1>2. LimiterInv /\ [LimitNext]_limitVars => LimiterInv'
  <2>1. LimiterInv /\ UNCHANGED limitVars => LimiterInv'
    BY DEF limitVars, LimiterInv, Known, TryOK
  <2> QED
    BY <2>1, LimiterStep, LimiterTime DEF LimitNext
<1>3. LimiterInv => WithinLimit
  BY DEF LimiterInv, WithinLimit
<1> QED
  BY <1>1, <1>2, <1>3, PTL DEF LimitSpec
====
