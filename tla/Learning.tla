------------------------------ MODULE Learning ------------------------------
(***************************************************************************)
(* What becomes of a learning directive.  It is issued with a fingerprint  *)
(* of the file its role keeps its lessons in, every runtime pack of that   *)
(* role shows the ones that are pending, the role writes the file, and a   *)
(* scan that finds another fingerprint completes the directive             *)
(* (retro_prep.py, _scan_pending_learning_directives).  Scans run in the   *)
(* monitor's loop and by command, at once; each goes through a list it     *)
(* read at its start, newest first and of a limited length.                *)
(***************************************************************************)
EXTENDS Integers, FiniteSets, Functions

CONSTANTS
  Roles,
  ScanLimit,    \* the newest directives a scan looks at
  PackLimit,    \* the newest directives a pack is made from
  Unreadable,   \* whether reading a file that is there may fail
  MaxIssued,    \* bound: directives
  MaxWrites     \* bound: writes of the files

VARIABLES
  file,      \* per role, the file
  directive, \* per directive: role, baseline, state, and when its row was saved
  saves,     \* the number of rows saved so far
  scan,      \* per thread, the scan in progress
  writes

vars == <<file, directive, saves, scan, writes>>

Sum(f) == FoldFunction(+, 0, f)
Thread == {"loop", "command"}
Issued == DOMAIN directive
State == {"pending", "completed", "stale"}

\* A fingerprint: size 0 or 1, the content, the time of the last write.
Absent == [exists |-> FALSE, size |-> 0, content |-> 0, mtime |-> 0]
Idle == [pc |-> "idle", left |-> {}, given |-> {}, copy |-> <<>>, since |-> [r \in Roles |-> 0]]

TypeOK ==
  /\ \A r \in Roles : file[r].size \in 0 .. 1 /\ file[r].mtime \in 0 .. MaxWrites
  /\ Cardinality(Issued) <= MaxIssued /\ writes \in [Roles -> 0 .. MaxWrites]
  /\ \A d \in Issued : directive[d].role \in Roles /\ directive[d].state \in State /\ directive[d].saved <= saves
  /\ \A t \in Thread : scan[t].pc \in {"idle", "scan"}

Init ==
  /\ file = [r \in Roles |-> Absent]
  /\ directive = <<>> /\ saves = 0 /\ writes = [r \in Roles |-> 0]
  /\ scan = [t \in Thread |-> Idle]

-----------------------------------------------------------------------------
\* _learning_file_fingerprint: a file that cannot be read looks empty but for its
\* size and its time.
Fingerprints(r) ==
  {file[r]} \cup IF Unreadable /\ file[r].exists THEN {[file[r] EXCEPT !.content = -1]} ELSE {}

\* Mutant of Changed: any file will do.
ChangedIfThere(base, now) == now.exists /\ now.size > 0

Changed(base, now) == now.exists /\ now.size > 0 /\ (base.exists => now # base)

\* Deleted, or emptied.
Stale(base, now) ==
  \/ base.exists /\ ~now.exists
  \/ <<now.exists, now.size, now.content>> # <<base.exists, base.size, base.content>> /\ now.size = 0

\* The newest rows of the table; saving a row makes it the newest.
Recent(limit) ==
  {d \in Issued : Cardinality({e \in Issued : directive[e].saved > directive[d].saved}) < limit}

Pending(ds) == {d \in ds : directive[d].state = "pending"}

\* _pending_learning_directives_payload: of the newest of all roles, the role's own.
Shown(r) == {d \in Pending(Recent(PackLimit)) : directive[d].role = r}

-----------------------------------------------------------------------------
\* The role writes its file, with new content or none, touches it or deletes it.
Write(r) ==
  /\ Sum(writes) < MaxWrites /\ writes' = [writes EXCEPT ![r] = @ + 1]
  /\ \E new \in {[exists |-> TRUE, size |-> 1, content |-> writes[r] + 1, mtime |-> writes[r] + 1],
                 [exists |-> TRUE, size |-> 0, content |-> 0, mtime |-> writes[r] + 1],
                 [file[r] EXCEPT !.mtime = writes[r] + 1], Absent} :
       /\ new # file[r] /\ (new = Absent \/ new.exists)
       /\ file' = [file EXCEPT ![r] = new]
  /\ UNCHANGED <<directive, saves, scan>>

\* A directive for the role, with the fingerprint of the moment.
Issue(r) ==
  /\ Cardinality(Issued) < MaxIssued
  /\ \E base \in Fingerprints(r) :
       directive' = [d \in Issued \cup {Cardinality(Issued) + 1} |->
         IF d \in Issued THEN directive[d]
         ELSE [role |-> r, baseline |-> base, state |-> "pending", saved |-> saves + 1, written |-> writes[r]]]
  /\ saves' = saves + 1
  /\ UNCHANGED <<file, scan, writes>>

ScanStart(t) ==
  /\ scan[t].pc = "idle"
  /\ scan' = [scan EXCEPT ![t] =
       [pc |-> "scan", left |-> Pending(Recent(ScanLimit)), given |-> Pending(Recent(ScanLimit)),
        copy |-> directive, since |-> writes]]
  /\ UNCHANGED <<file, directive, saves, writes>>

\* save_learning_directive: the row is saved whole, and becomes the newest.
Save(d, row) ==
  /\ directive' = [directive EXCEPT ![d] = [row EXCEPT !.saved = saves + 1]]
  /\ saves' = saves + 1

\* The newest that is left: its file is looked at, and the copy the scan has read
\* is saved with the outcome, or, when it cannot be saved, left.
Look(t) ==
  /\ scan[t].left # {}
  /\ LET d == CHOOSE e \in scan[t].left : \A o \in scan[t].left : scan[t].copy[o].saved <= scan[t].copy[e].saved
         c == scan[t].copy[d]
     IN /\ scan' = [scan EXCEPT ![t].left = @ \ {d}]
        /\ \E now \in Fingerprints(c.role) :
             \/ Changed(c.baseline, now) /\ Save(d, [c EXCEPT !.state = "completed"])
             \/ ~Changed(c.baseline, now) /\ Stale(c.baseline, now) /\ Save(d, [c EXCEPT !.state = "stale"])
             \/ ~Changed(c.baseline, now) /\ ~Stale(c.baseline, now) /\ UNCHANGED <<directive, saves>>
  /\ UNCHANGED <<file, writes>>

ScanEnd(t) ==
  /\ scan[t].pc = "scan" /\ scan[t].left = {}
  /\ scan' = [scan EXCEPT ![t] = Idle]
  /\ UNCHANGED <<file, directive, saves, writes>>

Next == \/ \E r \in Roles : Write(r) \/ Issue(r)
        \/ \E t \in Thread : ScanStart(t) \/ Look(t) \/ ScanEnd(t)
Spec == Init /\ [][Next]_vars

-----------------------------------------------------------------------------
\* A directive is completed or stale only after its role's file was written, or
\* emptied or deleted, since it was issued; and a scan that found the files at rest
\* leaves no directive pending, of those it was given, whose file holds something
\* that was not there when it was issued (_scan_pending_learning_directives).
CompletedWasWritten ==
  /\ \A d \in Issued : directive[d].state # "pending" => writes[directive[d].role] > directive[d].written
  /\ \A t \in Thread : scan[t].pc = "scan" /\ scan[t].left = {} =>
       \A d \in scan[t].given :
         LET c == scan[t].copy[d]
         IN  scan[t].since[c.role] = writes[c.role] /\ file[c.role].size = 1 /\ file[c.role] # c.baseline
               => directive[d].state # "pending"

\* What has been completed stays so.  It does not hold: another scan still has it
\* as pending, and finds the file emptied.
CompletedIsFinal ==
  [][\A d \in Issued : directive[d].state = "completed" => directive'[d].state = "completed"]_vars

\* A role's packs show every directive it has pending.  It does not hold: the
\* newest twenty are those of all roles.
PackShowsPending == \A d \in Pending(Issued) : d \in Shown(directive[d].role)
=============================================================================
