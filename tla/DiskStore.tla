------------------------------- MODULE DiskStore -------------------------------
(***************************************************************************)
(* auth/utils/diskStore.ts: a TokenStorage kept in a directory that        *)
(* several processes share, one file per key.  The file system calls are   *)
(* the atomic steps: rename and rm act on whatever file has the name at    *)
(* that moment, writeFile truncates the file when it opens it and writes   *)
(* it in a later step, into the same file whatever its name is by then.    *)
(*                                                                         *)
(* Save() calls are numbered; the file created by save s is called file s, *)
(* and so is its claim name, if a take() renames it: the UUID in it makes  *)
(* it a name no other file ever has.                                       *)
(***************************************************************************)
EXTENDS Naturals

CONSTANTS
    Key,         \* storage keys, that is, paths in the directory
    MaxSaves,    \* bound on the save() calls
    Process,     \* processes sharing the directory
    Slot,        \* get(), save() and take() calls in progress
    Of,          \* Of[r]: the process that executes the calls of slot r
    None,        \* absence of a value
    Garbled,     \* a file content that is not JSON
    Ttl,         \* lifetimes given to save(); 0 is no lifetime
    MaxTime,     \* bound on the clock
    MaxCrashes   \* bound on the crashes

Save == 1 .. MaxSaves

ASSUME DiskStoreAssumption ==
    /\ MaxSaves \in Nat /\ Of \in [Slot -> Process]
    /\ Ttl \subseteq Nat /\ MaxTime \in Nat /\ MaxCrashes \in Nat
    /\ Key \cap Save = {} /\ None # Garbled
    /\ None \notin Key \cup Save \cup Nat /\ Garbled \notin Save

VARIABLES
    now,      \* the clock
    expires,  \* expires[s]: expiresAt of save s, None before the call
    linked,   \* linked[k]: the file under the path of key k
    claims,   \* files under a claim name
    content,  \* content[s]: the save whose entry is in file s; None: empty
    op,       \* the call each slot is executing
    sweep,    \* sweep[p]: the cleanup() that process p has in flight
    observed, \* observed[s]: take() calls that returned the value of save s
    crashes

disk == <<linked, claims, content>>
vars == <<now, expires, disk, op, sweep, observed, crashes>>

--------------------------------------------------------------------------------
\* The file system call a call waits for; key, save and file it is about.
Step == {"idle", "write", "rmExpired", "readClaim", "rmClaim"}
Call == [step: Step, key: Key \cup {None}, save: Save \cup {None},
         file: Save \cup {None}]
Idle == [step |-> "idle", key |-> None, save |-> None, file |-> None]

\* A sweep still has the names in todo to read and rm of victim to do.
Name == Key \cup Save
Sweep == [busy: BOOLEAN, asOf: Nat, todo: SUBSET Name, victim: Name \cup {None}]
NoSweep == [busy |-> FALSE, asOf |-> 0, todo |-> {}, victim |-> None]

Return(r) == op' = [op EXCEPT ![r] = Idle]

--------------------------------------------------------------------------------
(* Plausible slips in the code, each the body of one definition below; the  *)
(* properties have to notice them.                                          *)

\* take() copies the file instead of renaming it.
PathKept(k) == linked
\* The claim file lacks the configured extension: a sweep does not see it.
PathsOnly(p) == {k \in Key : linked[k] # None}

--------------------------------------------------------------------------------
Forever == MaxTime + 1

\* save(): a TTL of 0, like none at all, is no expiry.
ExpiresAt(ttl) == IF ttl = 0 THEN Forever ELSE now + ttl

Parsed(f) == content[f] \in Save
Expired(f, t) == expires[content[f]] < t

\* The file a name of the directory stands for, None if there is none.
FileAt(n) == IF n \in Key THEN linked[n] ELSE IF n \in claims THEN n ELSE None

\* rename() by take(): the path of key k is free again.
PathFreed(k) == [linked EXCEPT ![k] = None]

\* readdir: the names with the configured extension, claim files included.
Listed(p) == {k \in Key : linked[k] # None} \cup claims

\* runCleanup: an expired entry is removed, and one that cannot be read.
Doomed(f, t) == Parsed(f) => Expired(f, t)

\* rm(name)
Unlink(n) ==
    /\ linked' = [k \in Key |-> IF k = n THEN None ELSE linked[k]]
    /\ claims' = claims \ {n}

\* writeFile's write, at the start of the file: what another writer put there
\* since this one truncated the file may stick out behind it.
Written(f, s) ==
    IF content[f] = None THEN {[content EXCEPT ![f] = s]}
    ELSE {[content EXCEPT ![f] = s], [content EXCEPT ![f] = Garbled]}

--------------------------------------------------------------------------------
TypeOK ==
    /\ now \in Nat /\ crashes \in Nat
    /\ expires \in [Save -> Nat \cup {None}]
    /\ linked \in [Key -> Save \cup {None}]
    /\ claims \subseteq Save
    /\ content \in [Save -> Save \cup {None, Garbled}]
    /\ op \in [Slot -> Call]
    /\ sweep \in [Process -> Sweep]
    /\ observed \in [Save -> Nat]

Init ==
    /\ now = 0 /\ crashes = 0
    /\ expires = [s \in Save |-> None]
    /\ linked = [k \in Key |-> None]
    /\ claims = {}
    /\ content = [s \in Save |-> None]
    /\ op = [r \in Slot |-> Idle]
    /\ sweep = [p \in Process |-> NoSweep]
    /\ observed = [s \in Save |-> 0]

--------------------------------------------------------------------------------
(* save() *)

\* writeFile opens the file, and creates it if there is none.
SaveOpen(r, k, ttl) ==
    \E s \in Save :
        LET f == IF linked[k] = None THEN s ELSE linked[k] IN
        /\ op[r] = Idle
        /\ expires[s] = None /\ \A t \in Save : t < s => expires[t] # None
        /\ expires' = [expires EXCEPT ![s] = ExpiresAt(ttl)]
        /\ linked' = [linked EXCEPT ![k] = f]
        /\ content' = [content EXCEPT ![f] = None]
        /\ op' = [op EXCEPT ![r] = [Idle EXCEPT !.step = "write", !.key = k,
                                                !.save = s, !.file = f]]
        /\ UNCHANGED <<now, claims, sweep, observed, crashes>>

SaveWrite(r) ==
    /\ op[r].step = "write"
    /\ content' \in Written(op[r].file, op[r].save)
    /\ Return(r)
    /\ UNCHANGED <<now, expires, linked, claims, sweep, observed, crashes>>

--------------------------------------------------------------------------------
(* get() and delete().  A get() that finds no file, or one that is not JSON, *)
(* or one that has not expired, changes nothing.                             *)

GetExpired(r, k) ==
    /\ op[r] = Idle
    /\ linked[k] # None /\ Parsed(linked[k]) /\ Expired(linked[k], now)
    /\ op' = [op EXCEPT ![r] = [Idle EXCEPT !.step = "rmExpired", !.key = k]]
    /\ UNCHANGED <<now, expires, disk, sweep, observed, crashes>>

RmExpired(r) ==
    /\ op[r].step = "rmExpired"
    /\ Unlink(op[r].key)
    /\ Return(r)
    /\ UNCHANGED <<now, expires, content, sweep, observed, crashes>>

Delete(k) ==
    /\ linked[k] # None
    /\ Unlink(k)
    /\ UNCHANGED <<now, expires, content, op, sweep, observed, crashes>>

--------------------------------------------------------------------------------
(* take() *)

TakeRename(r, k) ==
    /\ op[r] = Idle
    /\ linked[k] # None
    /\ linked' = PathFreed(k)
    /\ claims' = claims \cup {linked[k]}
    /\ op' = [op EXCEPT ![r] = [Idle EXCEPT !.step = "readClaim", !.file = linked[k]]]
    /\ UNCHANGED <<now, expires, content, sweep, observed, crashes>>

\* The value is the caller's unless it expired; the claim file goes either way.
\* A sweep may have removed the claim file: then there is nothing to read.
ReadClaim(r) ==
    LET f == op[r].file IN
    /\ op[r].step = "readClaim"
    /\ observed' = IF f \in claims /\ Parsed(f) /\ ~Expired(f, now)
                   THEN [observed EXCEPT ![content[f]] = @ + 1] ELSE observed
    /\ op' = [op EXCEPT ![r].step = "rmClaim"]
    /\ UNCHANGED <<now, expires, disk, sweep, crashes>>

RmClaim(r) ==
    /\ op[r].step = "rmClaim"
    /\ Unlink(op[r].file)
    /\ Return(r)
    /\ UNCHANGED <<now, expires, content, sweep, observed, crashes>>

--------------------------------------------------------------------------------
(* cleanup(): a call that finds a sweep in flight in its process joins it. *)

SweepStart(p) ==
    /\ ~sweep[p].busy
    /\ sweep' = [sweep EXCEPT ![p] = [busy |-> TRUE, asOf |-> now,
                                      todo |-> Listed(p), victim |-> None]]
    /\ UNCHANGED <<now, expires, disk, op, observed, crashes>>

\* A file that is gone is read in vain and removed like a corrupted one.
SweepRead(p, n) ==
    LET f == FileAt(n) IN
    /\ sweep[p].busy /\ sweep[p].victim = None
    /\ n \in sweep[p].todo
    /\ sweep' = [sweep EXCEPT ![p].todo = @ \ {n},
                              ![p].victim = IF f = None \/ Doomed(f, sweep[p].asOf)
                                            THEN n ELSE None]
    /\ UNCHANGED <<now, expires, disk, op, observed, crashes>>

SweepRm(p) ==
    /\ sweep[p].victim # None
    /\ Unlink(sweep[p].victim)
    /\ sweep' = [sweep EXCEPT ![p].victim = None]
    /\ UNCHANGED <<now, expires, content, op, observed, crashes>>

SweepEnd(p) ==
    /\ sweep[p].busy /\ sweep[p].victim = None /\ sweep[p].todo = {}
    /\ sweep' = [sweep EXCEPT ![p] = NoSweep]
    /\ UNCHANGED <<now, expires, disk, op, observed, crashes>>

--------------------------------------------------------------------------------
\* A process dies between two file system calls and is started again.
Crash(p) ==
    /\ crashes < MaxCrashes
    /\ crashes' = crashes + 1
    /\ op' = [r \in Slot |-> IF Of[r] = p THEN Idle ELSE op[r]]
    /\ sweep' = [sweep EXCEPT ![p] = NoSweep]
    /\ UNCHANGED <<now, expires, disk, observed>>

Tick ==
    /\ now < MaxTime
    /\ now' = now + 1
    /\ UNCHANGED <<expires, disk, op, sweep, observed, crashes>>

--------------------------------------------------------------------------------
Start(r, k) ==
    \/ \E ttl \in Ttl : SaveOpen(r, k, ttl)
    \/ GetExpired(r, k)
    \/ TakeRename(r, k)

Continue(r) == SaveWrite(r) \/ RmExpired(r) \/ ReadClaim(r) \/ RmClaim(r)

Cleanup(p) ==
    SweepStart(p) \/ (\E n \in Name : SweepRead(p, n)) \/ SweepRm(p) \/ SweepEnd(p)

Next ==
    \/ \E r \in Slot, k \in Key : Start(r, k)
    \/ \E r \in Slot : Continue(r)
    \/ \E k \in Key : Delete(k)
    \/ \E p \in Process : Cleanup(p) \/ Crash(p)
    \/ Tick

Spec == Init /\ [][Next]_vars

\* The cleanup timer of every process keeps firing and the file system answers.
Fairness == \A p \in Process : WF_vars(Cleanup(p))

FairSpec == Spec /\ Fairness

--------------------------------------------------------------------------------
(* Properties *)

\* At most one caller observes a value, and it is the last trace of it: once
\* take() returned the value no get() and no other take() can find it, in any
\* process, whatever crashed or was being written meanwhile.
TakenOnce ==
    \A s \in Save :
        /\ observed[s] <= 1
        /\ observed[s] = 1 => \A k \in Key : linked[k] # None => content[linked[k]] # s

\* A process that died between rename and rm, or while writing, leaves no file
\* behind for good: cleanup() reaps claim files and corrupted ones.
LeftoversReaped ==
    \A n \in Name :
        FileAt(n) # None /\ Doomed(FileAt(n), now)
            ~> FileAt(n) = None \/ ~Doomed(FileAt(n), now)

\* "Clean up expired entries": a sweep removes no entry that is still valid.
CleanupRemovesExpired ==
    [][\A p \in Process :
          SweepRm(p) => LET f == FileAt(sweep[p].victim) IN
                        f # None => Doomed(f, now)]_vars

\* The states of TokenStorage: where the value of save s is.
Life(s) ==
    IF observed[s] > 0 THEN "observed"
    ELSE IF \E f \in claims : content[f] = s THEN "claimed"
    ELSE IF \E k \in Key : linked[k] # None /\ content[linked[k]] = s THEN "stored"
    ELSE IF \/ expires[s] = None
            \/ \E r \in Slot : op[r].step = "write" /\ op[r].save = s
         THEN "new"
    ELSE "gone"

Promise == INSTANCE TokenStorage
               WITH Value <- Save, life <- [s \in Save |-> Life(s)]

\* The directory implements take() as TokenStorage promises it.
ImplementsTokenStorage == Promise!Spec
================================================================================
