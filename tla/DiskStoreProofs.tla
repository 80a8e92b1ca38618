---------------------------- MODULE DiskStoreProofs ----------------------------
(***************************************************************************)
(* DiskStore's take() hands a value out once, for every number of keys,    *)
(* saves, processes, calls and crashes.                                    *)
(***************************************************************************)
EXTENDS DiskStore, TLAPS

--------------------------------------------------------------------------------
\* Taking a file: between the rename and the read, then until the rm.
Reading(r) == op[r].step = "readClaim"
Holding(r) == op[r].step \in {"readClaim", "rmClaim"}
Writing(r) == op[r].step = "write"

\* A call refers to what its step is about.
CallOK(r) ==
    /\ Writing(r) => op[r].save \in Save /\ op[r].file \in Save
    /\ Holding(r) => op[r].file \in Save

\* A file is under at most one name, and was created by a save() that ran.
OneName ==
    /\ \A j, k \in Key : linked[j] # None /\ linked[j] = linked[k] => j = k
    /\ \A k \in Key : linked[k] # None =>
           linked[k] \notin claims /\ expires[linked[k]] # None
    /\ \A f \in claims : expires[f] # None
    /\ \A r \in Slot : Holding(r) =>
           /\ expires[op[r].file] # None
           /\ \A k \in Key : linked[k] # op[r].file

\* A file is renamed once: no two calls take the same one.
OneTaker ==
    \A q, r \in Slot : Holding(q) /\ Holding(r) /\ op[q].file = op[r].file => q = r

\* A save is written once, into one file.
OneFile ==
    /\ \A f \in Save : content[f] \in Save => expires[content[f]] # None
    /\ \A f, g \in Save : content[f] \in Save /\ content[f] = content[g] => f = g
    /\ \A r \in Slot : Writing(r) =>
           /\ expires[op[r].save] # None /\ observed[op[r].save] = 0
           /\ \A f \in Save : content[f] # op[r].save
    /\ \A q, r \in Slot : Writing(q) /\ Writing(r) /\ op[q].save = op[r].save => q = r

\* An observed value is in no file that a get() or a take() could still read.
Spent ==
    \A s \in Save : observed[s] > 0 =>
        /\ observed[s] = 1 /\ expires[s] # None
        /\ \A f \in Save : content[f] = s =>
               /\ \A k \in Key : linked[k] # f
               /\ \A r \in Slot : Reading(r) => op[r].file # f

DiskInv ==
    /\ TypeOK
    /\ \A r \in Slot : CallOK(r)
    /\ OneName /\ OneTaker /\ OneFile /\ Spent

--------------------------------------------------------------------------------
LEMMA SaveNames == /\ None \notin Save /\ Garbled \notin Save /\ None # Garbled
                   /\ None \notin Key /\ Key \cap Save = {}
BY DiskStoreAssumption

LEMMA DiskInit == Init => DiskInv
<1> SUFFICES ASSUME Init PROVE DiskInv
  OBVIOUS
<1>1. TypeOK
  BY DEF Init, TypeOK, Call, Step, Idle, Sweep, NoSweep
<1>2. \A r \in Slot : op[r].step = "idle"
  BY DEF Init, Idle
<1> QED
  BY <1>1, <1>2, SaveNames
     DEF Init, DiskInv, CallOK, OneName, OneTaker, OneFile, Spent, Reading, Holding, Writing

--------------------------------------------------------------------------------
\* Steps that only remove names and end calls.
Shrinks ==
    /\ TypeOK' /\ UNCHANGED <<expires, content, observed>>
    /\ \A k \in Key : linked'[k] \in {linked[k], None}
    /\ claims' \subseteq claims
    /\ \A r \in Slot : op'[r] = op[r] \/ op'[r].step \in {"idle", "rmExpired"}

LEMMA InvShrink ==
    ASSUME DiskInv, Shrinks
    PROVE  DiskInv'
<1> USE DEF Shrinks
<1>1. \A r \in Slot : /\ Reading(r)' => Reading(r) /\ op'[r] = op[r]
                      /\ Holding(r)' => Holding(r) /\ op'[r] = op[r]
                      /\ Writing(r)' => Writing(r) /\ op'[r] = op[r]
  BY DEF Reading, Holding, Writing
<1>2. \A r \in Slot : CallOK(r)'
  BY <1>1 DEF DiskInv, CallOK
<1>3. OneName'
  <2>1. \A j, k \in Key : linked'[j] # None /\ linked'[j] = linked'[k] => j = k
    BY DEF DiskInv, OneName
  <2>2. \A k \in Key : linked'[k] # None =>
            linked'[k] \notin claims' /\ expires'[linked'[k]] # None
    BY DEF DiskInv, OneName
  <2>3. \A r \in Slot : Holding(r)' =>
            expires'[op'[r].file] # None /\ \A k \in Key : linked'[k] # op'[r].file
    <3> SUFFICES ASSUME NEW r \in Slot, Holding(r)', NEW k \in Key
                 PROVE  expires'[op'[r].file] # None /\ linked'[k] # op'[r].file
      BY <1>1 DEF DiskInv, OneName
    <3>1. Holding(r) /\ op'[r] = op[r] /\ op[r].file \in Save
      BY <1>1 DEF DiskInv, CallOK
    <3> QED
      BY <3>1, SaveNames DEF DiskInv, OneName
  <2> QED
    BY <2>1, <2>2, <2>3 DEF DiskInv, OneName
<1>4. OneTaker'
  BY <1>1 DEF DiskInv, OneTaker
<1>5. OneFile'
  BY <1>1 DEF DiskInv, OneFile
<1>6. Spent'
  BY <1>1, SaveNames DEF DiskInv, Spent
<1> QED
  BY <1>2, <1>3, <1>4, <1>5, <1>6 DEF DiskInv

LEMMA IdleCall == Idle \in Call /\ Idle.step = "idle" /\ NoSweep \in Sweep
BY DEF Idle, Call, Step, NoSweep, Sweep

LEMMA RmCall ==
    ASSUME NEW k \in Key
    PROVE  LET c == [Idle EXCEPT !.step = "rmExpired", !.key = k]
           IN  c \in Call /\ c.step = "rmExpired"
BY DEF Idle, Call, Step

LEMMA ReadCall ==
    ASSUME NEW f \in Save
    PROVE  LET c == [Idle EXCEPT !.step = "readClaim", !.file = f]
           IN  c \in Call /\ c.step = "readClaim" /\ c.file = f
BY DEF Idle, Call, Step

LEMMA UnlinkShrinks ==
    ASSUME TypeOK, NEW n, Unlink(n)
    PROVE  /\ linked' \in [Key -> Save \cup {None}] /\ claims' \subseteq Save
           /\ \A k \in Key : linked'[k] \in {linked[k], None}
           /\ claims' \subseteq claims
BY DEF Unlink, TypeOK

LEMMA GetExpiredShrinks ==
    ASSUME DiskInv, NEW r \in Slot, NEW k \in Key, GetExpired(r, k)
    PROVE  Shrinks
<1> DEFINE c == [Idle EXCEPT !.step = "rmExpired", !.key = k]
<1>2. c \in Call /\ c.step = "rmExpired"
  BY RmCall
<1>3. op' = [op EXCEPT ![r] = c] /\ UNCHANGED <<now, expires, disk, sweep, observed, crashes>>
  BY DEF GetExpired
<1> HIDE DEF c
<1>1. TypeOK' /\ \A q \in Slot : op'[q] = op[q] \/ op'[q].step = "rmExpired"
  BY <1>2, <1>3 DEF disk, DiskInv, TypeOK
<1> QED
  BY <1>1 DEF Shrinks, GetExpired, disk

LEMMA RemoveShrinks ==
    ASSUME DiskInv, (\E r \in Slot : RmExpired(r) \/ RmClaim(r)) \/ \E k \in Key : Delete(k)
    PROVE  Shrinks
<1>1. /\ \E n : Unlink(n)
      /\ UNCHANGED <<now, expires, content, sweep, observed, crashes>>
      /\ op' \in [Slot -> Call]
      /\ \A q \in Slot : op'[q] = op[q] \/ op'[q].step = "idle"
  <2>1. CASE \E r \in Slot : RmExpired(r) \/ RmClaim(r)
    <3> PICK r \in Slot : RmExpired(r) \/ RmClaim(r)
      BY <2>1
    <3>1. (\E n : Unlink(n)) /\ op' = [op EXCEPT ![r] = Idle]
          /\ UNCHANGED <<now, expires, content, sweep, observed, crashes>>
      BY DEF RmExpired, RmClaim, Return
    <3>2. /\ op' \in [Slot -> Call]
          /\ \A q \in Slot : op'[q] = op[q] \/ op'[q].step = "idle"
      BY <3>1, IdleCall DEF DiskInv, TypeOK
    <3> QED
      BY <3>1, <3>2
  <2>2. CASE \E k \in Key : Delete(k)
    BY <2>2 DEF Delete, DiskInv, TypeOK
  <2> QED
    BY <2>1, <2>2
<1>2. /\ linked' \in [Key -> Save \cup {None}] /\ claims' \subseteq Save
      /\ \A k \in Key : linked'[k] \in {linked[k], None}
      /\ claims' \subseteq claims
  BY <1>1, UnlinkShrinks DEF DiskInv
<1>3. TypeOK'
  BY <1>1, <1>2 DEF DiskInv, TypeOK
<1> QED
  BY <1>1, <1>2, <1>3 DEF Shrinks

LEMMA CleanupShrinks ==
    ASSUME DiskInv, NEW p \in Process, Cleanup(p)
    PROVE  Shrinks
<1>1. CASE SweepStart(p)
  <2>1. [busy |-> TRUE, asOf |-> now, todo |-> Listed(p), victim |-> None] \in Sweep
    BY <1>1 DEF SweepStart, Listed, Sweep, Name, DiskInv, TypeOK
  <2>2. TypeOK'
    BY <1>1, <2>1 DEF SweepStart, disk, DiskInv, TypeOK
  <2> QED
    BY <1>1, <2>2 DEF Shrinks, SweepStart, disk
<1>2. CASE \E n \in Name : SweepRead(p, n)
  <2> PICK n \in Name : SweepRead(p, n)
    BY <1>2
  <2>1. \A v \in {n, None} :
           [sweep[p] EXCEPT !.todo = @ \ {n}, !.victim = v] \in Sweep
    BY DEF Sweep, DiskInv, TypeOK
  <2>2. TypeOK'
    BY <2>1 DEF SweepRead, disk, DiskInv, TypeOK
  <2> QED
    BY <2>2 DEF Shrinks, SweepRead, disk
<1>3. CASE SweepRm(p)
  <2>1. [sweep[p] EXCEPT !.victim = None] \in Sweep
    BY DEF Sweep, DiskInv, TypeOK
  <2>2. /\ linked' \in [Key -> Save \cup {None}] /\ claims' \subseteq Save
        /\ \A k \in Key : linked'[k] \in {linked[k], None}
        /\ claims' \subseteq claims
    BY <1>3, UnlinkShrinks DEF DiskInv, SweepRm
  <2>3. TypeOK'
    BY <1>3, <2>1, <2>2 DEF SweepRm, DiskInv, TypeOK
  <2> QED
    BY <1>3, <2>2, <2>3 DEF Shrinks, SweepRm
<1>4. CASE SweepEnd(p)
  <2>1. TypeOK'
    BY <1>4, IdleCall DEF SweepEnd, disk, DiskInv, TypeOK
  <2> QED
    BY <1>4, <2>1 DEF Shrinks, SweepEnd, disk
<1> QED
  BY <1>1, <1>2, <1>3, <1>4 DEF Cleanup

LEMMA OtherShrinks ==
    ASSUME DiskInv, (\E p \in Process : Crash(p)) \/ Tick \/ UNCHANGED vars
    PROVE  Shrinks
<1>1. /\ UNCHANGED <<expires, linked, claims, content, observed>>
      /\ now' \in Nat /\ crashes' \in Nat /\ sweep' \in [Process -> Sweep]
      /\ op' \in [Slot -> Call] /\ \A r \in Slot : op'[r] = op[r] \/ op'[r].step = "idle"
  <2>1. CASE \E p \in Process : Crash(p)
    <3> PICK p \in Process : Crash(p)
      BY <2>1
    <3>1. /\ op' = [r \in Slot |-> IF Of[r] = p THEN Idle ELSE op[r]]
          /\ sweep' = [sweep EXCEPT ![p] = NoSweep] /\ crashes' = crashes + 1
          /\ UNCHANGED <<now, expires, linked, claims, content, observed>>
      BY DEF Crash, disk
    <3>2. /\ op' \in [Slot -> Call]
          /\ \A q \in Slot : op'[q] = op[q] \/ op'[q].step = "idle"
      BY <3>1, IdleCall DEF DiskInv, TypeOK
    <3>3. sweep' \in [Process -> Sweep] /\ now' \in Nat /\ crashes' \in Nat
      BY <3>1, IdleCall DEF DiskInv, TypeOK
    <3> QED
      BY <3>1, <3>2, <3>3
  <2>2. CASE Tick \/ UNCHANGED vars
    BY <2>2 DEF Tick, vars, disk, DiskInv, TypeOK
  <2> QED
    BY <2>1, <2>2
<1>2. TypeOK'
  BY <1>1 DEF DiskInv, TypeOK
<1> QED
  BY <1>1, <1>2 DEF Shrinks

--------------------------------------------------------------------------------
\* writeFile opens the file of the key, or creates the one named after the save.
LEMMA InvSaveOpen ==
    ASSUME DiskInv, NEW r \in Slot, NEW k \in Key, NEW ttl \in Ttl, SaveOpen(r, k, ttl)
    PROVE  DiskInv'
<1>1. PICK s \in Save :
         LET f == IF linked[k] = None THEN s ELSE linked[k] IN
         /\ op[r] = Idle /\ expires[s] = None
         /\ expires' = [expires EXCEPT ![s] = ExpiresAt(ttl)]
         /\ linked' = [linked EXCEPT ![k] = f]
         /\ content' = [content EXCEPT ![f] = None]
         /\ op' = [op EXCEPT ![r] = [Idle EXCEPT !.step = "write", !.key = k,
                                                 !.save = s, !.file = f]]
         /\ UNCHANGED <<now, claims, sweep, observed, crashes>>
  BY DEF SaveOpen
<1> DEFINE f == IF linked[k] = None THEN s ELSE linked[k]
           c == [Idle EXCEPT !.step = "write", !.key = k, !.save = s, !.file = f]
<1>2. s \in Save /\ f \in Save /\ ExpiresAt(ttl) \in Nat /\ ExpiresAt(ttl) # None
      /\ (linked[k] # None => f = linked[k]) /\ (linked[k] = None => f = s)
  BY <1>1, DiskStoreAssumption DEF DiskInv, TypeOK, ExpiresAt, Forever
<1> HIDE DEF f
<1>3. c \in Call /\ c.step = "write" /\ c.save = s /\ c.file = f
  BY <1>2 DEF Idle, Call, Step
<1>4. /\ expires' = [expires EXCEPT ![s] = ExpiresAt(ttl)]
      /\ linked' = [linked EXCEPT ![k] = f] /\ content' = [content EXCEPT ![f] = None]
      /\ op' = [op EXCEPT ![r] = c]
      /\ UNCHANGED <<now, claims, sweep, observed, crashes>>
      /\ op[r] = Idle /\ expires[s] = None
  BY <1>1 DEF f
<1> HIDE DEF c
<1>5. TypeOK'
  BY <1>2, <1>3, <1>4 DEF DiskInv, TypeOK
<1>6. /\ op'[r] = c /\ \A q \in Slot : q # r => op'[q] = op[q]
      /\ content'[f] = None /\ \A g \in Save : g # f => content'[g] = content[g]
      /\ linked'[k] = f /\ \A j \in Key : j # k => linked'[j] = linked[j]
      /\ expires'[s] # None /\ \A t \in Save : t # s => expires'[t] = expires[t]
      /\ \A t \in Save : expires[t] # None => expires'[t] # None
  BY <1>2, <1>3, <1>4 DEF DiskInv, TypeOK
<1>7. /\ Writing(r)' /\ ~Holding(r)' /\ ~Reading(r)'
      /\ \A q \in Slot : q # r => /\ Writing(q)' <=> Writing(q)
                                  /\ Holding(q)' <=> Holding(q)
                                  /\ Reading(q)' <=> Reading(q)
  BY <1>3, <1>6 DEF Writing, Holding, Reading
\* The save is new: nothing in the directory or in a call refers to it yet.
<1>8. /\ \A j \in Key : linked[j] # s
      /\ \A q \in Slot : (Holding(q) => op[q].file # s) /\ (Writing(q) => op[q].save # s)
      /\ \A g \in Save : content[g] # s
  BY <1>4, SaveNames DEF DiskInv, OneName, OneFile, TypeOK
<1>9. \A q \in Slot : CallOK(q)'
  BY <1>2, <1>3, <1>6, <1>7 DEF DiskInv, CallOK
<1>10. \A j \in Key : j # k => linked[j] # f
  BY <1>2, <1>8, SaveNames DEF DiskInv, OneName
<1>11. OneName'
  <2>1. \A i, j \in Key : linked'[i] # None /\ linked'[i] = linked'[j] => i = j
    BY <1>6, <1>10 DEF DiskInv, OneName
  <2>2. f \notin claims /\ expires'[f] # None
    BY <1>2, <1>4, <1>6 DEF DiskInv, OneName
  <2>3. \A j \in Key : linked'[j] # None =>
            linked'[j] \notin claims' /\ expires'[linked'[j]] # None
    BY <1>4, <1>6, <2>2 DEF DiskInv, OneName, TypeOK
  <2>4. \A g \in claims' : expires'[g] # None
    BY <1>4, <1>6 DEF DiskInv, OneName, TypeOK
  <2>5. \A q \in Slot : Holding(q)' =>
            expires'[op'[q].file] # None /\ \A j \in Key : linked'[j] # op'[q].file
    <3> SUFFICES ASSUME NEW q \in Slot, Holding(q)', NEW j \in Key
                 PROVE  expires'[op'[q].file] # None /\ linked'[j] # op'[q].file
      BY <1>7 DEF DiskInv, CallOK, OneName
    <3>1. q # r /\ Holding(q) /\ op'[q] = op[q] /\ op[q].file \in Save
      BY <1>6, <1>7 DEF DiskInv, CallOK
    <3>2. op[q].file # f
      BY <1>2, <1>8, <3>1, SaveNames DEF DiskInv, OneName
    <3> QED
      BY <1>6, <3>1, <3>2 DEF DiskInv, OneName
  <2> QED
    BY <2>1, <2>3, <2>4, <2>5 DEF OneName
<1>12. OneTaker'
  BY <1>6, <1>7 DEF DiskInv, OneTaker
<1>13. OneFile'
  <2>1. \A g \in Save : content'[g] \in Save => content'[g] = content[g] /\ g # f
    BY <1>6, SaveNames
  <2>2. \A q \in Slot : Writing(q)' =>
           /\ expires'[op'[q].save] # None /\ observed'[op'[q].save] = 0
           /\ \A g \in Save : content'[g] # op'[q].save
    <3> SUFFICES ASSUME NEW q \in Slot, Writing(q)'
                 PROVE  /\ expires'[op'[q].save] # None /\ observed'[op'[q].save] = 0
                        /\ \A g \in Save : content'[g] # op'[q].save
      OBVIOUS
    <3>1. CASE q = r
      <4>1. observed[s] = 0
        BY <1>4 DEF DiskInv, Spent, TypeOK
      <4> QED
        BY <1>3, <1>4, <1>6, <1>8, <3>1, <4>1, SaveNames
    <3>2. CASE q # r
      <4>1. Writing(q) /\ op'[q] = op[q] /\ op[q].save \in Save
        BY <1>6, <1>7, <3>2 DEF DiskInv, CallOK
      <4> QED
        BY <1>4, <1>6, <4>1, SaveNames DEF DiskInv, OneFile
    <3> QED
      BY <3>1, <3>2
  <2>3. \A p, q \in Slot : Writing(p)' /\ Writing(q)' /\ op'[p].save = op'[q].save => p = q
    BY <1>3, <1>6, <1>7, <1>8 DEF DiskInv, OneFile
  <2>4. \A g, h \in Save : content'[g] \in Save /\ content'[g] = content'[h] => g = h
    BY <2>1, SaveNames DEF DiskInv, OneFile
  <2>5. \A g \in Save : content'[g] \in Save => expires'[content'[g]] # None
    BY <1>6, <2>1 DEF DiskInv, OneFile
  <2> QED
    BY <2>2, <2>3, <2>4, <2>5 DEF OneFile
<1>14. Spent'
  <2> SUFFICES ASSUME NEW t \in Save, observed[t] > 0
               PROVE  /\ observed[t] = 1 /\ expires'[t] # None
                      /\ \A g \in Save : content'[g] = t =>
                             /\ \A j \in Key : linked'[j] # g
                             /\ \A q \in Slot : Reading(q)' => op'[q].file # g
    BY <1>4 DEF Spent
  <2>1. observed[t] = 1 /\ expires'[t] # None
    BY <1>6 DEF DiskInv, Spent
  <2>2. \A g \in Save : content'[g] = t => content[g] = t /\ g # f
    BY <1>6, SaveNames
  <2> QED
    BY <1>6, <1>7, <2>1, <2>2 DEF DiskInv, Spent
<1> QED
  BY <1>5, <1>9, <1>11, <1>12, <1>13, <1>14 DEF DiskInv

\* The write lands in the file that was opened, under whatever name it is.
LEMMA InvSaveWrite ==
    ASSUME DiskInv, NEW r \in Slot, SaveWrite(r)
    PROVE  DiskInv'
<1> DEFINE f == op[r].file
           s == op[r].save
<1>1. /\ Writing(r) /\ f \in Save /\ s \in Save
      /\ expires[s] # None /\ observed[s] = 0 /\ \A g \in Save : content[g] # s
  BY DEF SaveWrite, Writing, DiskInv, CallOK, OneFile
<1>2. PICK v \in {s, Garbled} : content' = [content EXCEPT ![f] = v]
  BY DEF SaveWrite, Written
<1>3. /\ op' = [op EXCEPT ![r] = Idle]
      /\ UNCHANGED <<now, expires, linked, claims, sweep, observed, crashes>>
  BY DEF SaveWrite, Return
<1> HIDE DEF f, s
<1>4. /\ op'[r].step = "idle" /\ \A q \in Slot : q # r => op'[q] = op[q]
      /\ op' \in [Slot -> Call]
      /\ content'[f] = v /\ \A g \in Save : g # f => content'[g] = content[g]
  BY <1>1, <1>2, <1>3, IdleCall DEF DiskInv, TypeOK
<1>5. TypeOK'
  BY <1>1, <1>2, <1>3, <1>4 DEF DiskInv, TypeOK
<1>6. \A q \in Slot : /\ Writing(q)' => Writing(q) /\ op'[q] = op[q] /\ q # r
                      /\ Holding(q)' => Holding(q) /\ op'[q] = op[q]
                      /\ Reading(q)' => Reading(q) /\ op'[q] = op[q]
  BY <1>4 DEF Writing, Holding, Reading
<1>7. (\A q \in Slot : CallOK(q)') /\ OneName' /\ OneTaker'
  BY <1>3, <1>6 DEF DiskInv, CallOK, OneName, OneTaker
<1>8. \A q \in Slot : Writing(q)' => op[q].save # s
  BY <1>1, <1>6 DEF s, DiskInv, OneFile
<1>9. OneFile'
  BY <1>1, <1>2, <1>3, <1>4, <1>6, <1>8, SaveNames DEF DiskInv, OneFile, CallOK
<1>10. Spent'
  BY <1>1, <1>2, <1>3, <1>4, <1>6, SaveNames DEF DiskInv, Spent, TypeOK
<1> QED
  BY <1>5, <1>7, <1>9, <1>10 DEF DiskInv

--------------------------------------------------------------------------------
\* The renamed file gets its one taker.
LEMMA InvTakeRename ==
    ASSUME DiskInv, NEW r \in Slot, NEW k \in Key, TakeRename(r, k)
    PROVE  DiskInv'
<1> DEFINE f == linked[k]
           c == [Idle EXCEPT !.step = "readClaim", !.file = f]
<1>1. /\ f \in Save /\ f # None /\ op[r] = Idle
      /\ linked' = [linked EXCEPT ![k] = None] /\ claims' = claims \cup {f}
      /\ op' = [op EXCEPT ![r] = c]
      /\ UNCHANGED <<now, expires, content, sweep, observed, crashes>>
  BY DEF TakeRename, PathFreed, DiskInv, TypeOK
<1>2. c \in Call /\ c.step = "readClaim" /\ c.file = f
  BY <1>1, ReadCall
<1> HIDE DEF f, c
<1>3. /\ op'[r] = c /\ \A q \in Slot : q # r => op'[q] = op[q]
      /\ linked'[k] = None /\ \A j \in Key : j # k => linked'[j] = linked[j]
  BY <1>1, <1>2 DEF DiskInv, TypeOK
<1>4. TypeOK'
  BY <1>1, <1>2 DEF DiskInv, TypeOK
<1>5. /\ ~Writing(r)' /\ Holding(r)' /\ Reading(r)'
      /\ \A q \in Slot : q # r => /\ Writing(q)' <=> Writing(q)
                                  /\ Holding(q)' <=> Holding(q)
                                  /\ Reading(q)' <=> Reading(q)
  BY <1>2, <1>3 DEF Writing, Holding, Reading
<1>6. \A q \in Slot : CallOK(q)'
  BY <1>1, <1>2, <1>3, <1>5 DEF DiskInv, CallOK
\* The file had the name of key k only, and no call was taking it.
<1>7. /\ expires[f] # None /\ \A j \in Key : j # k => linked[j] # f
      /\ \A q \in Slot : Holding(q) => op[q].file # f
  BY <1>1 DEF f, DiskInv, OneName
<1>8. OneName'
  <2>1. \A j \in Key : linked'[j] # None => j # k /\ linked'[j] = linked[j]
    BY <1>3
  <2>2. \A i, j \in Key : linked'[i] # None /\ linked'[i] = linked'[j] => i = j
    BY <2>1 DEF DiskInv, OneName
  <2>3. \A j \in Key : linked'[j] # None =>
            linked'[j] \notin claims' /\ expires'[linked'[j]] # None
    BY <1>1, <1>7, <2>1 DEF DiskInv, OneName
  <2>4. \A g \in claims' : expires'[g] # None
    BY <1>1, <1>7 DEF DiskInv, OneName
  <2>5. \A q \in Slot : Holding(q)' =>
            expires'[op'[q].file] # None /\ \A j \in Key : linked'[j] # op'[q].file
    <3> SUFFICES ASSUME NEW q \in Slot, Holding(q)'
                 PROVE  /\ expires[op'[q].file] # None /\ op'[q].file # None
                        /\ \A j \in Key : j # k => linked[j] # op'[q].file
      BY <1>1, <1>3
    <3>1. CASE q = r
      BY <1>1, <1>2, <1>3, <1>7, <3>1
    <3>2. CASE q # r
      BY <1>3, <1>5, <3>2, SaveNames DEF DiskInv, OneName, CallOK
    <3> QED
      BY <3>1, <3>2
  <2> QED
    BY <2>2, <2>3, <2>4, <2>5 DEF OneName
<1>9. OneTaker'
  BY <1>2, <1>3, <1>5, <1>7 DEF DiskInv, OneTaker
<1>10. OneFile'
  BY <1>1, <1>3, <1>5 DEF DiskInv, OneFile
<1>11. \A g \in Save : content[g] \in Save /\ observed[content[g]] > 0 => g # f
  BY <1>1 DEF f, DiskInv, Spent
<1>12. Spent'
  BY <1>1, <1>2, <1>3, <1>5, <1>11, SaveNames DEF DiskInv, Spent
<1> QED
  BY <1>4, <1>6, <1>8, <1>9, <1>10, <1>12 DEF DiskInv

\* The value is in the one file that only this call takes.
LEMMA InvReadClaim ==
    ASSUME DiskInv, NEW r \in Slot, ReadClaim(r)
    PROVE  DiskInv'
<1> DEFINE f == op[r].file
           c == [op[r] EXCEPT !.step = "rmClaim"]
<1>1. Reading(r) /\ Holding(r) /\ f \in Save
  BY DEF ReadClaim, Reading, Holding, DiskInv, CallOK
<1>2. c \in Call /\ c.step = "rmClaim" /\ c.file = f
  BY DEF Call, Step, DiskInv, TypeOK
<1>3. op' = [op EXCEPT ![r] = c] /\ UNCHANGED <<now, expires, disk, sweep, crashes>>
  BY DEF ReadClaim
<1>4. \/ observed' = observed
      \/ content[f] \in Save /\ observed' = [observed EXCEPT ![content[f]] = @ + 1]
  BY DEF ReadClaim, Parsed
<1> HIDE DEF f, c
<1>5. op'[r] = c /\ (\A q \in Slot : q # r => op'[q] = op[q]) /\ op' \in [Slot -> Call]
  BY <1>2, <1>3 DEF DiskInv, TypeOK
<1>6. /\ ~Writing(r)' /\ Holding(r)' /\ ~Reading(r)'
      /\ \A q \in Slot : q # r => /\ Writing(q)' <=> Writing(q)
                                  /\ Holding(q)' <=> Holding(q)
                                  /\ Reading(q)' <=> Reading(q)
  BY <1>2, <1>5 DEF Writing, Holding, Reading
<1>7. TypeOK' /\ (\A q \in Slot : CallOK(q)')
  BY <1>1, <1>2, <1>3, <1>4, <1>5, <1>6 DEF disk, DiskInv, TypeOK, CallOK
<1>8. OneName' /\ OneTaker'
  BY <1>1, <1>2, <1>3, <1>5, <1>6 DEF f, disk, DiskInv, OneName, OneTaker
<1>9. CASE observed' = observed
  <2>1. OneFile' /\ Spent'
    BY <1>2, <1>3, <1>5, <1>6, <1>9 DEF disk, DiskInv, OneFile, Spent
  <2> QED
    BY <1>7, <1>8, <2>1 DEF DiskInv
<1>10. CASE content[f] \in Save /\ observed' = [observed EXCEPT ![content[f]] = @ + 1]
  <2> DEFINE s == content[f]
  <2>1. observed[s] = 0 /\ expires[s] # None
    BY <1>1, <1>10 DEF f, DiskInv, Spent, OneFile, TypeOK
  <2>2. observed'[s] = 1 /\ \A t \in Save : t # s => observed'[t] = observed[t]
    BY <1>10, <2>1 DEF DiskInv, TypeOK
  <2>3. OneFile'
    BY <1>1, <1>3, <1>5, <1>6, <1>10, <2>2 DEF disk, DiskInv, OneFile, CallOK
  <2>4. \A g \in Save : content[g] = s => g = f
    BY <1>1, <1>10 DEF DiskInv, OneFile
  <2>5. \A q \in Slot : Reading(q)' => op'[q].file # f
    BY <1>1, <1>5, <1>6 DEF f, DiskInv, OneTaker, Reading, Holding
  <2>6. \A j \in Key : linked[j] # f
    BY <1>1 DEF f, DiskInv, OneName
  <2>7. Spent'
    BY <1>3, <1>5, <1>6, <2>1, <2>2, <2>4, <2>5, <2>6 DEF disk, DiskInv, Spent
  <2> QED
    BY <1>7, <1>8, <2>3, <2>7 DEF DiskInv
<1> QED
  BY <1>4, <1>9, <1>10

--------------------------------------------------------------------------------
LEMMA DiskNext == DiskInv /\ [Next]_vars => DiskInv'
BY InvSaveOpen, InvSaveWrite, InvTakeRename, InvReadClaim, InvShrink, GetExpiredShrinks,
   RemoveShrinks, CleanupShrinks, OtherShrinks DEF Next, Start, Continue

LEMMA DiskInvariant == Spec => []DiskInv
BY DiskInit, DiskNext, PTL DEF Spec

\* The directory of DiskStore, its calls and its sweeps keep their types: a file
\* holds its own save, nothing yet, or what two saves garbled.
THEOREM DiskTypesHold == Spec => []TypeOK
<1>1. DiskInv => TypeOK
  BY DEF DiskInv
<1> QED
  BY <1>1, DiskInvariant, PTL

\* take() returns a value to one caller only, and after that no get() and no
\* take() finds it: for every number of processes that share the directory, of
\* concurrent saves of the same key (which may garble each other), of sweeps
\* and of crashes.
THEOREM TakenOnceHolds == Spec => []TakenOnce
<1>1. DiskInv => TakenOnce
  <2> SUFFICES ASSUME DiskInv, NEW s \in Save
               PROVE  /\ observed[s] <= 1
                      /\ observed[s] = 1 =>
                            \A k \in Key : linked[k] # None => content[linked[k]] # s
    BY DEF TakenOnce
  <2>1. observed[s] = 0 \/ observed[s] = 1
    BY DEF DiskInv, Spent, TypeOK
  <2> QED
    BY <2>1 DEF DiskInv, Spent, TypeOK
<1> QED
  BY <1>1, DiskInvariant, PTL

--------------------------------------------------------------------------------
(* The refinement: what each step does to the states of TokenStorage.        *)

lives == [s \in Save |-> Life(s)]

\* Where the value of a save can be, in terms of the one file that holds it.
Claimed(s) == \E f \in claims : content[f] = s
Stored(s) == \E k \in Key : linked[k] # None /\ content[linked[k]] = s
Fresh(s) == expires[s] = None \/ \E r \in Slot : Writing(r) /\ op[r].save = s

\* The five cases of Life exclude one another.
Lives ==
    \A s \in Save :
        /\ Life(s) = "observed" <=> observed[s] > 0
        /\ Life(s) = "claimed" <=> observed[s] = 0 /\ Claimed(s)
        /\ Life(s) = "stored" <=> observed[s] = 0 /\ Stored(s)
        /\ Life(s) = "new" <=> observed[s] = 0 /\ Fresh(s)
        /\ Life(s) \in {"observed", "claimed", "stored", "new", "gone"}

LEMMA LivesNow == DiskInv => Lives
<1> SUFFICES ASSUME DiskInv, NEW s \in Save
             PROVE  /\ Life(s) = "observed" <=> observed[s] > 0
                    /\ Life(s) = "claimed" <=> observed[s] = 0 /\ Claimed(s)
                    /\ Life(s) = "stored" <=> observed[s] = 0 /\ Stored(s)
                    /\ Life(s) = "new" <=> observed[s] = 0 /\ Fresh(s)
                    /\ Life(s) \in {"observed", "claimed", "stored", "new", "gone"}
  BY DEF Lives
<1>1. observed[s] = 0 \/ observed[s] > 0
  BY DEF DiskInv, TypeOK
<1>2. ~(Claimed(s) /\ Stored(s))
  BY DEF Claimed, Stored, DiskInv, TypeOK, OneName, OneFile
<1>3. Fresh(s) => ~Claimed(s) /\ ~Stored(s)
  BY DEF Fresh, Claimed, Stored, DiskInv, TypeOK, OneFile
<1> QED
  BY <1>1, <1>2, <1>3 DEF Life, Fresh, Claimed, Stored, Writing

LEMMA LivesNext == DiskInv' => Lives'
BY LivesNow, PTL

LEMMA LifeInit == Init => Promise!Init
BY DEF Init, Promise!Init, Life

\* Values only get lost.
LEMMA LoseStep ==
    ASSUME \A s \in Save : Life(s)' # Life(s) =>
               Life(s) \in {"new", "stored", "claimed"} /\ Life(s)' = "gone"
    PROVE  Promise!Next
<1> DEFINE lost == {s \in Save : Life(s)' # Life(s)}
<1>1. \A s \in lost : "gone" \in Promise!Later(lives[s])
  BY DEF Promise!Later, lives
<1>2. lives' = [s \in Save |-> IF s \in lost THEN "gone" ELSE lives[s]]
  BY DEF lives
<1>3. lost \in SUBSET Save
  OBVIOUS
<1> HIDE DEF lost
<1> QED
  BY <1>1, <1>2, <1>3 DEF Promise!Next, Promise!Lose, lives

LEMMA LifeShrink ==
    ASSUME DiskInv, DiskInv', Shrinks
    PROVE  Promise!Next
<1> USE DEF Shrinks
<1> SUFFICES ASSUME NEW s \in Save, Life(s)' # Life(s)
             PROVE  Life(s) \in {"new", "stored", "claimed"} /\ Life(s)' = "gone"
  BY LoseStep
<1>1. Claimed(s)' => Claimed(s)
  BY DEF Claimed
<1>2. Stored(s)' => Stored(s)
  BY DEF Stored
<1>3. Fresh(s)' => Fresh(s)
  BY DEF Fresh, Writing
<1> QED
  BY <1>1, <1>2, <1>3, LivesNow, LivesNext DEF Lives

\* The file the save opened was empty, or its old entry is lost.
LEMMA LifeSaveOpen ==
    ASSUME DiskInv, DiskInv', NEW r \in Slot, NEW k \in Key, NEW ttl \in Ttl,
           SaveOpen(r, k, ttl)
    PROVE  Promise!Next
<1>1. PICK t \in Save, f \in Save :
         /\ op[r] = Idle /\ expires[t] = None
         /\ expires' = [expires EXCEPT ![t] = ExpiresAt(ttl)]
         /\ linked' = [linked EXCEPT ![k] = f] /\ f \in {t, linked[k]}
         /\ content' = [content EXCEPT ![f] = None]
         /\ op'[r].step = "write" /\ op'[r].save = t
         /\ \A q \in Slot : q # r => op'[q] = op[q]
         /\ UNCHANGED <<claims, observed>>
  <2>1. PICK t \in Save :
           LET f == IF linked[k] = None THEN t ELSE linked[k] IN
           /\ op[r] = Idle /\ expires[t] = None
           /\ expires' = [expires EXCEPT ![t] = ExpiresAt(ttl)]
           /\ linked' = [linked EXCEPT ![k] = f]
           /\ content' = [content EXCEPT ![f] = None]
           /\ op' = [op EXCEPT ![r] = [Idle EXCEPT !.step = "write", !.key = k,
                                                   !.save = t, !.file = f]]
           /\ UNCHANGED <<claims, observed>>
    BY DEF SaveOpen
  <2> DEFINE f == IF linked[k] = None THEN t ELSE linked[k]
             c == [Idle EXCEPT !.step = "write", !.key = k, !.save = t, !.file = f]
  <2>2. f \in Save /\ f \in {t, linked[k]}
    BY <2>1 DEF DiskInv, TypeOK
  <2>3. op' = [op EXCEPT ![r] = c]
    BY <2>1
  <2>4. c.step = "write" /\ c.save = t
    BY DEF Idle
  <2>5. /\ op[r] = Idle /\ expires[t] = None
        /\ expires' = [expires EXCEPT ![t] = ExpiresAt(ttl)]
        /\ linked' = [linked EXCEPT ![k] = f]
        /\ content' = [content EXCEPT ![f] = None]
        /\ UNCHANGED <<claims, observed>>
    BY <2>1
  <2> HIDE DEF f, c
  <2>6. op'[r].step = "write" /\ op'[r].save = t /\ \A q \in Slot : q # r => op'[q] = op[q]
    BY <2>3, <2>4 DEF DiskInv, TypeOK
  <2> QED
    BY <2>2, <2>5, <2>6
<1>2. /\ \A g \in Save : content'[g] \in Save => content'[g] = content[g] /\ g # f
      /\ \A g \in Save : g # f => content'[g] = content[g]
      /\ linked'[k] = f /\ \A j \in Key : j # k => linked'[j] = linked[j]
      /\ \A s \in Save : s # t => expires'[s] = expires[s]
  BY <1>1, SaveNames DEF DiskInv, TypeOK
<1> SUFFICES ASSUME NEW s \in Save, Life(s)' # Life(s)
             PROVE  Life(s) \in {"new", "stored", "claimed"} /\ Life(s)' = "gone"
  BY LoseStep
<1>3. Claimed(s)' => Claimed(s)
  BY <1>1, <1>2 DEF Claimed, DiskInv, TypeOK
<1>4. Stored(s)' => Stored(s)
  BY <1>1, <1>2 DEF Stored, DiskInv, TypeOK
<1>5. Fresh(s)' <=> Fresh(s)
  BY <1>1, <1>2 DEF Fresh, Writing, Idle
<1> QED
  BY <1>1, <1>3, <1>4, <1>5, LivesNow, LivesNext DEF Lives

\* The write stores the value, or puts it into the claim file of a take(), or
\* is lost; an entry it overwrites is lost.
LEMMA LifeSaveWrite ==
    ASSUME DiskInv, DiskInv', NEW r \in Slot, SaveWrite(r)
    PROVE  Promise!Next
<1> PICK f \in Save, t \in Save : f = op[r].file /\ t = op[r].save
  BY DEF SaveWrite, Writing, DiskInv, CallOK
<1> PICK old \in SUBSET Save :
         old = {s \in Save : content[f] = s /\ Life(s) \in {"stored", "claimed"}}
  OBVIOUS
<1>1. /\ Writing(r) /\ f \in Save /\ t \in Save
      /\ expires[t] # None /\ observed[t] = 0 /\ \A g \in Save : content[g] # t
  BY DEF SaveWrite, Writing, DiskInv, CallOK, OneFile
<1>2. PICK v \in {t, Garbled} : content' = [content EXCEPT ![f] = v]
  BY DEF SaveWrite, Written
<1>3. /\ op' = [op EXCEPT ![r] = Idle]
      /\ UNCHANGED <<expires, linked, claims, observed>>
  BY DEF SaveWrite, Return
<1>4. /\ op'[r].step = "idle" /\ \A q \in Slot : q # r => op'[q] = op[q]
      /\ content'[f] = v /\ \A g \in Save : g # f => content'[g] = content[g]
  BY <1>1, <1>2, <1>3, IdleCall DEF DiskInv, TypeOK
<1>5. Life(t) = "new" /\ Life(t)' \in {"stored", "claimed", "gone"}
  <2>1. Fresh(t)
    BY <1>1 DEF Fresh
  <2>2. ~Fresh(t)'
    <3>1. \A q \in Slot : Writing(q)' => q # r /\ Writing(q) /\ op'[q] = op[q]
      BY <1>4 DEF Writing
    <3>2. \A q \in Slot : q # r /\ Writing(q) => op[q].save # t
      BY <1>1 DEF DiskInv, OneFile
    <3> QED
      BY <1>1, <1>3, <3>1, <3>2 DEF Fresh
  <2> QED
    BY <1>1, <1>3, <2>1, <2>2, LivesNow, LivesNext DEF Lives
<1>6. ASSUME NEW s \in Save, s # t
      PROVE  Life(s)' = IF s \in old THEN "gone" ELSE Life(s)
  <2>1. Fresh(s)' <=> Fresh(s)
    BY <1>3, <1>4, <1>6 DEF Fresh, Writing
  <2>2. CASE content[f] = s
    <3>1. ~Claimed(s)' /\ ~Stored(s)'
      BY <1>3, <1>4, <1>6, <2>2, SaveNames
         DEF Claimed, Stored, DiskInv, TypeOK, OneFile
    <3>2. ~Fresh(s)
      BY <1>1, <2>2 DEF Fresh, DiskInv, OneFile
    <3> QED
      BY <1>3, <2>1, <2>2, <3>1, <3>2, LivesNow, LivesNext DEF Lives
  <2>3. CASE content[f] # s
    <3>1. Claimed(s)' <=> Claimed(s)
      BY <1>3, <1>4, <1>6, <2>3, SaveNames DEF Claimed, DiskInv, TypeOK
    <3>2. Stored(s)' <=> Stored(s)
      BY <1>3, <1>4, <1>6, <2>3, SaveNames DEF Stored, DiskInv, TypeOK
    <3> QED
      BY <1>3, <2>1, <2>3, <3>1, <3>2, LivesNow, LivesNext DEF Lives
  <2> QED
    BY <2>2, <2>3
<1>7. \E x \in Promise!Later("new") :
         lives' = [s \in Save |-> IF s = t THEN x
                                  ELSE IF s \in old THEN "gone" ELSE lives[s]]
  <2>1. Life(t)' \in Promise!Later("new")
    BY <1>5 DEF Promise!Later
  <2>2. lives' = [s \in Save |-> IF s = t THEN Life(t)'
                                 ELSE IF s \in old THEN "gone" ELSE lives[s]]
    BY <1>1, <1>6 DEF lives
  <2> QED
    BY <2>1, <2>2
<1>8. lives[t] = "new" /\ \A o \in old : lives[o] \in {"stored", "claimed"}
  BY <1>1, <1>5 DEF lives
<1> QED
  BY <1>7, <1>8 DEF Promise!Next, Promise!Save, lives

\* The rename takes the value that is in the file, if there is one.
LEMMA LifeTakeRename ==
    ASSUME DiskInv, DiskInv', NEW r \in Slot, NEW k \in Key, TakeRename(r, k)
    PROVE  Promise!Next \/ UNCHANGED lives
<1> PICK f, t : f = linked[k] /\ t = content[f]
  OBVIOUS
<1>1. /\ f \in Save /\ linked' = [linked EXCEPT ![k] = None] /\ claims' = claims \cup {f}
      /\ op' = [op EXCEPT ![r] = [Idle EXCEPT !.step = "readClaim", !.file = f]]
      /\ op[r] = Idle /\ UNCHANGED <<expires, content, observed>>
  BY DEF TakeRename, PathFreed, DiskInv, TypeOK
<1>2. /\ linked'[k] = None /\ \A j \in Key : j # k => linked'[j] = linked[j]
      /\ op'[r].step = "readClaim" /\ \A q \in Slot : q # r => op'[q] = op[q]
  BY <1>1, ReadCall DEF DiskInv, TypeOK
<1>3. ASSUME NEW s \in Save, s # t
      PROVE  Life(s)' = Life(s)
  <2>1. Claimed(s)' <=> Claimed(s)
    BY <1>1, <1>3 DEF Claimed
  <2>2. Stored(s)' <=> Stored(s)
    BY <1>1, <1>2, <1>3 DEF Stored
  <2>3. Fresh(s)' <=> Fresh(s)
    BY <1>1, <1>2 DEF Fresh, Writing, Idle
  <2> QED
    BY <1>1, <2>1, <2>2, <2>3, LivesNow, LivesNext DEF Lives
<1>4. t \in Save => Life(t) = "stored" /\ Life(t)' = "claimed"
  <2> SUFFICES ASSUME t \in Save PROVE Life(t) = "stored" /\ Life(t)' = "claimed"
    OBVIOUS
  <2>1. Stored(t) /\ Claimed(t)' /\ observed[t] = 0 /\ observed'[t] = 0
    BY <1>1, SaveNames DEF Stored, Claimed, DiskInv, Spent, TypeOK
  <2> QED
    BY <2>1, LivesNow, LivesNext DEF Lives
<1>5. CASE t \in Save
  <2>1. lives[t] = "stored" /\ lives' = [lives EXCEPT ![t] = "claimed"]
    BY <1>3, <1>4, <1>5 DEF lives
  <2> QED
    BY <1>5, <2>1 DEF Promise!Next, Promise!Claim, lives
<1>6. CASE t \notin Save
  BY <1>3, <1>6 DEF lives
<1> QED
  BY <1>5, <1>6

\* The read hands the value to its caller.
LEMMA LifeReadClaim ==
    ASSUME DiskInv, DiskInv', NEW r \in Slot, ReadClaim(r)
    PROVE  Promise!Next \/ UNCHANGED lives
<1> PICK f, t : f = op[r].file /\ t = content[f]
  OBVIOUS
<1>1. /\ Reading(r) /\ op' = [op EXCEPT ![r].step = "rmClaim"]
      /\ UNCHANGED <<expires, linked, claims, content>>
  BY DEF ReadClaim, disk, Reading
<1>2. \/ observed' = observed
      \/ f \in claims /\ t \in Save /\ observed' = [observed EXCEPT ![t] = @ + 1]
  BY DEF ReadClaim, Parsed
<1>3. \A q \in Slot : (Writing(q)' <=> Writing(q)) /\ (Writing(q) => op'[q] = op[q])
  BY <1>1 DEF Writing, Reading, DiskInv, TypeOK
<1>4. \A s \in Save : /\ Claimed(s)' <=> Claimed(s)
                      /\ Stored(s)' <=> Stored(s)
                      /\ Fresh(s)' <=> Fresh(s)
  BY <1>1, <1>3 DEF Claimed, Stored, Fresh
<1>5. CASE observed' = observed
  <2>1. \A s \in Save : Life(s)' = Life(s)
    BY <1>4, <1>5, LivesNow, LivesNext DEF Lives
  <2> QED
    BY <2>1 DEF lives
<1>6. CASE f \in claims /\ t \in Save /\ observed' = [observed EXCEPT ![t] = @ + 1]
  <2>1. observed[t] = 0 /\ Claimed(t)
    BY <1>1, <1>6 DEF Claimed, DiskInv, Spent, TypeOK
  <2>2. observed'[t] > 0 /\ \A s \in Save : s # t => observed'[s] = observed[s]
    BY <1>6, <2>1 DEF DiskInv, TypeOK
  <2>3. /\ Life(t) = "claimed" /\ Life(t)' = "observed"
        /\ \A s \in Save : s # t => Life(s)' = Life(s)
    BY <1>4, <1>6, <2>1, <2>2, LivesNow, LivesNext DEF Lives
  <2>4. lives[t] = "claimed" /\ lives' = [lives EXCEPT ![t] = "observed"]
    BY <1>6, <2>3 DEF lives
  <2> QED
    BY <1>6, <2>4 DEF Promise!Next, Promise!Observe, lives
<1> QED
  BY <1>2, <1>5, <1>6

LEMMA LifeNext == DiskInv /\ DiskInv' /\ [Next]_vars => Promise!Next \/ UNCHANGED lives
<1> SUFFICES ASSUME DiskInv, DiskInv', [Next]_vars PROVE Promise!Next \/ UNCHANGED lives
  OBVIOUS
<1>1. CASE \E r \in Slot, k \in Key, ttl \in Ttl : SaveOpen(r, k, ttl)
  BY <1>1, LifeSaveOpen
<1>2. CASE \E r \in Slot : SaveWrite(r)
  BY <1>2, LifeSaveWrite
<1>3. CASE \E r \in Slot, k \in Key : TakeRename(r, k)
  BY <1>3, LifeTakeRename
<1>4. CASE \E r \in Slot : ReadClaim(r)
  BY <1>4, LifeReadClaim
<1>5. CASE \E r \in Slot, k \in Key : GetExpired(r, k)
  BY <1>5, GetExpiredShrinks, LifeShrink
<1>6. CASE (\E r \in Slot : RmExpired(r) \/ RmClaim(r)) \/ \E k \in Key : Delete(k)
  BY <1>6, RemoveShrinks, LifeShrink
<1>7. CASE \E p \in Process : Cleanup(p)
  BY <1>7, CleanupShrinks, LifeShrink
<1>8. CASE (\E p \in Process : Crash(p)) \/ Tick \/ UNCHANGED vars
  BY <1>8, OtherShrinks, LifeShrink
<1> QED
  BY <1>1, <1>2, <1>3, <1>4, <1>5, <1>6, <1>7, <1>8 DEF Next, Start, Continue

\* DiskStore implements the take() that TokenStorage promises: a value moves
\* from its key to one caller and never back.
THEOREM DiskStoreRefines == Spec => ImplementsTokenStorage
<1>1. Init => Promise!Init
  BY LifeInit
<1>2. DiskInv /\ DiskInv' /\ [Next]_vars => [Promise!Next]_lives
  BY LifeNext
<1> QED
  BY <1>1, <1>2, DiskInvariant, PTL DEF Spec, ImplementsTokenStorage, Promise!Spec, lives
================================================================================
