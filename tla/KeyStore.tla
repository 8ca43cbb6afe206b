------------------------------ MODULE KeyStore ------------------------------
(***************************************************************************)
(* The API key store (authkeys.go, flock_unix.go): a table of keys in      *)
(* every process that has the store open, and one file behind them.        *)
(*                                                                         *)
(* A server and the operator's `keys` command are processes.  The requests *)
(* of a server share its table under s.mu; a process that changes the file *)
(* also holds the flock, which the kernel drops when the process dies.  A  *)
(* lookup answers from its process's table and looks at the file only once *)
(* per reload interval, reading it again when its mtime has changed.  An   *)
(* mtime is the number of the write that made it: two writes never share   *)
(* one, which is what the code relies on.                                  *)
(***************************************************************************)
EXTENDS Integers, FiniteSets

CONSTANTS Keys,      \* the keys newKey may mint
          Users,     \* the Discord users
          Owner,     \* whom a key is minted for: a user, or None for a service key
          Processes, \* servers and keys commands; a command is a process for one call
          Servers,   \* those that stay, and answer lookups
          Actors,    \* the requests of a server, the main goroutine of a command
          Home,      \* the process of an actor
          TTL,       \* the reload interval
          MaxTime,   \* bounds the clock
          Faults,    \* "save", "io", "crash", "delete"
          None

ASSUME ProcessAssumption == Servers \subseteq Processes /\ Home \in [Actors -> Processes]
ASSUME TimeAssumption == TTL \in Nat \ {0} /\ MaxTime \in Nat
ASSUME NoneAssumption == None \notin Actors \cup Users \cup Keys
ASSUME OwnerAssumption == Owner \in [Keys -> Users \cup {None}]

VARIABLES
    disk,      \* keys.json: what it says of every key
    present,   \* whether there is a keys.json
    writes,    \* how often it was written: the mtime of the file, if there is one
    flock,     \* the process's actor that holds keys.json.lock, or None
    up,        \* a server is "down", "opening" the store or "up"
    mem,       \* s.recs of a process
    lastCheck, \* s.lastCheck of a server; a command never reads its own
    lastMod,   \* s.lastMod of a server, 0 for the zero time
    mu,        \* the actor that holds s.mu for writing, or None
    pc,        \* what an actor does next
    call,      \* its request: the keys it adds and revokes or the key it looks up,
               \* the time it captured and the mtime it saw
    clock,
    blind,     \* history: this process missed a change of the file after a fault, or in Open
    born, died \* history: when a key became active on disk, when it ceased to be

files == <<disk, present, writes>>
processes == <<up, mem, lastCheck, lastMod, blind>>
actors == <<mu, flock, pc, call>>
history == <<born, died>>
vars == <<files, processes, actors, clock, history>>

Never == MaxTime + 1
Status == {"absent", "active", "revoked"}
Tables == [Keys -> Status]
Empty == [k \in Keys |-> "absent"]

NoCall == [new |-> {}, old |-> {}, now |-> 0, stat |-> 0]

\* The mtime os.Stat reports; there is none without a file.
Stat == IF present THEN writes ELSE 0
Up(a) == Home[a] \in Servers => up[Home[a]] = "up"
Table(a) == mem[Home[a]]
Alone(a) == mu[Home[a]] = None

KeysOf(u) == {k \in Keys : Owner[k] = u}

\* Wrong: the user's keys are left as they are.
PriorKept(k) == {}

\* The keys that issuing k revokes: those of its user, and none for a service key.
Prior(k) == IF Owner[k] = None THEN {} ELSE KeysOf(Owner[k])

\* t after a call that adds the keys new and revokes those of old that are active.
Applied(t, new, old) ==
    [k \in Keys |-> IF k \in new THEN "active"
                    ELSE IF k \in old /\ t[k] = "active" THEN "revoked" ELSE t[k]]

Goto(a, there) == pc' = [pc EXCEPT ![a] = there]
Return(a) == Goto(a, "idle") /\ call' = [call EXCEPT ![a] = NoCall]

Init ==
    /\ disk = Empty /\ present = FALSE /\ writes = 0
    /\ up = [p \in Servers |-> "down"]
    /\ mem = [p \in Processes |-> Empty]
    /\ lastCheck = [p \in Servers |-> 0]
    /\ lastMod = [p \in Servers |-> 0]
    /\ blind = [p \in Servers |-> FALSE]
    /\ mu = [p \in Processes |-> None]
    /\ flock = None
    /\ pc = [a \in Actors |-> "idle"]
    /\ call = [a \in Actors |-> NoCall]
    /\ clock = 0
    /\ born = [k \in Keys |-> Never]
    /\ died = [k \in Keys |-> Never]

-----------------------------------------------------------------------------
(* Open, by a server: the file is read, then stat'ed, without the flock.  What *)
(* a command's Open reads, its call reads again. *)

OpenRead(p) ==
    /\ up[p] = "down"
    /\ up' = [up EXCEPT ![p] = "opening"]
    /\ mem' = [mem EXCEPT ![p] = disk]
    /\ UNCHANGED <<files, lastCheck, lastMod, blind, actors, clock, history>>

OpenStat(p) ==
    /\ up[p] = "opening"
    /\ up' = [up EXCEPT ![p] = "up"]
    /\ lastCheck' = [lastCheck EXCEPT ![p] = clock]
    /\ lastMod' = [lastMod EXCEPT ![p] = Stat]
    /\ blind' = [blind EXCEPT ![p] = mem[p] # disk]
    /\ UNCHANGED <<files, mem, actors, clock, history>>

-----------------------------------------------------------------------------
(* Lookup, of a server: the keys in call.old are the one presented. *)

LookupCall(a) ==
    /\ Up(a) /\ Home[a] \in Servers /\ pc[a] = "idle"
    /\ \E k \in Keys : call' = [call EXCEPT ![a] = [NoCall EXCEPT !.old = {k}, !.now = clock]]
    /\ Goto(a, "fresh")
    /\ UNCHANGED <<files, processes, mu, flock, clock, history>>

\* The table is good enough to answer from; the mtime seen is of no more use.
Settled(a) == Goto(a, "answer") /\ call' = [call EXCEPT ![a].stat = 0]

\* Wrong: a check one interval old counts as recent.
RecentStill(a) == call[a].now - lastCheck[Home[a]] <= TTL

\* Whether the last check is recent for this lookup's captured time.
Recent(a) == call[a].now - lastCheck[Home[a]] < TTL

LookupFresh(a) ==
    /\ pc[a] = "fresh" /\ Alone(a)
    /\ Goto(a, IF Recent(a) THEN "answer" ELSE "stat")
    /\ UNCHANGED <<files, processes, mu, flock, call, clock, history>>

LookupStat(a) ==
    /\ pc[a] = "stat"
    /\ call' = [call EXCEPT ![a].stat = Stat]
    /\ Goto(a, "recheck")
    /\ UNCHANGED <<files, processes, mu, flock, clock, history>>

\* The stat failed: the table is kept for another interval.
LookupStatFails(a) ==
    /\ "io" \in Faults /\ pc[a] = "stat" /\ Alone(a)
    /\ Settled(a)
    /\ lastCheck' = [lastCheck EXCEPT ![Home[a]] = IF Recent(a) THEN @ ELSE call[a].now]
    /\ blind' = [blind EXCEPT ![Home[a]] = @ \/ (~Recent(a) /\ Table(a) # disk)]
    /\ UNCHANGED <<files, up, mem, lastMod, mu, flock, clock, history>>

\* Under s.mu: another lookup may have checked; a file that is gone empties the
\* table; an unchanged mtime settles it; else the file must be read, s.mu held.
LookupRecheck(a) ==
    LET p == Home[a]
        gone == call[a].stat = 0
    IN  /\ pc[a] = "recheck" /\ Alone(a)
        /\ IF Recent(a)
           THEN /\ Settled(a)
                /\ UNCHANGED <<mem, lastCheck, lastMod, mu>>
           ELSE /\ lastCheck' = [lastCheck EXCEPT ![p] = call[a].now]
                /\ mem' = [mem EXCEPT ![p] = IF gone THEN Empty ELSE @]
                /\ lastMod' = [lastMod EXCEPT ![p] = IF gone THEN 0 ELSE @]
                /\ IF gone \/ call[a].stat = lastMod[p]
                   THEN Settled(a) /\ UNCHANGED mu
                   ELSE Goto(a, "reload") /\ UNCHANGED call /\ mu' = [mu EXCEPT ![p] = a]
        /\ UNCHANGED <<files, up, blind, flock, clock, history>>

\* The flock is taken, the file read and stat'ed again, both locks released.  If
\* the second stat fails, the first one's mtime is kept.
LookupReload(a) ==
    LET p == Home[a] IN
    /\ pc[a] = "reload" /\ flock = None
    /\ mem' = [mem EXCEPT ![p] = disk]
    /\ \E m \in {Stat} \cup (IF "io" \in Faults THEN {call[a].stat} ELSE {}) :
            lastMod' = [lastMod EXCEPT ![p] = m]
    /\ blind' = [blind EXCEPT ![p] = FALSE]
    /\ mu' = [mu EXCEPT ![p] = None]
    /\ Settled(a)
    /\ UNCHANGED <<files, up, lastCheck, flock, clock, history>>

\* The lock file cannot be locked or the file not read: the table is kept.
LookupReloadFails(a) ==
    /\ "io" \in Faults /\ pc[a] = "reload"
    /\ blind' = [blind EXCEPT ![Home[a]] = @ \/ Table(a) # disk]
    /\ mu' = [mu EXCEPT ![Home[a]] = None]
    /\ Settled(a)
    /\ UNCHANGED <<files, up, mem, lastCheck, lastMod, flock, clock, history>>

\* Whether the key presented authenticates, by the table.
Accepts(a) == \A k \in call[a].old : Table(a)[k] = "active"

LookupAnswer(a) ==
    /\ pc[a] = "answer" /\ Alone(a)
    /\ Return(a)
    /\ UNCHANGED <<files, processes, mu, flock, clock, history>>

-----------------------------------------------------------------------------
(* Issue and Revoke: s.mu, the flock, a reload, the change, one write. *)

MutateCall(a, new, old) ==
    /\ Up(a) /\ pc[a] = "idle"
    /\ call' = [call EXCEPT ![a] = [NoCall EXCEPT !.new = new, !.old = old]]
    /\ Goto(a, "mu")
    /\ UNCHANGED <<files, processes, mu, flock, clock, history>>

\* newKey never mints a key twice.  The portal issues for its visitor, the command
\* for anyone.
IssueCall(a) ==
    \E k \in Keys :
        /\ born[k] = Never
        /\ \A b \in Actors : k \notin call[b].new
        /\ Home[a] \in Servers => Owner[k] # None
        /\ MutateCall(a, {k}, Prior(k))

\* Only the command revokes: by key or hash, or by user.
RevokeCall(a) ==
    /\ Home[a] \notin Servers
    /\ \/ \E k \in Keys : MutateCall(a, {}, {k})
       \/ \E u \in Users : MutateCall(a, {}, KeysOf(u))

MutateLock(a) ==
    /\ pc[a] = "mu" /\ Alone(a)
    /\ mu' = [mu EXCEPT ![Home[a]] = a]
    /\ Goto(a, "flock")
    /\ UNCHANGED <<files, processes, flock, call, clock, history>>

\* Wrong: the call works on the table as it is.
MutateReloadSkipped(a) ==
    /\ pc[a] = "flock" /\ flock = None
    /\ flock' = a
    /\ Goto(a, "save")
    /\ UNCHANGED <<files, processes, mu, call, clock, history>>

MutateReload(a) ==
    /\ pc[a] = "flock" /\ flock = None
    /\ flock' = a
    /\ mem' = [mem EXCEPT ![Home[a]] = disk]
    /\ blind' = [p \in Servers |-> blind[p] /\ p # Home[a]]
    /\ Goto(a, "save")
    /\ UNCHANGED <<files, up, lastCheck, lastMod, mu, call, clock, history>>

\* Both locks are released; a command ends with its call.
Release(a) ==
    /\ mem' = IF Home[a] \in Servers THEN mem ELSE [mem EXCEPT ![Home[a]] = Empty]
    /\ mu' = [mu EXCEPT ![Home[a]] = None]
    /\ flock' = IF flock = a THEN None ELSE flock
    /\ Return(a)

\* The flock or the reload fails, the call with it.
MutateReloadFails(a) ==
    /\ "io" \in Faults /\ pc[a] = "flock"
    /\ Release(a)
    /\ UNCHANGED <<files, up, lastCheck, lastMod, blind, clock, history>>

\* The change is applied to the table and the table written: saveLocked's rename.
MutateSave(a) ==
    LET t == Applied(Table(a), call[a].new, call[a].old) IN
    /\ pc[a] = "save" /\ t # Table(a)
    /\ mem' = [mem EXCEPT ![Home[a]] = t]
    /\ disk' = t /\ present' = TRUE /\ writes' = writes + 1
    /\ born' = [k \in Keys |-> IF t[k] = "active" /\ disk[k] # "active" THEN clock ELSE born[k]]
    /\ died' = [k \in Keys |-> IF t[k] # "active" /\ disk[k] = "active" THEN clock ELSE died[k]]
    /\ Goto(a, "stamp")
    /\ UNCHANGED <<up, lastCheck, lastMod, blind, mu, flock, call, clock>>

\* Wrong: the change stays in the table.
MutateSaveFailsChanged(a) ==
    /\ "save" \in Faults /\ pc[a] = "save"
    /\ Home[a] \in Servers
    /\ mem' = [mem EXCEPT ![Home[a]] = Applied(@, call[a].new, call[a].old)]
    /\ mu' = [mu EXCEPT ![Home[a]] = None] /\ flock' = None
    /\ Return(a)
    /\ UNCHANGED <<files, up, lastCheck, lastMod, blind, clock, history>>

\* The write fails: the table is what it was before the call.
MutateSaveFails(a) ==
    /\ "save" \in Faults /\ pc[a] = "save"
    /\ Applied(Table(a), call[a].new, call[a].old) # Table(a)
    /\ Release(a)
    /\ UNCHANGED <<files, up, lastCheck, lastMod, blind, clock, history>>

\* A Revoke that matches no active key writes nothing.
RevokeNothing(a) ==
    /\ pc[a] = "save" /\ Applied(Table(a), call[a].new, call[a].old) = Table(a)
    /\ Release(a)
    /\ UNCHANGED <<files, up, lastCheck, lastMod, blind, clock, history>>

\* noteReloaded, then both locks are released.  A stat that fails here is left out: it
\* only makes the next check reload.
MutateStamp(a) ==
    /\ pc[a] = "stamp"
    /\ lastCheck' = [p \in Servers |-> IF p = Home[a] THEN clock ELSE lastCheck[p]]
    /\ lastMod' = [p \in Servers |-> IF p = Home[a] THEN Stat ELSE lastMod[p]]
    /\ Release(a)
    /\ UNCHANGED <<files, up, blind, clock, history>>

-----------------------------------------------------------------------------
(* What happens to the processes and the file from outside. *)

\* A process dies, in the middle of its calls or not; the kernel drops its flock.
Crash(p) ==
    LET mine == {a \in Actors : Home[a] = p}
        Reset(f, v) == [q \in Servers |-> IF q = p THEN v ELSE f[q]]
    IN  /\ "crash" \in Faults
        /\ IF p \in Servers THEN up[p] # "down" ELSE \E a \in mine : pc[a] # "idle"
        /\ up' = Reset(up, "down") /\ blind' = Reset(blind, FALSE)
        /\ lastCheck' = Reset(lastCheck, 0) /\ lastMod' = Reset(lastMod, 0)
        /\ mem' = [mem EXCEPT ![p] = Empty]
        /\ mu' = [mu EXCEPT ![p] = None]
        /\ flock' = IF flock \in mine THEN None ELSE flock
        /\ pc' = [a \in Actors |-> IF a \in mine THEN "idle" ELSE pc[a]]
        /\ call' = [a \in Actors |-> IF a \in mine THEN NoCall ELSE call[a]]
        /\ UNCHANGED <<files, clock, history>>

\* An operator deletes the file, while no command runs.
Delete ==
    /\ "delete" \in Faults /\ present /\ flock = None
    /\ disk' = Empty /\ present' = FALSE
    /\ died' = [k \in Keys |-> IF disk[k] = "active" THEN clock ELSE died[k]]
    /\ UNCHANGED <<writes, processes, actors, clock, born>>

Tick == clock < MaxTime /\ clock' = clock + 1 /\ UNCHANGED <<files, processes, actors, history>>

Lookup(a) ==
    \/ LookupCall(a) \/ LookupFresh(a) \/ LookupStat(a) \/ LookupStatFails(a)
    \/ LookupRecheck(a) \/ LookupReload(a) \/ LookupReloadFails(a) \/ LookupAnswer(a)

Mutate(a) ==
    \/ IssueCall(a) \/ RevokeCall(a) \/ MutateLock(a) \/ MutateReload(a) \/ MutateReloadFails(a)
    \/ MutateSave(a) \/ MutateSaveFails(a) \/ RevokeNothing(a) \/ MutateStamp(a)

Next ==
    \/ \E a \in Actors : Lookup(a) \/ Mutate(a)
    \/ \E p \in Servers : OpenRead(p) \/ OpenStat(p)
    \/ \E p \in Processes : Crash(p)
    \/ Delete
    \/ Tick

Spec == Init /\ [][Next]_vars

-----------------------------------------------------------------------------

TypeOK ==
    /\ disk \in Tables /\ mem \in [Processes -> Tables]
    /\ present \in BOOLEAN /\ writes \in Nat
    /\ up \in [Servers -> {"down", "opening", "up"}]
    /\ lastCheck \in [Servers -> 0..MaxTime] /\ lastMod \in [Servers -> 0..writes]
    /\ blind \in [Servers -> BOOLEAN]
    /\ mu \in [Processes -> Actors \cup {None}] /\ flock \in Actors \cup {None}
    /\ pc \in [Actors -> {"idle", "fresh", "stat", "recheck", "reload", "answer",
                                    "mu", "flock", "save", "stamp"}]
    /\ call \in [Actors -> [new : SUBSET Keys, old : SUBSET Keys, now : 0..MaxTime, stat : 0..writes]]
    /\ clock \in 0..MaxTime
    /\ born \in [Keys -> 0..Never] /\ died \in [Keys -> 0..Never]

\* However many processes issue and revoke, and wherever they die, keys.json is
\* changed as if by one command at a time, each applied to what the last one left:
\* no write is lost, none is half done, and no key comes back (issue, Revoke).
Register == INSTANCE KeyRegister WITH table <- disk, minted <- {k \in Keys : born[k] # Never}
ImplementsRegister == Register!Spec

\* No user has two active keys, neither in the file nor in the table a server
\* answers from (issue's D4 invariant).
OneActiveKey(t) ==
    \A j, k \in Keys : t[j] = "active" /\ t[k] = "active" /\ j # k /\ Owner[j] = Owner[k] => Owner[j] = None
OneActivePerUser == OneActiveKey(disk) /\ \A p \in Processes : OneActiveKey(mem[p])

\* Whoever may read a table finds it equal to the file, or the next check of the
\* mtime will tell that it is not (maybeReloadForLookup, and the rollbacks of issue
\* and Revoke); only a write that hit Open between its read and its stat escapes.
StaleIsNoticed ==
    \A p \in Servers :
        (up[p] = "up" /\ mu[p] = None /\ ~blind[p] /\ mem[p] # disk)
            => ~present \/ lastMod[p] # Stat

\* A lookup's answer is at most one reload interval old: it accepts no key that
\* ceased to be active, and rejects none that became and still is active, an interval
\* or more before the lookup began.
LookupTimely ==
    [][\A a \in Actors :
        (LookupAnswer(a) /\ ~blind[Home[a]])
            => \A k \in call[a].old :
                /\ Accepts(a) => died[k] + TTL > call[a].now
                /\ ~Accepts(a) => ~(born[k] + TTL <= call[a].now /\ disk[k] = "active")]_vars
=============================================================================
