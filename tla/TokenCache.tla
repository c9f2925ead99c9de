------------------------------ MODULE TokenCache ------------------------------
(***************************************************************************)
(* The token cache shared by all commands of a home directory (auth.py,    *)
(* secret_files.py): a file that is reloaded, used and saved under a lock. *)
(* get_token waits for the lock a bounded time, login and logout for ever, *)
(* and login keeps it while somebody answers the sign-in dialog.  Within   *)
(* session-end maintenance a token is acquired by a child process, which   *)
(* the caller stops when the time is up (_acquire_bounded_token).          *)
(*                                                                         *)
(* The file is the set of tokens in it; an account is there as soon as a   *)
(* token is.  MSAL and the sign-in service answer as they please, and      *)
(* expired tokens are not taken out.  A public client is modelled, and the *)
(* file is always readable.                                                *)
(***************************************************************************)
EXTENDS Naturals

CONSTANTS
    Proc,       \* processes
    NoOne,      \* nobody holds the lock
    NoFile,     \* there is no token cache
    Faults,     \* which of "crash" and "write" may happen
    MaxTokens,  \* bound on the tokens issued
    MaxFaults   \* bound on the faults

ASSUME TokenAssumption == MaxTokens \in Nat /\ MaxFaults \in Nat

\* A process, and the child it lets acquire a token (_token_worker).
Main(p) == <<p, "main">>
Worker(p) == <<p, "worker">>
Agent == Proc \X {"main", "worker"}
Token == 1..MaxTokens

ASSUME AgentAssumption == NoOne \notin Agent /\ \A tokens \in SUBSET Token : tokens # NoFile

VARIABLES
    cache,      \* token_cache.json
    holder,     \* who holds its lock
    at,         \* where each agent is
    memory,     \* the cache each agent has in memory
    reply,      \* what get_token gave
    issued,     \* the number of tokens issued
    deleted,    \* history: the tokens a logout has deleted
    orphaned,   \* history: processes that died while their child was running
    faults      \* faults still to come

tokenVars == <<cache, holder, at, memory, reply, issued, deleted, orphaned, faults>>

Labels == {"idle", "get", "silent", "save", "login", "interactive", "keep", "prewarm",
           "settle", "device", "logout", "unlink", "polling", "stopping"}

TokenTypeOK ==
    /\ cache \in (SUBSET Token) \cup {NoFile}
    /\ holder \in Agent \cup {NoOne}
    /\ at \in [Agent -> Labels]
    /\ memory \in [Agent -> SUBSET Token]
    /\ reply \in [Agent -> {"none", "token", "error"}]
    /\ issued \in 0..MaxTokens
    /\ deleted \in SUBSET Token
    /\ orphaned \in SUBSET Proc
    /\ faults \in 0..MaxFaults

TokenInit ==
    /\ cache = NoFile /\ holder = NoOne
    /\ at = [a \in Agent |-> "idle"] /\ memory = [a \in Agent |-> {}]
    /\ reply = [a \in Agent |-> "none"]
    /\ issued = 0 /\ deleted = {} /\ orphaned = {} /\ faults = MaxFaults

Stored == IF cache = NoFile THEN {} ELSE cache
Locked(a) == holder = a
Go(a, label) == at' = [at EXCEPT ![a] = label]
Unfaulted == UNCHANGED <<orphaned, faults>>

\* What an agent holds when its command or transaction ends.
End(a, answer) ==
    /\ Go(a, "idle") /\ reply' = [reply EXCEPT ![a] = answer]
    /\ memory' = [memory EXCEPT ![a] = {}]
    /\ holder' = IF Locked(a) THEN NoOne ELSE holder

\* AuthManager.__init__ loads the cache without the lock.
Construct(a, label) ==
    /\ at[a] = "idle"
    /\ Go(a, label) /\ memory' = [memory EXCEPT ![a] = Stored]
    /\ reply' = [reply EXCEPT ![a] = "none"]
    /\ UNCHANGED <<cache, holder, issued, deleted>> /\ Unfaulted

Get(p) == Construct(Main(p), "get")
Login(p) == Construct(Main(p), "login")
Logout(p) == Construct(Main(p), "logout")

Inside(label) == CASE label = "get" -> "silent" [] label = "login" -> "interactive"

\* Variant: the cache loaded at first is used.
TransactionWithFirst(a) ==
    /\ at[a] \in {"get", "login"} /\ holder = NoOne
    /\ holder' = a
    /\ Go(a, Inside(at[a]))
    /\ UNCHANGED <<cache, memory, reply, issued, deleted>> /\ Unfaulted

\* _cache_transaction.
Transaction(a) ==
    /\ at[a] \in {"get", "login"} /\ holder = NoOne
    /\ holder' = a
    /\ memory' = [memory EXCEPT ![a] = Stored]
    /\ Go(a, Inside(at[a]))
    /\ UNCHANGED <<cache, reply, issued, deleted>> /\ Unfaulted

\* AUTH_CACHE_LOCK_TIMEOUT.
Busy(a) ==
    /\ at[a] = "get" /\ holder \notin {NoOne, a}
    /\ End(a, "error")
    /\ UNCHANGED <<cache, issued, deleted>> /\ Unfaulted

\* A new token is in memory.
Issue(a) ==
    /\ issued < MaxTokens
    /\ issued' = issued + 1
    /\ memory' = [memory EXCEPT ![a] = @ \cup {issued'}]

\* acquire_token_silent_with_error: the cached token, a new one or none.
Silent(a) ==
    /\ at[a] = "silent"
    /\ \/ End(a, "error") /\ UNCHANGED issued
       \/ memory[a] # {} /\ End(a, "token") /\ UNCHANGED issued
       \/ memory[a] # {} /\ Issue(a) /\ Go(a, "save") /\ UNCHANGED <<holder, reply>>
    /\ UNCHANGED <<cache, deleted>> /\ Unfaulted

\* _save_cache is the last step of get_token and of the device code flow.
Save(a) ==
    /\ at[a] = "save"
    /\ cache' = memory[a]
    /\ End(a, "token")
    /\ UNCHANGED <<issued, deleted>> /\ Unfaulted

-----------------------------------------------------------------------------
(* login.                                                                  *)

\* A token, an answer without one, or no dialog at all.
Interactive(a) ==
    /\ at[a] = "interactive"
    /\ \/ Issue(a) /\ Go(a, "keep") /\ UNCHANGED <<holder, reply>>
       \/ End(a, "error") /\ UNCHANGED issued
       \/ Go(a, "device") /\ UNCHANGED <<holder, reply, memory, issued>>
    /\ UNCHANGED <<cache, deleted>> /\ Unfaulted

\* The first token is saved before the other audiences are tried.
Keep(a) ==
    /\ at[a] = "keep"
    /\ cache' = memory[a]
    /\ Go(a, "prewarm")
    /\ UNCHANGED <<holder, memory, reply, issued, deleted>> /\ Unfaulted

Prewarm(a) ==
    /\ at[a] = "prewarm"
    /\ Issue(a) \/ UNCHANGED <<memory, issued>>
    /\ Go(a, "settle")
    /\ UNCHANGED <<cache, holder, reply, deleted>> /\ Unfaulted

Settle(a) ==
    /\ at[a] = "settle"
    /\ cache' = memory[a]
    /\ End(a, "token")
    /\ UNCHANGED <<issued, deleted>> /\ Unfaulted

Device(a) ==
    /\ at[a] = "device"
    /\ \/ Issue(a) /\ Go(a, "save") /\ UNCHANGED <<holder, reply>>
       \/ End(a, "error") /\ UNCHANGED issued
    /\ UNCHANGED <<cache, deleted>> /\ Unfaulted

-----------------------------------------------------------------------------
(* logout.                                                                 *)

LockToUnlink(a) ==
    /\ at[a] = "logout" /\ holder = NoOne
    /\ holder' = a
    /\ Go(a, "unlink")
    /\ UNCHANGED <<cache, memory, reply, issued, deleted>> /\ Unfaulted

Unlink(a) ==
    /\ at[a] = "unlink"
    /\ cache' = NoFile /\ deleted' = deleted \cup Stored
    /\ End(a, "none")
    /\ UNCHANGED issued /\ Unfaulted

-----------------------------------------------------------------------------
(* _acquire_bounded_token.                                                 *)

Bounded(p) ==
    /\ at[Main(p)] = "idle" /\ at[Worker(p)] = "idle"
    /\ at' = [at EXCEPT ![Main(p)] = "polling", ![Worker(p)] = "get"]
    /\ memory' = [memory EXCEPT ![Worker(p)] = Stored]
    /\ reply' = [reply EXCEPT ![Main(p)] = "none", ![Worker(p)] = "none"]
    /\ orphaned' = orphaned \ {p}
    /\ UNCHANGED <<cache, holder, issued, deleted, faults>>

\* The child has answered or has died.
Received(p) ==
    /\ at[Main(p)] = "polling" /\ at[Worker(p)] = "idle"
    /\ Go(Main(p), "stopping")
    /\ reply' = [reply EXCEPT ![Main(p)] = IF reply[Worker(p)] = "token" THEN "token"
                                          ELSE "error"]
    /\ UNCHANGED <<cache, holder, memory, issued, deleted>> /\ Unfaulted

\* Variant: the answer is waited for.
GiveUpAnswered(p) ==
    /\ at[Main(p)] = "polling" /\ at[Worker(p)] = "idle"
    /\ Go(Main(p), "stopping")
    /\ reply' = [reply EXCEPT ![Main(p)] = "error"]
    /\ UNCHANGED <<cache, holder, memory, issued, deleted>> /\ Unfaulted

\* check_budget: the deadline has passed or the task is cancelled.
GiveUp(p) ==
    /\ at[Main(p)] = "polling"
    /\ Go(Main(p), "stopping")
    /\ reply' = [reply EXCEPT ![Main(p)] = "error"]
    /\ UNCHANGED <<cache, holder, memory, issued, deleted>> /\ Unfaulted

\* terminate, kill: the child goes on until it is dead.
Stop(p) ==
    /\ at[Main(p)] = "stopping" /\ at[Worker(p)] # "idle"
    /\ End(Worker(p), "none")
    /\ UNCHANGED <<cache, issued, deleted>> /\ Unfaulted

\* Variant: the child is told to stop, and not waited for.
ReturnAtOnce(p) ==
    /\ at[Main(p)] = "stopping"
    /\ Go(Main(p), "idle")
    /\ UNCHANGED <<cache, holder, memory, reply, issued, deleted>> /\ Unfaulted

\* join.
Return(p) ==
    /\ at[Main(p)] = "stopping" /\ at[Worker(p)] = "idle"
    /\ Go(Main(p), "idle")
    /\ UNCHANGED <<cache, holder, memory, reply, issued, deleted>> /\ Unfaulted

-----------------------------------------------------------------------------
(* Faults.                                                                 *)

Fault(kind) == kind \in Faults /\ faults > 0 /\ faults' = faults - 1

\* The file cannot be replaced.  During login this looks as if there were no dialog.
SaveFails(a) ==
    /\ Fault("write")
    /\ \/ at[a] = "save" /\ End(a, "error")
       \/ at[a] \in {"keep", "settle"} /\ Go(a, "device") /\ UNCHANGED <<holder, memory, reply>>
    /\ UNCHANGED <<cache, issued, deleted, orphaned>>

\* An agent dies; the system drops its lock, and a child of it goes on.
TokenCrash(a) ==
    /\ Fault("crash") /\ at[a] # "idle"
    /\ End(a, "none")
    /\ orphaned' = orphaned \cup {p \in Proc : a = Main(p) /\ at[Worker(p)] # "idle"}
    /\ UNCHANGED <<cache, issued, deleted>>

\* An agent goes on by itself.
Progress(a) ==
    \/ Transaction(a) \/ Busy(a) \/ Silent(a) \/ Save(a) \/ Keep(a) \/ Prewarm(a) \/ Settle(a)
    \/ LockToUnlink(a) \/ Unlink(a) \/ SaveFails(a)

\* Somebody has to answer.
SignIn(a) == Interactive(a) \/ Device(a)

Parent(p) == Received(p) \/ GiveUp(p) \/ Stop(p) \/ Return(p)

TokenNext ==
    \/ \E p \in Proc : Get(p) \/ Login(p) \/ Logout(p) \/ Bounded(p) \/ Parent(p)
    \/ \E a \in Agent : Progress(a) \/ SignIn(a) \/ TokenCrash(a)

TokenSpec == TokenInit /\ [][TokenNext]_tokenVars

-----------------------------------------------------------------------------

\* What a logout has deleted is never put back, although commands that were started before it
\* still have it in memory (_cache_transaction: "prevents a manager created before `logout`
\* from resurrecting the deleted cache").
LogoutHolds == Stored \cap deleted = {}

\* A save never drops a token another process has saved: what is written is what was in the
\* file, and more (_cache_transaction reloads under the lock it saves under).
NothingLost == [][cache # NoFile /\ cache' # NoFile => cache \subseteq cache']_tokenVars

\* "Completion, timeout, and cancellation all guarantee that no child remains able to write the
\* cache after this call returns" (_acquire_bounded_token), unless the caller was killed.
NoOrphanWriter ==
    \A p \in Proc : at[Worker(p)] # "idle" =>
                        at[Main(p)] \in {"polling", "stopping"} \/ p \in orphaned
=============================================================================
