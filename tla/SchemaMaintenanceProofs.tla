----------------------- MODULE SchemaMaintenanceProofs -----------------------
(***************************************************************************)
(* Theorems about TokenCache and SchemaMaintenance, for every number of    *)
(* processes, tokens, generations, commands and faults.  Those about the   *)
(* token cache are proved of every step it takes in either specification.  *)
(***************************************************************************)
EXTENDS SchemaMaintenance, TLAPS

-----------------------------------------------------------------------------
(* The token cache.                                                        *)

\* Between taking the lock of the cache and leaving it.
Transacting == {"silent", "save", "interactive", "keep", "prewarm", "settle", "device"}
Locking == Transacting \cup {"unlink"}

\* What an agent relies on where it is: it holds the lock, its memory has all that is in the
\* file, and nothing in it has been deleted.
Relies(a) ==
    /\ at[a] \in Locking <=> holder = a
    /\ at[a] \in Transacting => Stored \subseteq memory[a] /\ memory[a] \cap deleted = {}

\* The inductive invariant of the token cache.
TokenInv ==
    /\ TokenTypeOK
    /\ Stored \cup deleted \subseteq 1..issued
    /\ LogoutHolds
    /\ \A a \in Agent : Relies(a) /\ memory[a] \subseteq 1..issued
    /\ NoOrphanWriter

\* A step of the processes around it may use up a fault.
FaultElsewhere ==
    /\ faults > 0 /\ faults' = faults - 1
    /\ UNCHANGED <<cache, holder, at, memory, reply, issued, deleted, orphaned>>

\* An agent is the main part of one process or the child of one.
LEMMA Agents ==
    /\ \A p \in Proc : Main(p) \in Agent /\ Worker(p) \in Agent
    /\ \A p, q \in Proc : Main(p) # Worker(q) /\ (Main(p) = Main(q) => p = q)
                          /\ (Worker(p) = Worker(q) => p = q)
    /\ \A a \in Agent : \E p \in Proc : a = Main(p) \/ a = Worker(p)
    /\ NoOne \notin Agent
  BY AgentAssumption DEF Agent, Main, Worker

\* What is stored is a set of tokens.
LEMMA StoredIsTokens ==
    ASSUME TokenTypeOK
    PROVE  /\ Stored \subseteq Token
           /\ cache = NoFile \/ cache = Stored
  BY DEF TokenTypeOK, Stored

LEMMA TokenInitInv == TokenInit => TokenInv
  BY TokenAssumption, Agents
  DEF TokenInit, TokenInv, TokenTypeOK, Labels, Token, Stored, LogoutHolds, Relies, Transacting,
      Locking, NoOrphanWriter, Agent

\* What one agent does keeps the invariant.
LEMMA AgentStep ==
    ASSUME TokenInv, NEW a \in Agent, Progress(a) \/ SignIn(a) \/ TokenCrash(a)
    PROVE  TokenInv'
  <1> USE TokenAssumption, AgentAssumption, Agents
      DEF TokenInv, TokenTypeOK, Labels, Token, Stored, LogoutHolds, Relies, Transacting, Locking,
          NoOrphanWriter, End, Go, Locked, Unfaulted
  <1>1. CASE Transaction(a)
    BY <1>1 DEF Transaction, Inside
  <1>2. CASE Busy(a)
    BY <1>2 DEF Busy
  <1>3. CASE Silent(a)
    BY <1>3 DEF Silent, Issue
  <1>4. CASE Save(a)
    BY <1>4 DEF Save
  <1>5. CASE Keep(a)
    BY <1>5 DEF Keep
  <1>6. CASE Prewarm(a)
    BY <1>6 DEF Prewarm, Issue
  <1>7. CASE Settle(a)
    BY <1>7 DEF Settle
  <1>8. CASE LockToUnlink(a)
    BY <1>8 DEF LockToUnlink
  <1>9. CASE Unlink(a)
    BY <1>9 DEF Unlink
  <1>10. CASE SaveFails(a)
    BY <1>10 DEF SaveFails, Fault
  <1>11. CASE Interactive(a)
    BY <1>11 DEF Interactive, Issue
  <1>12. CASE Device(a)
    BY <1>12 DEF Device, Issue
  <1>13. CASE TokenCrash(a)
    BY <1>13 DEF TokenCrash, Fault
  <1> QED
    BY <1>1, <1>2, <1>3, <1>4, <1>5, <1>6, <1>7, <1>8, <1>9, <1>10, <1>11, <1>12, <1>13 DEF Progress, SignIn

\* So does what a process does by itself and with its child.
LEMMA ProcessStep ==
    ASSUME TokenInv, NEW p \in Proc,
           Get(p) \/ Login(p) \/ Logout(p) \/ Bounded(p) \/ Parent(p)
    PROVE  TokenInv'
  <1> USE TokenAssumption, AgentAssumption, Agents
      DEF TokenInv, TokenTypeOK, Labels, Token, Stored, LogoutHolds, Relies, Transacting, Locking,
          NoOrphanWriter, End, Go, Locked, Unfaulted
  <1>1. CASE Get(p) \/ Login(p) \/ Logout(p)
    BY <1>1 DEF Get, Login, Logout, Construct
  <1>2. CASE Bounded(p)
    BY <1>2 DEF Bounded
  <1>3. CASE Received(p)
    BY <1>3 DEF Received
  <1>4. CASE GiveUp(p)
    BY <1>4 DEF GiveUp
  <1>5. CASE Stop(p)
    BY <1>5 DEF Stop
  <1>6. CASE Return(p)
    BY <1>6 DEF Return
  <1> QED
    BY <1>1, <1>2, <1>3, <1>4, <1>5, <1>6 DEF Parent

\* The invariant is inductive, with or without faults elsewhere.
LEMMA TokenStep ==
    ASSUME TokenInv, TokenNext \/ FaultElsewhere \/ UNCHANGED tokenVars
    PROVE  TokenInv'
  <1>1. CASE TokenNext
    BY <1>1, AgentStep, ProcessStep DEF TokenNext
  <1>2. CASE FaultElsewhere \/ UNCHANGED tokenVars
    BY <1>2, TokenAssumption
    DEF FaultElsewhere, tokenVars, TokenInv, TokenTypeOK, Stored, LogoutHolds, Relies, NoOrphanWriter
  <1> QED
    BY <1>1, <1>2

\* The file is only replaced by what its writer read under the lock it still holds, and more.
LEMMA SaveKeeps ==
    ASSUME TokenInv, TokenNext \/ FaultElsewhere \/ UNCHANGED tokenVars,
           cache # NoFile, cache' # NoFile
    PROVE  cache \subseteq cache'
  <1>1. \A a \in Agent : at[a] \in {"save", "keep", "settle"} => cache \subseteq memory[a]
    BY DEF TokenInv, Relies, Transacting, Stored
  <1>2. SUFFICES ASSUME cache' # cache PROVE \E a \in Agent : Save(a) \/ Keep(a) \/ Settle(a)
    BY <1>1 DEF Save, Keep, Settle
  <1>3. ~(FaultElsewhere \/ UNCHANGED tokenVars)
    BY <1>2 DEF FaultElsewhere, tokenVars
  <1>4. ASSUME NEW p \in Proc, Get(p) \/ Login(p) \/ Logout(p) \/ Bounded(p) \/ Parent(p)
        PROVE  cache' = cache
    BY <1>4 DEF Get, Login, Logout, Construct, Bounded, Parent, Received, GiveUp, Stop, Return
  <1>5. ASSUME NEW a \in Agent, Progress(a) \/ SignIn(a) \/ TokenCrash(a)
        PROVE  cache' = cache \/ Save(a) \/ Keep(a) \/ Settle(a)
    <2>1. CASE TokenCrash(a)
      BY <2>1 DEF TokenCrash
    <2>2. CASE SignIn(a)
      BY <2>2 DEF SignIn, Interactive, Device
    <2>3. CASE Progress(a)
      BY <2>3 DEF Progress, Transaction, Busy, Silent, Prewarm, LockToUnlink, Unlink, SaveFails
    <2> QED
      BY <1>5, <2>1, <2>2, <2>3
  <1> QED
    BY <1>2, <1>3, <1>4, <1>5 DEF TokenNext

\* The token cache by itself: deleted tokens stay deleted, saved ones stay saved, and no child
\* that can write is left behind (auth.py, for any processes and faults).
THEOREM TokenCacheIsSafe == TokenSpec => [](TokenTypeOK /\ LogoutHolds /\ NoOrphanWriter)
  <1>1. TokenInv /\ [TokenNext]_tokenVars => TokenInv'
    BY TokenStep
  <1>2. TokenInv => TokenTypeOK /\ LogoutHolds /\ NoOrphanWriter
    BY DEF TokenInv
  <1> QED
    BY TokenInitInv, <1>1, <1>2, PTL DEF TokenSpec

-----------------------------------------------------------------------------
(* The cycle, seen from the token cache.                                   *)

\* A step of the cycle is one of the token cache, or only uses up a fault.
LEMMA StepOfTokens ==
    ASSUME [Next]_vars
    PROVE  TokenNext \/ FaultElsewhere \/ UNCHANGED tokenVars
  <1>1. CASE UNCHANGED vars
    BY <1>1 DEF vars
  <1>2. ASSUME NEW p \in Proc, Start(p)
        PROVE  TokenNext \/ UNCHANGED tokenVars
    BY <1>2 DEF Start, SessionEnd, ByHand, TokenCommand, TokenNext
  <1>3. ASSUME NEW p \in Proc, Work(p)
        PROVE  TokenNext \/ UNCHANGED tokenVars
    <2>1. CASE Ask(p)
      BY <2>1 DEF Ask, TokenNext
    <2>2. CASE Bound(p)
      BY <2>2 DEF Bound, TokenNext, Parent
    <2>3. CASE ~(Ask(p) \/ Bound(p))
      BY <1>3, <2>3 DEF Work, Load, Fails, Overdue, Answered, Reload, Mark, Publish, PublishBusy,
                        PutData, PutMeta, Point
    <2> QED
      BY <2>1, <2>2, <2>3
  <1>4. ASSUME NEW p \in Proc, Queried(p) \/ Again(p) \/ QueryFails(p) \/ Expire(p)
        PROVE  UNCHANGED tokenVars
    BY <1>4 DEF Queried, Again, QueryFails, Expire
  <1>5. ASSUME NEW p \in Proc, WriteFails(p)
        PROVE  FaultElsewhere
    BY <1>5 DEF WriteFails, Fault, FaultElsewhere
  <1>6. ASSUME NEW p \in Proc, Crash(p)
        PROVE  TokenNext \/ FaultElsewhere
    BY <1>6, Agents DEF Crash, Fault, FaultElsewhere, TokenNext
  <1>7. ASSUME NEW p \in Proc, TokenCrash(Worker(p))
        PROVE  TokenNext
    BY <1>7, Agents DEF TokenNext
  <1>8. ASSUME NEW a \in Agent, Progress(a) \/ SignIn(a)
        PROVE  TokenNext
    BY <1>8 DEF TokenNext
  <1>9. CASE GrowOld
    BY <1>9 DEF GrowOld
  <1> QED
    BY <1>1, <1>2, <1>3, <1>4, <1>5, <1>6, <1>7, <1>8, <1>9 DEF Next

LEMMA TokenInvHolds == Spec => []TokenInv
  <1>1. Init => TokenInv
    BY TokenInitInv DEF Init
  <1>2. TokenInv /\ [Next]_vars => TokenInv'
    BY TokenStep, StepOfTokens
  <1> QED
    BY <1>1, <1>2, PTL DEF Spec

\* The variables of the token cache keep their types.
THEOREM TokenTypeCorrect == Spec => []TokenTypeOK
  <1>1. TokenInv => TokenTypeOK
    BY DEF TokenInv
  <1> QED
    BY TokenInvHolds, <1>1, PTL

\* A logout is not undone, by whatever login, refresh or maintenance was under way.
THEOREM LogoutIsFinal == Spec => []LogoutHolds
  <1>1. TokenInv => LogoutHolds
    BY DEF TokenInv
  <1> QED
    BY TokenInvHolds, <1>1, PTL

\* A token in the file goes only by a logout.
THEOREM TokensAreKept == Spec => NothingLost
  <1>1. TokenInv /\ [Next]_vars => [cache # NoFile /\ cache' # NoFile => cache \subseteq cache']_tokenVars
    BY SaveKeeps, StepOfTokens
  <1> QED
    BY TokenInvHolds, <1>1, PTL DEF Spec, NothingLost

\* The child that acquires a token for the cycle does not outlive its parent's waiting for it.
THEOREM WritersAreOwned == Spec => []NoOrphanWriter
  <1>1. TokenInv => NoOrphanWriter
    BY DEF TokenInv
  <1> QED
    BY TokenInvHolds, <1>1, PTL

-----------------------------------------------------------------------------
(* The generations of the schema cache.                                    *)

Jobs == [op : {"none", "end", "refresh"},
         label : {"idle", "load", "stage", "token", "query", "publish", "data", "meta", "point",
                  "reload", "mark"},
         stage : {"refresh", "validation", "exploration"}, refresh : BOOLEAN, explore : BOOLEAN,
         old : Nat, rows : Nat, own : Nat, partial : BOOLEAN, over : BOOLEAN]

\* The labels at which a generation is being written, under the lock of the refresh.
Writing == {"data", "meta", "point"}

\* The stages that use the rows, in a cycle that had to refresh a stale cache first.
Planned(j) ==
    /\ j.refresh
    /\ j.label = "mark" \/ (j.label \in {"stage", "token", "query"} /\ j.stage # "refresh")

\* What a command relies on where it is: the generation it writes is the latest, later than the
\* current one and than the one it found stale; so is what is current when it has published.
Expects(p) ==
    LET j == job[p] IN
    /\ j.old <= made
    /\ j.label \in Writing =>
          refreshLock = p /\ j.own = made /\ current < j.own /\ j.old < j.own
    /\ j.label \in {"meta", "point"} => j.own \in data
    /\ j.label = "point" => j.own \in meta
    /\ j.label = "reload" => j.old < current
    /\ Planned(j) => j.rows \notin {0, j.old}

\* The inductive invariant of the generations.
CacheInv ==
    /\ current \in Nat /\ made \in Nat /\ current <= made
    /\ CurrentIsWhole
    /\ job \in [Proc -> Jobs]
    /\ \A p \in Proc : Expects(p)

LEMMA CacheInitInv == Init => CacheInv
  BY DEF Init, CacheInv, CurrentIsWhole, Jobs, NoJob, Expects, Planned, Writing

\* A command moves alone: the others keep what they rely on, as long as the generations only
\* grow and what the holder of the lock writes is left alone.
LEMMA OneMoves ==
    ASSUME CacheInv, NEW p \in Proc,
           job' = [job EXCEPT ![p] = job'[p]], job'[p] \in Jobs, Expects(p)',
           current' \in Nat, made' \in Nat, current <= current', made <= made',
           current' <= made', CurrentIsWhole', data \subseteq data', meta \subseteq meta',
           \A q \in Proc \ {p} : job[q].label \in Writing =>
               refreshLock' = refreshLock /\ made' = made /\ current' = current
    PROVE  CacheInv'
  <1>1. job' \in [Proc -> Jobs]
    BY DEF CacheInv
  <1>2. ASSUME NEW q \in Proc, q # p PROVE Expects(q)'
    <2>1. job'[q] = job[q] /\ job[q] \in Jobs /\ Expects(q)
      BY <1>2 DEF CacheInv
    <2> QED
      BY <1>2, <2>1 DEF CacheInv, Expects, Jobs, Planned, Writing
  <1> QED
    BY <1>1, <1>2 DEF CacheInv

\* A command that leaves the generations alone, and no lock but its own.
LEMMA OneGoesOn ==
    ASSUME CacheInv, NEW p \in Proc,
           job' = [job EXCEPT ![p] = job'[p]], job'[p] \in Jobs, Expects(p)',
           UNCHANGED <<current, data, meta, made>>, refreshLock' = refreshLock \/ refreshLock = p
    PROVE  CacheInv'
  <1>1. \A q \in Proc \ {p} : job[q].label \in Writing => refreshLock = q
    BY DEF CacheInv, Expects
  <1>2. current \in Nat /\ made \in Nat /\ current <= made /\ CurrentIsWhole
    BY DEF CacheInv
  <1>3. CurrentIsWhole'
    BY <1>2 DEF CurrentIsWhole
  <1> QED
    BY <1>1, <1>2, <1>3, OneMoves

\* The steps with which a command begins and goes on.
LEMMA CommandGoesOn ==
    ASSUME CacheInv, NEW p \in Proc,
           Start(p) \/ Load(p) \/ Answered(p) \/ Reload(p) \/ Queried(p) \/ Expire(p)
    PROVE  CacheInv'
  <1>1. job \in [Proc -> Jobs] /\ job[p] \in Jobs /\ Expects(p)
    BY DEF CacheInv
  <1>2. current \in Nat /\ made \in Nat /\ current <= made /\ Loadable \in {0, current}
    BY DEF CacheInv, Loadable
  <1>3. job' = [job EXCEPT ![p] = job'[p]] \/ job' = job
    BY <1>1 DEF Start, SessionEnd, ByHand, TokenCommand, Load, Answered, Reload, Queried, Expire,
        Finish, Become, Step
  <1>4. /\ UNCHANGED <<current, data, meta, made>>
        /\ refreshLock' = refreshLock \/ refreshLock = p
    BY DEF Start, SessionEnd, ByHand, TokenCommand, Load, Answered, Reload, Queried, Expire,
        Finish, files, locks
  <1>5. SUFFICES job'[p] \in Jobs /\ Expects(p)'
    BY <1>1, <1>3, <1>4, OneGoesOn
  <1>6. CASE job'[p] = job[p] /\ refreshLock' = refreshLock
    BY <1>1, <1>4, <1>6 DEF Expects, Planned
  <1>7. CASE job'[p] = NoJob
    BY <1>2, <1>4, <1>7 DEF NoJob, Jobs, Expects, Planned, Writing
  <1>8. CASE Start(p)
    <2>1. \/ UNCHANGED <<refreshLock, job>>
          \/ \E c \in Commands : job'[p] = [NoJob EXCEPT !.op = "end", !.label = "load",
                                              !.refresh = c.refresh, !.explore = c.explore]
          \/ job'[p] = [NoJob EXCEPT !.op = "refresh", !.label = "stage"]
      BY <1>1, <1>8 DEF Start, SessionEnd, ByHand, TokenCommand, Become, locks
    <2>2. ASSUME NEW c \in Commands,
                 job'[p] = [NoJob EXCEPT !.op = "end", !.label = "load", !.refresh = c.refresh,
                                         !.explore = c.explore]
          PROVE  job'[p] \in Jobs /\ Expects(p)'
      <3>1. PICK r \in BOOLEAN, e \in BOOLEAN : r = c.refresh /\ e = c.explore
        BY MaintenanceAssumption
      <3>2. [NoJob EXCEPT !.op = "end", !.label = "load", !.refresh = r, !.explore = e] \in Jobs
        BY DEF NoJob, Jobs
      <3>3. job'[p].old = 0 /\ job'[p].label = "load"
        BY <2>2 DEF NoJob
      <3> QED
        BY <1>2, <1>4, <2>2, <3>1, <3>2, <3>3 DEF Expects, Planned, Writing
    <2>3. CASE job'[p] = [NoJob EXCEPT !.op = "refresh", !.label = "stage"]
      <3>1. [NoJob EXCEPT !.op = "refresh", !.label = "stage"] \in Jobs
        BY DEF NoJob, Jobs
      <3>2. job'[p].old = 0 /\ job'[p].label = "stage" /\ ~job'[p].refresh
        BY <2>3 DEF NoJob
      <3> QED
        BY <1>2, <1>4, <2>3, <3>1, <3>2 DEF Expects, Planned, Writing
    <2> QED
      BY <1>6, <2>1, <2>2, <2>3
  <1>9. CASE Load(p)
    <2> DEFINE due == job[p].refresh /\ (Loadable = 0 \/ stale)
    <2>1. job'[p] = [job[p] EXCEPT !.label = "stage",
                                   !.stage = IF due THEN "refresh" ELSE "validation",
                                   !.old = IF stale THEN current ELSE 0, !.rows = Loadable]
      BY <1>1, <1>9 DEF Load, Become
    <2>2. job'[p] \in Jobs
      <3>1. PICK stage \in {"refresh", "validation"}, m \in Nat, n \in Nat :
               job'[p] = [job[p] EXCEPT !.label = "stage", !.stage = stage, !.old = m, !.rows = n]
        BY <1>2, <2>1
      <3>2. [job[p] EXCEPT !.label = "stage", !.stage = stage, !.old = m, !.rows = n] \in Jobs
        BY <1>1 DEF Jobs
      <3> QED
        BY <3>1, <3>2
    <2>3. Expects(p)'
      BY <1>1, <1>2, <1>4, <2>1 DEF Jobs, Expects, Planned, Writing
    <2> QED
      BY <2>2, <2>3
  <1>10. CASE Answered(p)
    <2>1. job'[p] = [job[p] EXCEPT !.label = "query"] \/ job'[p] = NoJob
      BY <1>1, <1>10 DEF Answered, Step, Become, Finish
    <2>2. job[p].label = "token"
      BY <1>10 DEF Answered, At
    <2> QED
      BY <1>1, <1>2, <1>4, <1>7, <2>1, <2>2 DEF Jobs, Expects, Planned, Writing
  <1>11. CASE Reload(p)
    <2>1. job'[p] = [job[p] EXCEPT !.label = "stage", !.stage = "validation", !.rows = Loadable]
      BY <1>1, <1>11 DEF Reload, Become
    <2>2. job[p].old < current /\ Loadable = current
      BY <1>1, <1>11 DEF Reload, At, Expects, CacheInv, CurrentIsWhole, Loadable
    <2>3. job'[p] \in Jobs
      <3>1. PICK n \in Nat : n = Loadable
        BY <1>2
      <3>2. [job[p] EXCEPT !.label = "stage", !.stage = "validation", !.rows = n] \in Jobs
        BY <1>1 DEF Jobs
      <3> QED
        BY <2>1, <3>1, <3>2
    <2>4. Expects(p)'
      BY <1>1, <1>2, <1>4, <2>1, <2>2 DEF Jobs, Expects, Planned, Writing
    <2> QED
      BY <2>3, <2>4
  <1>12. CASE Queried(p)
    <2>1. \/ job[p].stage = "refresh" /\ job'[p] = [job[p] EXCEPT !.label = "publish"]
          \/ /\ job[p].stage # "refresh"
             /\ \/ job'[p] = AfterStage(job[p])
                \/ job'[p] = AfterStage([job[p] EXCEPT !.partial = TRUE])
      BY <1>1, <1>12 DEF Queried, Step, Become
    <2>2. job[p].label \in {"query", "stage"}
      BY <1>12 DEF Queried, At
    <2>3. CASE job'[p] = [job[p] EXCEPT !.label = "publish"]
      BY <1>1, <1>2, <1>4, <2>3 DEF Jobs, Expects, Planned, Writing
    <2>4. ASSUME NEW b \in BOOLEAN, job[p].stage # "refresh",
                 job'[p] = AfterStage([job[p] EXCEPT !.partial = b])
          PROVE  job'[p] \in Jobs /\ Expects(p)'
      <3> DEFINE k == [job[p] EXCEPT !.partial = b]
      <3>1. \/ job'[p] = [k EXCEPT !.label = "stage", !.stage = "exploration"]
            \/ job'[p] = [k EXCEPT !.label = "mark"]
        BY <2>4 DEF AfterStage
      <3>2. job'[p] \in Jobs
        BY <1>1, <3>1 DEF Jobs
      <3>3. Expects(p)'
        BY <1>1, <1>2, <1>4, <2>2, <2>4, <3>1 DEF Jobs, Expects, Planned, Writing
      <3> QED
        BY <3>2, <3>3
    <2>5. job[p] = [job[p] EXCEPT !.partial = job[p].partial] /\ job[p].partial \in BOOLEAN
      BY <1>1 DEF Jobs
    <2> QED
      BY <2>1, <2>3, <2>4, <2>5
  <1>13. CASE Expire(p)
    <2>1. job'[p] = [job[p] EXCEPT !.over = TRUE] /\ refreshLock' = refreshLock
      BY <1>1, <1>13 DEF Expire, Become, locks
    <2>2. job'[p] \in Jobs
      BY <1>1, <2>1 DEF Jobs
    <2>3. Expects(p)'
      BY <1>1, <1>2, <1>4, <2>1 DEF Jobs, Expects, Planned, Writing
    <2> QED
      BY <2>2, <2>3
  <1> QED
    BY <1>8, <1>9, <1>10, <1>11, <1>12, <1>13

\* The steps that make a generation and point to it: nobody else is writing one.
LEMMA CommandPublishes ==
    ASSUME CacheInv, NEW p \in Proc, Publish(p) \/ Point(p)
    PROVE  CacheInv'
  <1>1. job \in [Proc -> Jobs] /\ job[p] \in Jobs /\ Expects(p)
    BY DEF CacheInv
  <1>2. current \in Nat /\ made \in Nat /\ current <= made /\ CurrentIsWhole
    BY DEF CacheInv
  <1>3. \A q \in Proc \ {p} : job[q].label \notin Writing
    <2>1. \A q \in Proc : job[q].label \in Writing => refreshLock = q
      BY DEF CacheInv, Expects
    <2> QED
      BY <1>1, <2>1, MaintenanceAssumption DEF Publish, Point, At, Writing
  <1>4. CASE Publish(p)
    <2>1. job' = [job EXCEPT ![p] = job'[p]]
          /\ job'[p] = [job[p] EXCEPT !.label = "data", !.own = made + 1]
      BY <1>1, <1>4 DEF Publish, Become
    <2>2. made' = made + 1 /\ refreshLock' = p /\ UNCHANGED <<current, data, meta>>
      BY <1>4 DEF Publish
    <2>3. job'[p] \in Jobs
      <3>1. \A n \in Nat : [job[p] EXCEPT !.label = "data", !.own = n] \in Jobs
        BY <1>1 DEF Jobs
      <3>2. made + 1 \in Nat
        BY <1>2
      <3> QED
        BY <2>1, <3>1, <3>2
    <2>4. Expects(p)' /\ CurrentIsWhole'
      BY <1>1, <1>2, <2>1, <2>2 DEF Jobs, Expects, Planned, Writing, CurrentIsWhole
    <2> QED
      BY <1>2, <1>3, <2>1, <2>2, <2>3, <2>4, OneMoves
  <1>5. CASE Point(p)
    <2>1. /\ job' = [job EXCEPT ![p] = job'[p]]
          /\ job'[p] = [job[p] EXCEPT !.label = "reload"] \/ job'[p] = NoJob
      BY <1>1, <1>5 DEF Point, Step, Become, Finish
    <2>2. job[p].label = "point" /\ current' = job[p].own /\ UNCHANGED <<made, data, meta>>
      BY <1>5 DEF Point, At
    <2>3. job'[p] \in Jobs
      <3>1. [job[p] EXCEPT !.label = "reload"] \in Jobs /\ NoJob \in Jobs
        BY <1>1 DEF Jobs, NoJob
      <3> QED
        BY <2>1, <3>1
    <2>4. Expects(p)' /\ CurrentIsWhole'
      BY <1>1, <1>2, <2>1, <2>2 DEF Jobs, NoJob, Expects, Planned, Writing, CurrentIsWhole
    <2>5. current' \in Nat /\ current <= current' /\ current' <= made
      BY <1>1, <1>2, <2>2 DEF Jobs, Expects, Writing
    <2> QED
      BY <1>2, <1>3, <2>1, <2>2, <2>3, <2>4, <2>5, OneMoves
  <1> QED
    BY <1>4, <1>5

\* A step of one command keeps the invariant.
LEMMA CacheStep ==
    ASSUME CacheInv, NEW p \in Proc,
           Start(p) \/ Work(p) \/ Queried(p) \/ Again(p) \/ QueryFails(p) \/ WriteFails(p)
             \/ Expire(p) \/ Crash(p)
    PROVE  CacheInv'
  <1> USE MaintenanceAssumption
      DEF CacheInv, CurrentIsWhole, Jobs, Expects, Planned, Writing, files, locks, NoJob, Finish,
          Become, Step, At, InCycle
  <1>1. CASE Start(p)
    BY <1>1, CommandGoesOn
  <1>2. CASE Load(p)
    BY <1>2, CommandGoesOn
  <1>3. CASE Fails(p)
    BY <1>3 DEF Fails
  <1>4. CASE Overdue(p)
    BY <1>4 DEF Overdue
  <1>5. CASE Ask(p)
    BY <1>5 DEF Ask
  <1>6. CASE Answered(p)
    BY <1>6, CommandGoesOn
  <1>7. CASE Reload(p)
    BY <1>7, CommandGoesOn
  <1>8. CASE Mark(p)
    BY <1>8 DEF Mark
  <1>9. CASE Publish(p)
    BY <1>9, CommandPublishes
  <1>10. CASE PublishBusy(p)
    BY <1>10 DEF PublishBusy
  <1>11. CASE PutData(p)
    BY <1>11 DEF PutData
  <1>12. CASE PutMeta(p)
    BY <1>12 DEF PutMeta
  <1>13. CASE Point(p)
    BY <1>13, CommandPublishes
  <1>14. CASE Bound(p)
    BY <1>14 DEF Bound, Rest
  <1>15. CASE Queried(p)
    BY <1>15, CommandGoesOn
  <1>16. CASE Again(p)
    BY <1>16 DEF Again
  <1>17. CASE QueryFails(p)
    BY <1>17 DEF QueryFails
  <1>18. CASE WriteFails(p)
    BY <1>18 DEF WriteFails
  <1>19. CASE Expire(p)
    BY <1>19, CommandGoesOn
  <1>20. CASE Crash(p)
    BY <1>20 DEF Crash
  <1> QED
    BY <1>1, <1>2, <1>3, <1>4, <1>5, <1>6, <1>7, <1>8, <1>9, <1>10, <1>11, <1>12, <1>13, <1>14, <1>15, <1>16, <1>17, <1>18, <1>19, <1>20 DEF Work

LEMMA CacheInvHolds == Spec => []CacheInv
  <1>1. CacheInv /\ [Next]_vars => CacheInv'
    <2> USE DEF CacheInv, CurrentIsWhole, Expects, files, locks
    <2>1. ASSUME CacheInv, UNCHANGED <<files, locks, job>> PROVE CacheInv'
      BY <2>1
    <2>2. ASSUME CacheInv, GrowOld PROVE CacheInv'
      BY <2>2 DEF GrowOld
    <2> QED
      BY <2>1, <2>2, CacheStep DEF Next, Rest, vars
  <1> QED
    BY CacheInitInv, <1>1, PTL DEF Spec

\* The pointer of the schema cache never names a generation with a file missing, wherever a
\* refresh stopped and however many are under way (_schema_refresh).
THEOREM CurrentStaysWhole == Spec => []CurrentIsWhole
  <1>1. CacheInv => CurrentIsWhole
    BY DEF CacheInv
  <1> QED
    BY CacheInvHolds, <1>1, PTL

\* A collection is never marked complete on a schema that was missing or stale when it began.
THEOREM MarksAreFresh == Spec => MarkedIsFresh
  <1> DEFINE Fresh == \E p \in Proc : /\ At(p, "mark")
                                      /\ job[p].refresh => job[p].rows \notin {0, job[p].old}
  <1>1. ASSUME CacheInv, [Next]_vars, marked' # marked PROVE Fresh
    <2>1. PICK p \in Proc : Mark(p)
      <3>1. ASSUME NEW p \in Proc,
                   Start(p) \/ Work(p) \/ Queried(p) \/ Again(p) \/ QueryFails(p) \/ WriteFails(p)
                     \/ Expire(p) \/ Crash(p)
            PROVE  Mark(p)
        BY <1>1, <3>1 DEF Start, SessionEnd, ByHand, TokenCommand, Work, Load, Fails, Overdue, Ask,
           Answered, Reload, Publish, PublishBusy, PutData, PutMeta, Point, Bound, Rest, Queried,
           Again, QueryFails, WriteFails, Expire, Crash
      <3> QED
        BY <1>1, <3>1 DEF Next, Rest, GrowOld, vars
    <2> QED
      BY <1>1, <2>1 DEF Mark, At, CacheInv, Expects, Planned
  <1>2. CacheInv /\ [Next]_vars => [marked' # marked => Fresh]_vars
    BY <1>1
  <1> QED
    BY CacheInvHolds, <1>2, PTL DEF Spec, MarkedIsFresh

=============================================================================
