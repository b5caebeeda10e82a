------------------------- MODULE ApplicationProofs --------------------------
(***************************************************************************)
(* The worker inside the application behaves as module EchoWorker says:    *)
(* what the rest of Application does leaves it alone, and what it adds to  *)
(* the steps of the worker only touches the title.  So the theorems of     *)
(* EchoWorkerProofs hold of the application as well.  What follows is about*)
(* Startup: the memory Title::Init and Title::Set write over, and the names*)
(* GetFileNameWithoutExt makes.                                            *)
(***************************************************************************)
EXTENDS Application, SequenceTheorems, WellFoundedInduction, TLAPS

P == INSTANCE EchoWorkerProofs

(* Every step of the application is one of the worker, or none of it. *)
LEMMA StepsOfWorker == [AppNext]_appvars => [W!Next]_(W!vars)
<1> SUFFICES ASSUME [AppNext]_appvars
             PROVE  W!Next \/ UNCHANGED workerVars
  BY DEF workerVars, W!vars
<1>1. CASE MasterInit /\ UNCHANGED workerVars
  BY <1>1
<1>2. CASE RunMaster
  BY <1>2 DEF RunMaster
<1>3. CASE SpawnChildWorker
  BY <1>3 DEF SpawnChildWorker, W!Next, W!WorkerStep
<1>4. CASE WorkerStep
  BY <1>4 DEF WorkerStep, W!Next
<1>5. CASE SomethingFails
  BY <1>5 DEF SomethingFails, W!Next
<1>6. CASE \E c \in W!Component : HasStopped(c)
  BY <1>6 DEF HasStopped, W!Next
<1>7. CASE Sigterm
  BY <1>7 DEF Sigterm, W!Next
<1>8. CASE UNCHANGED appvars
  BY <1>8 DEF appvars
<1> QED BY <1>1, <1>2, <1>3, <1>4, <1>5, <1>6, <1>7, <1>8 DEF AppNext

(* The application implements EchoWorker. *)
THEOREM ImplementsEchoWorker == AppSpec => W!Spec
<1>1. AppInit => W!Init
  BY DEF AppInit
<1> QED BY <1>1, StepsOfWorker, PTL DEF AppSpec, W!Spec

(* P and W are two copies of the same definitions, with the same variables. *)
LEMMA SameSpec == W!Spec => P!Spec
<1>1. W!Init => P!Init
  BY DEF
        W!Init, W!Calls, W!ResourceInit, W!InitInWorker, W!AfterFork,
        W!RunServers, W!StopServers, W!Each, W!Component, W!Server, P!Init,
        P!Calls, P!ResourceInit, P!InitInWorker, P!AfterFork, P!RunServers,
        P!StopServers, P!Each, P!Component, P!Server
<1>2. [W!Next]_(W!vars) => [P!Next]_(P!vars)
  BY DEF W!vars, P!vars,
        W!Next, W!WorkerStep, W!Prepare, W!LeaveRun, W!TearDown, W!Exit,
        W!Create, W!CallAfterFork, W!RegisterHandler, W!Start, W!NullServer,
        W!Pause, W!Stop, W!Await, W!CreateFails, W!StartFails, W!HasStopped,
        W!Sigterm, W!Due, W!Made, W!Advance, W!Becomes, W!Ends, W!Continue,
        W!Component, W!Server, P!Next, P!WorkerStep, P!Prepare, P!LeaveRun,
        P!TearDown, P!Exit, P!Create, P!CallAfterFork, P!RegisterHandler,
        P!Start, P!NullServer, P!Pause, P!Stop, P!Await, P!CreateFails,
        P!StartFails, P!HasStopped, P!Sigterm, P!Due, P!Made, P!Advance,
        P!Becomes, P!Ends, P!Continue, P!Component, P!Server
<1> QED BY <1>1, <1>2, PTL DEF W!Spec, P!Spec

(* No request meets a server without its callbacks, and none but TCP takes  *)
(* any once both servers are paused.                                        *)
THEOREM NoRequestUnhandled == AppSpec => []RequestsHandled
<1>1. P!RequestsHandled => RequestsHandled
  BY DEF RequestsHandled,
        W!RequestsHandled, W!Serving, W!Made, W!Server, P!RequestsHandled,
        P!Serving, P!Made, P!Server
<1> QED BY <1>1, ImplementsEchoWorker, SameSpec, P!NoRequestUnhandled, PTL

(* When Run returns every component of the worker has stopped. *)
THEOREM AllStoppedAtReturn == AppSpec => []StoppedAtReturn
<1>1. P!StoppedAtReturn => StoppedAtReturn
  BY DEF StoppedAtReturn,
        W!StoppedAtReturn, W!Made, W!Component, W!Server, P!StoppedAtReturn,
        P!Made, P!Component, P!Server
<1> QED BY <1>1, ImplementsEchoWorker, SameSpec, P!AllStoppedAtReturn, PTL

(* A worker that has come up and gets one SIGTERM at most only ever ends at *)
(* the end of Run, asked to, with every component stopped.                  *)
THEOREM OneSigtermLeavesInOrder == AppSpec => []OneSigtermIsSafe
<1>1. P!OneSigtermIsSafe => OneSigtermIsSafe
  BY DEF OneSigtermIsSafe,
        W!OneSigtermIsSafe, W!Made, W!Component, W!Server,
        P!OneSigtermIsSafe, P!Made, P!Component, P!Server
<1> QED BY <1>1, ImplementsEchoWorker, SameSpec, P!OneSigtermLeavesInOrder, PTL

-----------------------------------------------------------------------------
(* The memory of argv and the environment.  A string is a place, the bytes  *)
(* up to the first Nul; each step of Startup leaves alone or copies the     *)
(* bytes of every string that somebody still points at.  The first Nul and  *)
(* the order of the strings come from NatMin, where one would expect        *)
(* induction: take the least place that goes wrong.                         *)

(* The least element of a set of numbers. *)
LEMMA NatMin ==
    ASSUME NEW T \in SUBSET Nat, T # {}
    PROVE  \E n \in T : \A k \in T : n <= k
<1> DEFINE R == OpToRel(<, Nat)
<1>1. IsWellFoundedOn(R, Nat)
  BY NatLessThanWellFounded
<1>2. \A k, n \in Nat : k < n => <<k, n>> \in R
  BY DEF OpToRel
<1> HIDE DEF R
<1>3. PICK n \in T : \A k \in T : ~(<<k, n>> \in R)
  BY <1>1, WFMin
<1>4. \A k \in T : n <= k
  <2> SUFFICES ASSUME NEW k \in T, ~(n <= k) PROVE FALSE
    OBVIOUS
  <2>1. k \in Nat /\ n \in Nat /\ k < n
    OBVIOUS
  <2>2. <<k, n>> \in R
    BY <1>2, <2>1, Zenon
  <2> QED BY <1>3, <2>2, Zenon
<1> QED BY <1>4

(* Where a string ends: at the first Nul. *)
LEMMA EndOfString ==
    ASSUME NEW lo \in Int, NEW hi \in Int, NEW mem \in [lo .. hi -> Int],
           NEW q \in lo .. hi, NEW z \in q .. hi, mem[z] = Nul
    PROVE  StrEnd(mem, q) \in q .. z /\ EndsAt(mem, q, StrEnd(mem, q))
<1> DEFINE T == {n \in 0 .. z - q : mem[q + n] = Nul}
<1>1. z - q \in T /\ T \in SUBSET Nat
  OBVIOUS
<1>2. PICK n \in T : \A k \in T : n <= k
  BY <1>1, NatMin, Zenon
<1>3. /\ n \in 0 .. z - q /\ mem[q + n] = Nul
      /\ \A a \in q .. q + n - 1 : mem[a] # Nul
  <2> SUFFICES ASSUME NEW a \in q .. q + n - 1, mem[a] = Nul PROVE FALSE
    OBVIOUS
  <2>1. a - q \in T
    OBVIOUS
  <2> QED BY <1>2, <2>1
<1>4. q + n \in DOMAIN mem /\ EndsAt(mem, q, q + n)
  BY <1>3 DEF EndsAt
<1>5. StrEnd(mem, q) \in DOMAIN mem /\ EndsAt(mem, q, StrEnd(mem, q))
  BY <1>4 DEF StrEnd
<1>6. StrEnd(mem, q) <= q + n
  BY <1>3, <1>5 DEF EndsAt
<1> QED BY <1>3, <1>5, <1>6 DEF EndsAt

(* The bytes up to there are the string. *)
LEMMA StringThere ==
    ASSUME NEW lo \in Int, NEW hi \in Int, NEW mem \in [lo .. hi -> Int],
           NEW q \in lo .. hi, NEW z \in q .. hi, mem[z] = Nul
    PROVE  /\ CString(mem, q) \in Seq(Int)
           /\ q + Len(CString(mem, q)) = StrEnd(mem, q)
           /\ IsString(mem, q, CString(mem, q))
           /\ StrEnd(mem, q) \in q .. z
<1> DEFINE e == StrEnd(mem, q)
<1>1. e \in q .. z /\ EndsAt(mem, q, e)
  BY EndOfString
<1> HIDE DEF e
<1>2. CString(mem, q) = [k \in 1 .. e - q |-> mem[q + k - 1]]
  BY DEF CString, e
<1>3. CString(mem, q) \in Seq(Int) /\ Len(CString(mem, q)) = e - q
  BY <1>1, <1>2
<1>4. \A k \in 1 .. e - q : CString(mem, q)[k] = mem[q + k - 1] /\ mem[q + k - 1] # Nul
  <2> SUFFICES ASSUME NEW k \in 1 .. e - q
               PROVE  CString(mem, q)[k] = mem[q + k - 1] /\ mem[q + k - 1] # Nul
    OBVIOUS
  <2>1. q + k - 1 \in q .. e - 1
    BY <1>1
  <2> QED BY <1>1, <1>2, <2>1 DEF EndsAt
<1>5. mem[q + Len(CString(mem, q))] = Nul /\ q + Len(CString(mem, q)) = e
  BY <1>1, <1>3 DEF EndsAt
<1>6. IsString(mem, q, CString(mem, q))
  BY <1>3, <1>4, <1>5 DEF IsString
<1> QED BY <1>1, <1>3, <1>5, <1>6 DEF e

(* A string is found where it is. *)
LEMMA StringFound ==
    ASSUME NEW lo \in Int, NEW hi \in Int, NEW mem \in [lo .. hi -> Int],
           NEW q \in lo .. hi, NEW s \in Seq(Int), q + Len(s) \in lo .. hi,
           IsString(mem, q, s)
    PROVE  StrEnd(mem, q) = q + Len(s) /\ CString(mem, q) = s
<1> DEFINE e == q + Len(s)
<1>1. EndsAt(mem, q, e) /\ e \in DOMAIN mem
  <2>1. ASSUME NEW a \in q .. e - 1 PROVE mem[a] # Nul
    <3>1. a - q + 1 \in 1 .. Len(s) /\ q + (a - q + 1) - 1 = a
      BY LenProperties
    <3> QED BY <3>1 DEF IsString
  <2>2. q <= e /\ mem[e] = Nul
    BY LenProperties DEF IsString
  <2> QED BY <2>1, <2>2 DEF EndsAt
<1>2. ASSUME NEW d \in DOMAIN mem, EndsAt(mem, q, d) PROVE d = e
  <2>1. d \in Int /\ e \in Int /\ q <= d /\ q <= e /\ mem[d] = Nul /\ mem[e] = Nul
    BY <1>1, <1>2 DEF EndsAt
  <2>2. ~(d < e)
    BY <1>1, <2>1 DEF EndsAt
  <2>3. ~(e < d)
    BY <1>2, <2>1 DEF EndsAt
  <2> QED BY <2>1, <2>2, <2>3
<1>3. StrEnd(mem, q) = e
  BY <1>1, <1>2 DEF StrEnd
<1>4. CString(mem, q) = [k \in 1 .. Len(s) |-> mem[q + k - 1]]
  BY <1>3 DEF CString
<1>5. CString(mem, q) = s
  <2>1. \A k \in 1 .. Len(s) : mem[q + k - 1] = s[k]
    BY DEF IsString
  <2>2. s = [k \in 1 .. Len(s) |-> s[k]]
    BY LenProperties
  <2> QED BY <1>4, <2>1, <2>2
<1> QED BY <1>3, <1>5

(* It is wherever its bytes have been copied to, or left alone. *)
LEMMA StringCopied ==
    ASSUME NEW mem, NEW mem2, NEW q \in Int, NEW r \in Int, NEW s \in Seq(Int),
           IsString(mem, q, s),
           \A k \in 0 .. Len(s) : mem2[r + k] = mem[q + k]
    PROVE  IsString(mem2, r, s)
<1>1. ASSUME NEW k \in 1 .. Len(s)
      PROVE  s[k] # Nul /\ mem2[r + k - 1] = s[k]
  <2>1. k - 1 \in 0 .. Len(s) /\ r + (k - 1) = r + k - 1 /\ q + (k - 1) = q + k - 1
    BY LenProperties
  <2> QED BY <2>1 DEF IsString
<1>2. Len(s) \in 0 .. Len(s)
  BY LenProperties
<1>3. mem2[r + Len(s)] = Nul
  BY <1>2 DEF IsString
<1> QED BY <1>1, <1>3 DEF IsString

(* It is where it was while nothing is written around it. *)
LEMMA StringKept ==
    ASSUME NEW mem, NEW mem2, NEW q \in Int, NEW s \in Seq(Int), IsString(mem, q, s),
           NEW lo \in Int, NEW hi \in Int, lo <= q, q + Len(s) <= hi,
           \A a \in lo .. hi : mem2[a] = mem[a]
    PROVE  IsString(mem2, q, s)
<1>1. ASSUME NEW k \in 0 .. Len(s) PROVE mem2[q + k] = mem[q + k]
  <2>1. k \in Int /\ k >= 0 /\ k <= Len(s) /\ Len(s) \in Nat
    BY LenProperties
  <2>2. q + k \in lo .. hi
    BY <2>1
  <2> QED BY <2>2
<1> QED BY <1>1, StringCopied

(* Of strings that fill a block each ends before the next ones begin. *)
LEMMA StringsInOrder ==
    ASSUME NEW lo \in Int, NEW size \in Nat \ {0}, lo <= 0,
           NEW mem \in [lo .. size + 1 -> Int], mem[size] = Nul,
           NEW number \in Nat \ {0}, NEW ps \in [1 .. number -> 1 .. size],
           Fills(mem, ps, size),
           NEW k \in 1 .. number, NEW n \in k + 1 .. number
    PROVE  StrEnd(mem, ps[k]) < ps[n]
<1>1. \A m \in 1 .. number : StrEnd(mem, ps[m]) \in ps[m] .. size
  <2> SUFFICES ASSUME NEW m \in 1 .. number PROVE StrEnd(mem, ps[m]) \in ps[m] .. size
    OBVIOUS
  <2> DEFINE hi == size + 1
  <2>1. hi \in Int /\ ps[m] \in lo .. hi /\ size \in ps[m] .. hi /\ mem \in [lo .. hi -> Int]
    OBVIOUS
  <2> HIDE DEF hi
  <2> QED BY <2>1, EndOfString
<1>2. \A m \in 1 .. number - 1 : ps[m + 1] = StrEnd(mem, ps[m]) + 1
  <2>1. ps \in Seq(1 .. size) /\ Len(ps) = number
    OBVIOUS
  <2> QED BY <2>1 DEF Fills
<1> DEFINE T == {m \in k + 1 .. number : ~(StrEnd(mem, ps[k]) < ps[m])}
<1> SUFFICES ASSUME n \in T PROVE FALSE
  OBVIOUS
<1>3. PICK m \in T : \A j \in T : m <= j
  <2>1. T \in SUBSET Nat
    OBVIOUS
  <2>2. T # {}
    OBVIOUS
  <2> HIDE DEF T
  <2> QED BY <2>1, <2>2, NatMin
<1>4. m \in k + 1 .. number /\ ~(StrEnd(mem, ps[k]) < ps[m])
  OBVIOUS
<1>5. m - 1 \in 1 .. number - 1 /\ m - 1 \in k .. number /\ (m - 1) + 1 = m
  BY <1>4
<1>6. ps[m] = StrEnd(mem, ps[m - 1]) + 1
  BY <1>2, <1>5, Zenon
<1>7. StrEnd(mem, ps[k]) \in Int /\ StrEnd(mem, ps[m - 1]) \in Int /\ ps[m - 1] \in Int
      /\ ps[m - 1] <= StrEnd(mem, ps[m - 1]) /\ ps[m] \in Int
  <2>1. k \in 1 .. number /\ m \in 1 .. number /\ m - 1 \in 1 .. number
    BY <1>4, <1>5
  <2>2. /\ ps[k] \in Int /\ ps[m] \in Int /\ ps[m - 1] \in Int
        /\ StrEnd(mem, ps[k]) \in ps[k] .. size
        /\ StrEnd(mem, ps[m - 1]) \in ps[m - 1] .. size
    <3>1. \A j \in 1 .. number : ps[j] \in Int
      OBVIOUS
    <3> QED BY <1>1, <2>1, <3>1, Zenon
  <2> QED BY <2>2
<1>8. PICK a \in Int, b \in Int, c \in Int :
        a = StrEnd(mem, ps[k]) /\ b = ps[m - 1] /\ c = StrEnd(mem, ps[m - 1])
  BY <1>7, Zenon
<1>9. b <= c /\ ps[m] = c + 1 /\ ~(a < ps[m])
  BY <1>4, <1>6, <1>7, <1>8, Zenon
<1>10. m - 1 # k
  <2> SUFFICES ASSUME m - 1 = k PROVE FALSE
    OBVIOUS
  <2>1. a = c
    BY <1>8, Zenon
  <2>2. a < c + 1
    BY <2>1
  <2> QED BY <1>9, <2>2, Zenon
<1>11. m - 1 \in k + 1 .. number
  BY <1>5, <1>10
<1>12. ~(m - 1 \in T)
  BY <1>3, <1>4
<1>13. a < b
  <2>1. StrEnd(mem, ps[k]) < ps[m - 1]
    BY <1>11, <1>12
  <2> QED BY <1>8, <2>1, Zenon
<1>14. a < c + 1
  <2>1. b <= c
    BY <1>9
  <2> QED BY <1>13, <2>1
<1> QED BY <1>9, <1>14, Zenon

(* At the start every string is where the kernel or setenv() has put it. *)
LEMMA TitleInvAtStart == Init => TitleInv
<1> SUFFICES ASSUME Init PROVE TitleInv
  OBVIOUS
<1>1. PICK size \in 1 .. MaxSize :
      \E nuls \in SUBSET (1 .. size), number \in 1 .. size :
      \E ps \in [1 .. number -> 1 .. size], argc \in 1 .. number :
          /\ size \in nuls
          /\ memory = Block(size, nuls)
          /\ Fills(memory, ps, size)
          /\ argv = [n \in 1 .. argc |-> ps[n]]
          /\ environ \in {env \in [1 .. number - argc -> -SetLength .. size] :
                            \A n \in DOMAIN env : env[n] > 0 => env[n] = ps[argc + n]}
          /\ p = size + 2
          /\ given = [size |-> size, argv |-> Strings(memory, argv),
                      environ |-> Strings(memory, environ)]
  BY DEF Init
<1>2. PICK nuls \in SUBSET (1 .. size), number \in 1 .. size :
      \E ps \in [1 .. number -> 1 .. size], argc \in 1 .. number :
          /\ size \in nuls
          /\ memory = Block(size, nuls)
          /\ Fills(memory, ps, size)
          /\ argv = [n \in 1 .. argc |-> ps[n]]
          /\ environ \in {env \in [1 .. number - argc -> -SetLength .. size] :
                            \A n \in DOMAIN env : env[n] > 0 => env[n] = ps[argc + n]}
          /\ p = size + 2
          /\ given = [size |-> size, argv |-> Strings(memory, argv),
                      environ |-> Strings(memory, environ)]
  BY <1>1
<1>3. PICK ps \in [1 .. number -> 1 .. size], argc \in 1 .. number :
          /\ size \in nuls
          /\ memory = Block(size, nuls)
          /\ Fills(memory, ps, size)
          /\ argv = [n \in 1 .. argc |-> ps[n]]
          /\ environ \in {env \in [1 .. number - argc -> -SetLength .. size] :
                            \A n \in DOMAIN env : env[n] > 0 => env[n] = ps[argc + n]}
          /\ p = size + 2
          /\ given = [size |-> size, argv |-> Strings(memory, argv),
                      environ |-> Strings(memory, environ)]
  BY <1>2
<1>4. /\ stage = "title" /\ g_last = None /\ visited = 0
      /\ option = [cmdline |-> <<>>, name |-> <<>>]
  BY DEF Init
<1> DEFINE hi == size + 1
           lo == -SetLength
<1>5. size \in Nat \ {0} /\ number \in Nat \ {0} /\ argc \in Nat \ {0}
      /\ hi \in Int /\ lo \in Int /\ lo <= 0
  BY BoundsAssumption
<1>6. /\ memory \in [lo .. hi -> Int]
      /\ memory[size] = Nul /\ memory[0] = Nul /\ memory[size + 1] = Guard
      /\ \A a \in lo .. hi : memory[a] # TitleByte
  BY <1>3, <1>5 DEF Block, Nul, Guard, TitleByte
<1>7. ASSUME NEW m \in 1 .. number
      PROVE  /\ CString(memory, ps[m]) \in Seq(Int)
             /\ ps[m] + Len(CString(memory, ps[m])) = StrEnd(memory, ps[m])
             /\ IsString(memory, ps[m], CString(memory, ps[m]))
             /\ StrEnd(memory, ps[m]) \in ps[m] .. size
             /\ ps[m] \in 1 .. size
  <2>1. ps[m] \in 1 .. size /\ ps[m] \in lo .. hi /\ size \in ps[m] .. hi
    BY <1>5
  <2> HIDE DEF lo, hi
  <2>2. memory \in [lo .. hi -> Int] /\ memory[size] = Nul /\ lo \in Int /\ hi \in Int
    BY <1>5, <1>6
  <2>3. /\ CString(memory, ps[m]) \in Seq(Int)
        /\ ps[m] + Len(CString(memory, ps[m])) = StrEnd(memory, ps[m])
        /\ IsString(memory, ps[m], CString(memory, ps[m]))
        /\ StrEnd(memory, ps[m]) \in ps[m] .. size
    BY <2>1, <2>2, StringThere
  <2> QED BY <2>1, <2>3
<1>8. \A k \in 1 .. number : \A n \in k + 1 .. number : StrEnd(memory, ps[k]) < ps[n]
  <2>1. memory \in [lo .. size + 1 -> Int]
    BY <1>6
  <2> HIDE DEF lo
  <2> QED BY <1>3, <1>5, <1>6, <2>1, StringsInOrder
<1>9. ps[1] = 1 /\ \A m \in 1 .. number - 1 : ps[m + 1] = StrEnd(memory, ps[m]) + 1
  <2>1. ps \in Seq(1 .. size) /\ Len(ps) = number
    OBVIOUS
  <2> QED BY <1>3, <2>1 DEF Fills
<1>10. /\ argv \in Seq(Int) /\ Len(argv) = argc
       /\ \A n \in 1 .. argc : n \in 1 .. number /\ argv[n] = ps[n]
  BY <1>3
<1>11. /\ environ \in Seq(Int) /\ Len(environ) = number - argc
       /\ \A n \in 1 .. number - argc :
             /\ argc + n \in 1 .. number /\ environ[n] \in lo .. size
             /\ environ[n] > 0 => environ[n] = ps[argc + n]
  <2>1. /\ environ \in [1 .. number - argc -> lo .. size]
        /\ \A n \in 1 .. number - argc : environ[n] > 0 => environ[n] = ps[argc + n]
    BY <1>3
  <2>2. number - argc \in Nat /\ \A n \in 1 .. number - argc : argc + n \in 1 .. number
    BY <1>5
  <2>3. environ \in Seq(Int) /\ Len(environ) = number - argc
    <3>1. environ \in [1 .. number - argc -> Int]
      BY <1>5, <2>1
    <3> QED BY <2>2, <3>1
  <2> QED BY <2>1, <2>2, <2>3
<1>12. /\ given.size = size
       /\ given.argv = [n \in 1 .. argc |-> CString(memory, argv[n])]
       /\ given.environ = [n \in 1 .. number - argc |-> CString(memory, environ[n])]
  <2>1. DOMAIN argv = 1 .. argc /\ DOMAIN environ = 1 .. number - argc
    BY <1>3
  <2> QED BY <1>3, <2>1 DEF Strings
<1>13. ASSUME NEW n \in 1 .. argc
       PROVE  /\ given.argv[n] \in Seq(Int)
              /\ ArgEnd(n) = StrEnd(memory, ps[n])
              /\ IsString(memory, argv[n], given.argv[n])
              /\ 1 <= argv[n] /\ argv[n] <= ArgEnd(n) /\ ArgEnd(n) <= size
              /\ ArgEnd(n) \in Int
  <2>1. n \in 1 .. number /\ argv[n] = ps[n]
    BY <1>10
  <2>2. given.argv[n] = CString(memory, ps[n])
    BY <1>12, <2>1
  <2>3. ArgEnd(n) = StrEnd(memory, ps[n])
    BY <1>7, <2>1, <2>2 DEF ArgEnd
  <2> QED BY <1>7, <2>1, <2>2, <2>3
<1>14. ASSUME NEW n \in 1 .. number - argc
       PROVE  /\ given.environ[n] \in Seq(Int)
              /\ EnvEnd(n) = StrEnd(memory, environ[n])
              /\ IsString(memory, environ[n], given.environ[n])
              /\ environ[n] \in Int /\ environ[n] <= EnvEnd(n) /\ EnvEnd(n) \in Int
              /\ \/ lo <= environ[n] /\ EnvEnd(n) <= 0
                 \/ environ[n] = ps[argc + n] /\ EnvEnd(n) <= size
  <2>1. given.environ[n] = CString(memory, environ[n])
    BY <1>12
  <2>2. CASE environ[n] > 0
    <3>1. argc + n \in 1 .. number /\ environ[n] = ps[argc + n]
      BY <1>11, <2>2
    <3>2. EnvEnd(n) = StrEnd(memory, environ[n])
      BY <1>7, <2>1, <3>1 DEF EnvEnd
    <3> QED BY <1>7, <2>1, <3>1, <3>2
  <2>3. CASE ~(environ[n] > 0)
    <3>1. environ[n] \in lo .. hi /\ 0 \in environ[n] .. hi
      BY <1>5, <1>11, <2>3
    <3> HIDE DEF lo, hi
    <3>2. /\ CString(memory, environ[n]) \in Seq(Int)
          /\ environ[n] + Len(CString(memory, environ[n])) = StrEnd(memory, environ[n])
          /\ IsString(memory, environ[n], CString(memory, environ[n]))
          /\ StrEnd(memory, environ[n]) \in environ[n] .. 0
      BY <1>5, <1>6, <3>1, StringThere
    <3>3. EnvEnd(n) = StrEnd(memory, environ[n])
      BY <2>1, <3>2 DEF EnvEnd
    <3> QED BY <1>5, <2>1, <3>1, <3>2, <3>3
  <2> QED BY <2>2, <2>3
<1>15. Shape
  <2>1. given.argv \in Seq(Seq(Int)) /\ given.environ \in Seq(Seq(Int))
    <3>1. argc \in Nat /\ number - argc \in Nat
      BY <1>5
    <3>2. given.argv \in Seq(Seq(Int))
      <4>1. \A n \in 1 .. argc : CString(memory, argv[n]) \in Seq(Int)
        <5>1. ASSUME NEW n \in 1 .. argc PROVE CString(memory, argv[n]) \in Seq(Int)
          <6>1. given.argv[n] = CString(memory, argv[n]) /\ given.argv[n] \in Seq(Int)
            BY <1>12, <1>13
          <6> QED BY <6>1
        <5> QED BY <5>1
      <4> QED BY <1>12, <3>1, <4>1
    <3>3. given.environ \in Seq(Seq(Int))
      <4>1. \A n \in 1 .. number - argc : CString(memory, environ[n]) \in Seq(Int)
        <5>1. ASSUME NEW n \in 1 .. number - argc
              PROVE  CString(memory, environ[n]) \in Seq(Int)
          <6>1. given.environ[n] = CString(memory, environ[n]) /\ given.environ[n] \in Seq(Int)
            BY <1>12, <1>14
          <6> QED BY <6>1
        <5> QED BY <5>1
      <4> QED BY <1>12, <3>1, <4>1
    <3> QED BY <3>2, <3>3
  <2>2. Len(given.environ) = number - argc
    BY <1>5, <1>12
  <2>3. argv # <<>> /\ argv[1] = 1
    BY <1>5, <1>9, <1>10
  <2>4. p = hi + 1 /\ p - 1 = hi /\ p \in Int /\ p > given.size + 1 /\ given.size \in Nat \ {0}
    BY <1>3, <1>5, <1>12
  <2>5. memory \in [lo .. p - 1 -> Int]
    BY <1>6, <2>4
  <2>6. g_last \in Int
    BY <1>4 DEF None
  <2> QED BY <1>10, <1>11, <2>1, <2>2, <2>3, <2>4, <2>5, <2>6 DEF Shape
<1>16. ArgvKept
  <2>1. Len(given.argv) = argc
    BY <1>5, <1>12
  <2>2. ASSUME NEW n \in 1 .. argc - 1 PROVE argv[n + 1] = ArgEnd(n) + 1
    <3>1. n \in 1 .. argc /\ n + 1 \in 1 .. argc /\ n \in 1 .. number - 1
      BY <1>5
    <3> QED BY <1>9, <1>10, <1>13, <3>1
  <2> QED BY <1>4, <1>10, <1>12, <1>13, <2>1, <2>2 DEF ArgvKept, Accepted
<1>17. FirstKept = ArgEnd(argc) + 1 /\ argc \in 1 .. argc
  BY <1>4, <1>5, <1>10 DEF FirstKept, InArgv
<1>18. EnvironKept
  <2> SUFFICES ASSUME NEW n \in 1 .. number - argc
               PROVE  /\ IsString(memory, environ[n], given.environ[n])
                      /\ \/ lo <= environ[n] /\ EnvEnd(n) <= 0
                         \/ InBlock(n)
    BY <1>11 DEF EnvironKept
  <2>1. CASE environ[n] = ps[argc + n] /\ EnvEnd(n) <= size
    <3>1. argc \in 1 .. number /\ argc + n \in argc + 1 .. number
      BY <1>5
    <3>2. StrEnd(memory, ps[argc]) < ps[argc + n]
      BY <1>8, <3>1
    <3>3. ArgEnd(argc) \in Int /\ environ[n] \in Int /\ ArgEnd(argc) < environ[n]
      BY <1>13, <1>14, <1>17, <2>1, <3>2
    <3> QED BY <1>12, <1>14, <1>17, <2>1, <3>3 DEF InBlock
  <2> QED BY <1>14, <2>1
<1>19. EnvironOrdered
  <2> SUFFICES ASSUME NEW k \in 1 .. number - argc, NEW n \in 1 .. number - argc,
                      k < n, InBlock(k), InBlock(n)
               PROVE  EnvEnd(k) < environ[n]
    BY <1>11 DEF EnvironOrdered
  <2>1. environ[k] = ps[argc + k] /\ environ[n] = ps[argc + n]
    <3>1. FirstKept > 0 /\ FirstKept \in Int
      BY <1>10, <1>13, <1>17
    <3>2. environ[k] > 0 /\ environ[n] > 0
      BY <1>14, <3>1 DEF InBlock
    <3> QED BY <1>11, <3>2
  <2>2. argc + k \in 1 .. number /\ argc + n \in (argc + k) + 1 .. number
    BY <1>5
  <2> QED BY <1>8, <1>14, <2>1, <2>2
<1>20. Last
  BY <1>4 DEF Last, Claimed
<1>21. Untouched
  BY <1>5, <1>6, <1>12 DEF Untouched
<1> QED BY <1>15, <1>16, <1>18, <1>19, <1>20, <1>21 DEF TitleInv

(* Places are numbers, and the strings of argv lie between 1 and the end of *)
(* the block.                                                               *)
LEMMA Places ==
    ASSUME Shape
    PROVE  /\ \A n \in 1 .. Len(environ) :
                 /\ environ[n] \in Int /\ given.environ[n] \in Seq(Int)
                 /\ EnvEnd(n) \in Int /\ environ[n] <= EnvEnd(n)
           /\ Len(argv) = Len(given.argv) =>
                 \A n \in 1 .. Len(argv) :
                    /\ argv[n] \in Int /\ given.argv[n] \in Seq(Int)
                    /\ ArgEnd(n) \in Int /\ argv[n] <= ArgEnd(n)
           /\ Len(argv) \in Nat \ {0}
           /\ -SetLength \in Int /\ -SetLength <= 0 /\ p - 1 \in Int
<1>1. ASSUME NEW n \in 1 .. Len(environ)
      PROVE  /\ environ[n] \in Int /\ given.environ[n] \in Seq(Int)
             /\ EnvEnd(n) \in Int /\ environ[n] <= EnvEnd(n)
  <2>1. environ[n] \in Int /\ given.environ[n] \in Seq(Int)
    BY ElementOfSeq DEF Shape
  <2>2. Len(given.environ[n]) \in Nat
    BY <2>1, LenProperties
  <2> QED BY <2>1, <2>2 DEF EnvEnd
<1>2. ASSUME Len(argv) = Len(given.argv), NEW n \in 1 .. Len(argv)
      PROVE  /\ argv[n] \in Int /\ given.argv[n] \in Seq(Int)
             /\ ArgEnd(n) \in Int /\ argv[n] <= ArgEnd(n)
  <2>1. argv[n] \in Int /\ given.argv[n] \in Seq(Int)
    BY <1>2, ElementOfSeq DEF Shape
  <2>2. Len(given.argv[n]) \in Nat
    BY <2>1, LenProperties
  <2> QED BY <2>1, <2>2 DEF ArgEnd
<1>3. Len(argv) \in Nat \ {0}
  BY LenProperties, EmptySeq DEF Shape
<1>4. -SetLength \in Int /\ -SetLength <= 0 /\ p - 1 \in Int
  BY BoundsAssumption DEF Shape
<1> QED BY <1>1, <1>2, <1>3, <1>4

(* While the memory and the pointers of the environment are left alone, it  *)
(* is enough that the titles reach no further.                              *)
LEMMA EnvironUntouched ==
    ASSUME Shape, EnvironKept, EnvironOrdered,
           UNCHANGED <<memory, environ, p, given>>,
           InTitle' => InTitle /\ FirstKept' = FirstKept,
           ~InTitle' => FirstKept' \in Int /\ FirstKept \in Int /\ FirstKept' <= FirstKept
    PROVE  EnvironKept' /\ EnvironOrdered'
<1>1. \A n \in 1 .. Len(environ) :
        /\ EnvEnd(n)' = EnvEnd(n) /\ environ[n] \in Int
        /\ InBlock(n) => InBlock(n)'
        /\ InTitle' => InBlock(n)' = InBlock(n)
  <2> SUFFICES ASSUME NEW n \in 1 .. Len(environ)
               PROVE  /\ EnvEnd(n)' = EnvEnd(n) /\ environ[n] \in Int
                      /\ InBlock(n) => InBlock(n)'
                      /\ InTitle' => InBlock(n)' = InBlock(n)
    OBVIOUS
  <2>1. environ[n] \in Int
    BY Places
  <2>2. EnvEnd(n)' = EnvEnd(n)
    BY DEF EnvEnd
  <2>3. InTitle' => InBlock(n)' = InBlock(n)
    BY <2>2 DEF InBlock
  <2>4. ~InTitle' /\ InBlock(n) => InBlock(n)'
    BY <2>1, <2>2 DEF InBlock
  <2> QED BY <2>1, <2>2, <2>3, <2>4
<1>2. EnvironKept'
  <2> SUFFICES ASSUME NEW n \in 1 .. Len(environ)
               PROVE  /\ IsString(memory', environ[n], given.environ[n])
                      /\ \/ -SetLength <= environ[n] /\ EnvEnd(n) <= 0
                         \/ InBlock(n)'
                         \/ environ[n] > given.size + 1 /\ EnvEnd(n) < p
    BY <1>1 DEF EnvironKept
  <2>1. memory' = memory
    OBVIOUS
  <2> QED BY <1>1, <2>1 DEF EnvironKept
<1>3. EnvironOrdered'
  BY <1>1 DEF EnvironOrdered
<1> QED BY <1>2, <1>3

(* No title reaches below the block. *)
LEMMA FirstPositive == ASSUME TitleInv PROVE FirstKept \in Nat \ {0}
<1>1. Shape /\ ArgvKept /\ Last
  BY DEF TitleInv
<1>2. CASE InArgv
  <2>1. PICK n \in 1 .. Len(argv) : n = Len(argv)
    BY <1>1, Places
  <2>2. argv[n] \in Int /\ ArgEnd(n) \in Int /\ argv[n] <= ArgEnd(n) /\ 1 <= argv[n]
    BY <1>1, <1>2, <2>1, Places DEF ArgvKept, InArgv, InInit
  <2> QED BY <1>2, <2>1, <2>2 DEF FirstKept
<1>3. CASE ~InArgv /\ InTitle
  BY <1>1, <1>3 DEF FirstKept, InArgv, InTitle, Last
<1>4. CASE ~InArgv /\ ~InTitle
  BY <1>1, <1>4 DEF FirstKept, InArgv, InTitle, Last, Claimed
<1> QED BY <1>2, <1>3, <1>4

(* So the environment always says what it said at the start, ... *)
LEMMA EnvironSays ==
    ASSUME TitleInv, NEW n \in 1 .. Len(environ)
    PROVE  /\ environ[n] \in -SetLength .. p - 1 /\ EnvEnd(n) \in -SetLength .. p - 1
           /\ StrEnd(memory, environ[n]) = EnvEnd(n)
           /\ CString(memory, environ[n]) = given.environ[n]
<1>1. Shape /\ EnvironKept
  BY DEF TitleInv
<1> DEFINE lo == -SetLength
           hi == p - 1
           q == environ[n]
           s == given.environ[n]
<1>2. /\ lo \in Int /\ hi \in Int /\ memory \in [lo .. hi -> Int]
      /\ lo <= 0 /\ given.size < hi /\ given.size \in Nat
      /\ q \in Int /\ s \in Seq(Int) /\ EnvEnd(n) \in Int /\ q <= EnvEnd(n)
  <2>1. lo \in Int /\ hi \in Int /\ lo <= 0
    BY <1>1, Places
  <2>2. memory \in [lo .. hi -> Int] /\ given.size < hi /\ given.size \in Nat
    BY <1>1, SMTT(30) DEF Shape
  <2>3. q \in Int /\ s \in Seq(Int) /\ EnvEnd(n) \in Int /\ q <= EnvEnd(n)
    BY <1>1, Places
  <2> QED BY <2>1, <2>2, <2>3
<1>3. q \in lo .. hi /\ EnvEnd(n) \in lo .. hi
  <2>1. \/ lo <= q /\ EnvEnd(n) <= 0
        \/ InBlock(n)
        \/ q > given.size + 1 /\ EnvEnd(n) < p
    BY <1>1 DEF EnvironKept
  <2>2. FirstKept \in Nat \ {0} /\ p \in Int
    BY <1>1, FirstPositive DEF Shape
  <2> QED BY <1>2, <2>1, <2>2 DEF InBlock
<1>4. EnvEnd(n) = q + Len(s) /\ IsString(memory, q, s)
  BY <1>1 DEF EnvEnd, EnvironKept
<1>5. StrEnd(memory, q) = EnvEnd(n) /\ CString(memory, q) = s
  <2>1. q + Len(s) \in lo .. hi
    BY <1>3, <1>4
  <2> HIDE DEF lo, hi, q, s
  <2>2. StrEnd(memory, q) = q + Len(s) /\ CString(memory, q) = s
    BY <1>2, <1>3, <1>4, <2>1, StringFound
  <2> QED BY <1>4, <2>2
<1> QED BY <1>3, <1>5

(* ... and argv as long as Master::Init runs. *)
LEMMA ArgvSays ==
    ASSUME TitleInv, InInit, NEW n \in 1 .. Len(argv)
    PROVE  /\ ArgEnd(n) \in 1 .. given.size
           /\ StrEnd(memory, argv[n]) = ArgEnd(n)
           /\ CString(memory, argv[n]) = given.argv[n]
<1>1. Shape /\ ArgvKept
  BY DEF TitleInv
<1> DEFINE lo == -SetLength
           hi == p - 1
           q == argv[n]
           s == given.argv[n]
<1>2. /\ lo \in Int /\ hi \in Int /\ memory \in [lo .. hi -> Int]
      /\ lo <= 0 /\ given.size < hi /\ given.size \in Nat
  BY <1>1, Places DEF Shape
<1>3. /\ Len(argv) = Len(given.argv) /\ IsString(memory, q, s) /\ 1 <= q
      /\ ArgEnd(n) <= given.size
  BY <1>1 DEF ArgvKept
<1>4. q \in Int /\ s \in Seq(Int) /\ ArgEnd(n) \in Int /\ q <= ArgEnd(n)
      /\ ArgEnd(n) = q + Len(s)
  BY <1>1, <1>3, Places DEF ArgEnd
<1>5. q \in lo .. hi /\ ArgEnd(n) \in lo .. hi /\ ArgEnd(n) \in 1 .. given.size
  BY <1>2, <1>3, <1>4, SMTT(30)
<1>6. StrEnd(memory, q) = ArgEnd(n) /\ CString(memory, q) = s
  <2>1. q + Len(s) \in lo .. hi
    BY <1>4, <1>5
  <2> HIDE DEF lo, hi, q, s
  <2>2. StrEnd(memory, q) = q + Len(s) /\ CString(memory, q) = s
    BY <1>2, <1>3, <1>4, <1>5, <2>1, StringFound
  <2> QED BY <1>4, <2>2
<1> QED BY <1>5, <1>6

-----------------------------------------------------------------------------
(* Each step of Master::Init keeps the invariant: first those of Title::Init.*)
LEMMA TitleInitKeeps == ASSUME TitleInv, TitleInit PROVE TitleInv'
<1> USE DEF TitleInit
<1>1. Shape /\ ArgvKept /\ EnvironKept /\ EnvironOrdered /\ Last /\ Untouched
  BY DEF TitleInv
<1>2. argv[1] = 1
  BY <1>1 DEF Shape
<1>3. Shape'
  BY <1>1, <1>2 DEF Shape
<1>4. ArgvKept'
  BY <1>1 DEF ArgvKept, InInit, InArgv, ArgEnd, Accepted
<1>5. EnvironKept' /\ EnvironOrdered'
  <2>1. InTitle' /\ InTitle /\ FirstKept' = FirstKept
    BY DEF InTitle, FirstKept, InArgv, ArgEnd
  <2> QED BY <1>1, <2>1, EnvironUntouched
<1>6. Last'
  BY <1>1, <1>2, Places DEF Last, Claimed
<1>7. Untouched'
  BY <1>1 DEF Untouched, Claimed, Last
<1> QED BY <1>3, <1>4, <1>5, <1>6, <1>7 DEF TitleInv

(* Without memory for the environment there are no titles. *)
LEMMA TitleInitFailsKeeps == ASSUME TitleInv, TitleInitFails PROVE TitleInv'
<1> USE DEF TitleInitFails, titleVars
<1>1. Shape /\ ArgvKept /\ EnvironKept /\ EnvironOrdered /\ Last /\ Untouched
  BY DEF TitleInv
<1>2. g_last = None
  BY <1>1 DEF Last
<1>3. Shape'
  BY <1>1 DEF Shape
<1>4. ArgvKept'
  BY <1>1 DEF ArgvKept, InInit, InArgv, ArgEnd, Accepted
<1>5. EnvironKept' /\ EnvironOrdered'
  <2>1. ~InTitle' /\ FirstKept' = 1
    BY <1>2 DEF InTitle, FirstKept, InArgv
  <2>2. FirstKept = ArgEnd(Len(argv)) + 1
    BY DEF FirstKept, InArgv
  <2>3. Len(argv) = Len(given.argv) /\ Len(argv) \in 1 .. Len(argv)
        /\ \A n \in 1 .. Len(argv) : 1 <= argv[n]
    BY <1>1, Places DEF ArgvKept, InInit
  <2>4. ArgEnd(Len(argv)) \in Int /\ ArgEnd(Len(argv)) >= 1
    <3>1. PICK n \in 1 .. Len(argv) : n = Len(argv)
      BY <2>3
    <3>2. argv[n] \in Int /\ ArgEnd(n) \in Int /\ argv[n] <= ArgEnd(n) /\ 1 <= argv[n]
      BY <1>1, <2>3, Places
    <3> QED BY <3>1, <3>2
  <2> QED BY <1>1, <2>1, <2>2, <2>4, EnvironUntouched
<1>6. Last'
  BY <1>2 DEF Last, Claimed
<1>7. Untouched'
  BY <1>1 DEF Untouched, Claimed
<1> QED BY <1>3, <1>4, <1>5, <1>6, <1>7 DEF TitleInv

(* Every string of argv goes on where the last one ended. *)
LEMMA VisitArgumentKeeps == ASSUME TitleInv, VisitArgument PROVE TitleInv'
<1> USE DEF VisitArgument
<1>1. Shape /\ ArgvKept /\ EnvironKept /\ EnvironOrdered /\ Last /\ Untouched
  BY DEF TitleInv
<1>0. PICK v \in Nat : v = visited + 1
  BY <1>1 DEF Last
<1>2. /\ v \in 1 .. Len(argv) /\ visited \in Nat /\ Len(argv) = Len(given.argv)
      /\ g_last = IF visited = 0 THEN 1 ELSE ArgEnd(visited) + 1
  BY <1>0, <1>1, Places DEF Last, ArgvKept, InInit
<1>3. StrEnd(memory, argv[v]) = ArgEnd(v)
  <2>1. /\ argv[v] \in Int /\ given.argv[v] \in Seq(Int) /\ ArgEnd(v) \in Int
        /\ argv[v] <= ArgEnd(v) /\ 1 <= argv[v] /\ ArgEnd(v) <= given.size
        /\ IsString(memory, argv[v], given.argv[v])
    BY <1>1, <1>2, Places DEF ArgvKept, InInit
  <2> DEFINE lo == -SetLength
             hi == p - 1
             q == argv[v]
             s == given.argv[v]
  <2>2. /\ lo \in Int /\ hi \in Int /\ memory \in [lo .. hi -> Int]
        /\ lo <= 0 /\ given.size < hi /\ given.size \in Int
    BY <1>1, Places DEF Shape
  <2>3. /\ q \in lo .. hi /\ q + Len(s) \in lo .. hi /\ s \in Seq(Int)
        /\ IsString(memory, q, s) /\ ArgEnd(v) = q + Len(s)
    BY <2>1, <2>2 DEF ArgEnd
  <2> HIDE DEF lo, hi, q, s
  <2>4. StrEnd(memory, q) = ArgEnd(v)
    <3>1. StrEnd(memory, q) = q + Len(s)
      BY <2>2, <2>3, StringFound, Zenon
    <3> QED BY <2>3, <3>1, Zenon
  <2> QED BY <2>4 DEF q
<1>4. g_last' = ArgEnd(v) + 1
  <2>1. argv[v] = g_last
    <3>1. CASE visited = 0
      BY <1>0, <1>1, <1>2, <3>1 DEF Shape
    <3>2. CASE visited # 0
      <4>1. visited \in 1 .. Len(argv) - 1
        BY <1>0, <1>2, <3>2
      <4> QED BY <1>0, <1>1, <1>2, <3>2, <4>1 DEF ArgvKept, InArgv
    <3> QED BY <3>1, <3>2
  <2> QED BY <1>0, <1>3, <2>1
<1>5. Shape'
  BY <1>1, <1>2, <1>4, Places, SMTT(30) DEF Shape
<1>6. ArgvKept'
  BY <1>1 DEF ArgvKept, InInit, InArgv, ArgEnd, Accepted
<1>7. EnvironKept' /\ EnvironOrdered'
  <2>1. InTitle' /\ InTitle /\ FirstKept' = FirstKept
    BY DEF InTitle, FirstKept, InArgv, ArgEnd
  <2> QED BY <1>1, <2>1, EnvironUntouched
<1>8. Last'
  <2>1. visited' = v /\ v # 0 /\ ArgEnd(v)' = ArgEnd(v) /\ ~Claimed'
    BY <1>0, <1>2 DEF ArgEnd, Claimed
  <2>2. visited' \in 0 .. Len(argv)' /\ g_last' = ArgEnd(visited)' + 1
    BY <1>2, <1>4, <2>1 DEF ArgEnd
  <2> QED BY <2>1, <2>2 DEF Last
<1>9. Untouched'
  BY <1>1 DEF Untouched, Claimed
<1> QED BY <1>5, <1>6, <1>7, <1>8, <1>9 DEF TitleInv

(* After the last of them the environment begins. *)
LEMMA ArgumentsVisitedKeeps == ASSUME TitleInv, ArgumentsVisited PROVE TitleInv'
<1> USE DEF ArgumentsVisited
<1>1. Shape /\ ArgvKept /\ EnvironKept /\ EnvironOrdered /\ Last /\ Untouched
  BY DEF TitleInv
<1> DEFINE v == Len(argv)
<1>2. v \in 1 .. Len(argv) /\ v # 0 /\ v = Len(given.argv) /\ g_last = ArgEnd(v) + 1
  BY <1>1, Places DEF Last, ArgvKept, InInit
<1>3. /\ ArgEnd(v) \in Int /\ 1 <= ArgEnd(v) /\ ArgEnd(v) <= given.size
      /\ memory[ArgEnd(v)] = Nul
  <2> HIDE DEF v
  <2>1. /\ argv[v] \in Int /\ ArgEnd(v) \in Int /\ argv[v] <= ArgEnd(v) /\ 1 <= argv[v]
        /\ ArgEnd(v) <= given.size /\ IsString(memory, argv[v], given.argv[v])
    BY <1>1, <1>2, Places DEF ArgvKept, InInit
  <2> QED BY <2>1 DEF IsString, ArgEnd
<1>4. Shape'
  BY <1>1 DEF Shape
<1>5. ArgvKept'
  BY <1>1 DEF ArgvKept, InInit, InArgv, ArgEnd, Accepted
<1>6. EnvironKept' /\ EnvironOrdered'
  <2>1. InTitle' /\ InTitle /\ FirstKept' = FirstKept
    BY <1>2 DEF InTitle, FirstKept, InArgv
  <2> QED BY <1>1, <2>1, EnvironUntouched
<1>7. Last'
  <2>1. g_last' - 1 = ArgEnd(v) /\ g_last' \in 2 .. given.size + 1 /\ ~Claimed'
    BY <1>1, <1>2, <1>3, SMTT(30) DEF Claimed, Shape
  <2>2. Len(environ) \in Nat
    BY <1>1, LenProperties DEF Shape
  <2> QED BY <1>3, <2>1, <2>2 DEF Last
<1>8. Untouched'
  BY <1>1 DEF Untouched, Claimed
<1> QED BY <1>4, <1>5, <1>6, <1>7, <1>8 DEF TitleInv

(* A string that stays lies elsewhere, or behind a gap. *)
LEMMA KeepStringKeeps == ASSUME TitleInv, KeepString PROVE TitleInv'
<1> USE DEF KeepString
<1>1. Shape /\ ArgvKept /\ EnvironKept /\ EnvironOrdered /\ Last /\ Untouched
  BY DEF TitleInv
<1>2. Shape'
  BY <1>1 DEF Shape
<1>3. ArgvKept'
  BY <1>1 DEF ArgvKept, InInit, InArgv, ArgEnd, Accepted
<1>4. EnvironKept' /\ EnvironOrdered'
  <2>1. InTitle' /\ InTitle /\ FirstKept' = FirstKept
    BY DEF InTitle, FirstKept, InArgv
  <2> QED BY <1>1, <2>1, EnvironUntouched
<1>5. Last'
  <2>1. visited \in 0 .. Len(environ) /\ visited < Len(environ) /\ Len(environ) \in Nat
    BY <1>1, LenProperties DEF Last, Shape
  <2>2. visited' \in 0 .. Len(environ)
    BY <2>1
  <2> QED BY <1>1, <2>2 DEF Last, Claimed
<1>6. Untouched'
  BY <1>1 DEF Untouched, Claimed
<1> QED BY <1>2, <1>3, <1>4, <1>5, <1>6 DEF TitleInv

(* The Nul that ends the last string of all is not for the titles. *)
LEMMA TitleInitDoneKeeps == ASSUME TitleInv, TitleInitDone PROVE TitleInv'
<1> USE DEF TitleInitDone
<1>1. Shape /\ ArgvKept /\ EnvironKept /\ EnvironOrdered /\ Last /\ Untouched
  BY DEF TitleInv
<1>2. /\ g_last \in 2 .. given.size + 1 /\ memory[g_last - 1] = Nul
      /\ given.size \in Nat
  BY <1>1 DEF Last, Shape
<1>3. Shape'
  BY <1>1, <1>2 DEF Shape
<1>4. ArgvKept'
  BY <1>1 DEF ArgvKept, InInit, InArgv, ArgEnd, Accepted
<1>5. EnvironKept' /\ EnvironOrdered'
  <2>1. ~InTitle' /\ FirstKept = g_last /\ FirstKept' = g_last
    BY <1>2 DEF InTitle, FirstKept, InArgv, None
  <2> QED BY <1>1, <1>2, <2>1, EnvironUntouched
<1>6. Last'
  BY <1>1, <1>2 DEF Last, Claimed
<1>7. Untouched'
  BY <1>1 DEF Untouched, Claimed
<1> QED BY <1>3, <1>4, <1>5, <1>6, <1>7 DEF TitleInv

(* The command line is copied while argv is intact. *)
LEMMA OptionAcceptsKeeps == ASSUME TitleInv, OptionAccepts PROVE TitleInv'
<1>0. /\ stage = "options" /\ stage' = "up"
      /\ UNCHANGED <<memory, argv, environ, g_last, visited, p, given>>
      /\ option'.cmdline = Strings(memory, argv)
  BY DEF OptionAccepts, titleVars
<1>1. Shape /\ ArgvKept /\ EnvironKept /\ EnvironOrdered /\ Last /\ Untouched
  BY DEF TitleInv
<1>2. Shape'
  BY <1>0, <1>1 DEF Shape
<1>3. ArgvKept'
  <2>1. Strings(memory, argv) = given.argv
    <3>1. /\ argv \in Seq(Int) /\ given.argv \in Seq(Seq(Int))
          /\ Len(argv) = Len(given.argv)
      BY <1>0, <1>1 DEF Shape, ArgvKept, InInit
    <3>2. \A n \in 1 .. Len(argv) : CString(memory, argv[n]) = given.argv[n]
      BY <1>0, ArgvSays DEF InInit
    <3>3. /\ DOMAIN argv = 1 .. Len(argv)
          /\ given.argv = [n \in 1 .. Len(argv) |-> given.argv[n]]
      BY <3>1, LenProperties
    <3> QED BY <3>2, <3>3 DEF Strings
  <2> QED BY <1>0, <2>1 DEF ArgvKept, InInit, InArgv
<1>4. EnvironKept' /\ EnvironOrdered'
  <2>1. ~InTitle' /\ FirstKept' = FirstKept /\ FirstKept \in Int
    BY <1>0, FirstPositive DEF InTitle, FirstKept, InArgv
  <2> QED BY <1>0, <1>1, <2>1, EnvironUntouched
<1>5. Last'
  BY <1>0, <1>1 DEF Last, Claimed
<1>6. Untouched'
  BY <1>0, <1>1 DEF Untouched, Claimed
<1> QED BY <1>2, <1>3, <1>4, <1>5, <1>6 DEF TitleInv

(* The start may fail in Option::Init or, without Title::Init, in RunMaster.*)
LEMMA FailedStartKeeps ==
    ASSUME TitleInv, OptionAborts \/ OptionRefuses \/ (stage = "up" /\ SetTitleCrashes)
    PROVE  TitleInv'
<1>0. /\ stage \in {"options", "up"} /\ stage' \in {"aborted", "refused", "crashed"}
      /\ UNCHANGED <<memory, argv, environ, g_last, visited, p, given, option>>
  BY DEF OptionAborts, OptionRefuses, SetTitleCrashes, titleVars
<1>1. Shape /\ ArgvKept /\ EnvironKept /\ EnvironOrdered /\ Last /\ Untouched
  BY DEF TitleInv
<1>2. Shape'
  BY <1>0, <1>1 DEF Shape
<1>3. ArgvKept'
  BY <1>0 DEF ArgvKept, InInit, InArgv, Accepted
<1>4. EnvironKept' /\ EnvironOrdered'
  <2>1. ~InTitle' /\ FirstKept' = FirstKept /\ FirstKept \in Int
    BY <1>0, FirstPositive DEF InTitle, FirstKept, InArgv
  <2> QED BY <1>0, <1>1, <2>1, EnvironUntouched
<1>5. Last'
  BY <1>0, <1>1 DEF Last, Claimed
<1>6. Untouched'
  BY <1>0, <1>1 DEF Untouched, Claimed
<1> QED BY <1>2, <1>3, <1>4, <1>5, <1>6 DEF TitleInv

(* A string that moves takes its bytes to memory no other string is in, and *)
(* the next one that may move lies behind it.                               *)
LEMMA MoveStringKeeps == ASSUME TitleInv, MoveString PROVE TitleInv'
<1>1. Shape /\ ArgvKept /\ EnvironKept /\ EnvironOrdered /\ Last /\ Untouched
  BY DEF TitleInv
<1>2. PICK v \in Nat : v = visited + 1
  BY <1>1 DEF Last, MoveString
<1>0. v \in 1 .. Len(environ)
  <2>1. visited \in Nat /\ visited < Len(environ) /\ Len(environ) \in Nat
    BY <1>1, LenProperties DEF Last, MoveString, Shape
  <2> QED BY <1>2, <2>1
<1>3. PICK q \in Int : q = environ[v]
  BY <1>0, <1>1, Places
<1>4. PICK s \in Seq(Int) : s = given.environ[v]
  BY <1>0, <1>1, Places
<1>5. PICK e \in Int : e = EnvEnd(v)
  BY <1>0, <1>1, Places
<1>6. /\ stage = "environ" /\ v \in 1 .. Len(environ) /\ g_last = q
      /\ e = q + Len(s) /\ Len(s) \in Nat /\ StrEnd(memory, q) = e
  <2>1. v \in 1 .. Len(environ)
    BY <1>0
  <2>2. StrEnd(memory, q) = e
    BY <1>3, <1>5, <2>1, EnvironSays
  <2>3. e = q + Len(s) /\ Len(s) \in Nat
    BY <1>3, <1>4, <1>5, LenProperties DEF EnvEnd
  <2>4. stage = "environ" /\ g_last = q
    BY <1>2, <1>3 DEF MoveString
  <2> QED BY <2>1, <2>2, <2>3, <2>4
<1>7. PICK size \in Nat \ {0}, lo \in Int :
         /\ size = Len(s) + 1 /\ size = e + 1 - q /\ lo = -SetLength /\ lo <= 0
  <2>1. Len(s) + 1 \in Nat \ {0} /\ Len(s) + 1 = e + 1 - q
    BY <1>6
  <2>2. -SetLength \in Int /\ -SetLength <= 0
    BY <1>1, Places
  <2> QED BY <2>1, <2>2
<1>8. /\ p \in Int /\ given.size \in Nat /\ p > given.size + 1
      /\ g_last \in 2 .. given.size + 1
  BY <1>1, <1>6 DEF Shape, Last
<1>9. q >= 2 /\ e >= q /\ e <= given.size /\ InBlock(v)
  <2>1. \/ lo <= q /\ e <= 0
        \/ InBlock(v)
        \/ q > given.size + 1 /\ e < p
    BY <1>1, <1>3, <1>5, <1>6, <1>7 DEF EnvironKept
  <2>2. q >= 2 /\ q <= given.size + 1 /\ e >= q
    BY <1>6, <1>8
  <2>3. InBlock(v)
    BY <1>8, <2>1, <2>2
  <2>4. e <= given.size
    BY <1>5, <2>3 DEF InBlock
  <2> QED BY <2>2, <2>3, <2>4
<1>b. StrEnd(memory, q) + 1 - q = size
  BY <1>6, <1>7
<1>10. /\ g_last' = e + 1
       /\ p' = p + size /\ p' \in Int /\ p' > p
       /\ visited' = v
       /\ UNCHANGED <<stage, argv, given, option>>
  <2>1. /\ g_last' = q + size /\ p' = p + size /\ visited' = v
        /\ UNCHANGED <<stage, argv, given, option>>
    BY <1>2, <1>3, <1>b DEF MoveString
  <2>2. q + size = e + 1 /\ p + size \in Int /\ p + size > p
    BY <1>7, <1>8
  <2> QED BY <2>1, <2>2
<1>c. /\ memory' = [a \in DOMAIN memory \cup p .. p + size - 1 |->
                       IF a < p THEN memory[a] ELSE memory[q + a - p]]
      /\ environ' = [environ EXCEPT ![v] = p]
  BY <1>2, <1>3, <1>b DEF MoveString
<1>d. memory \in [lo .. p - 1 -> Int]
  BY <1>1, <1>7 DEF Shape
<1>11. /\ memory' \in [lo .. p' - 1 -> Int]
       /\ \A a \in lo .. p - 1 : memory'[a] = memory[a]
       /\ \A k \in 0 .. Len(s) : memory'[p + k] = memory[q + k]
  <2>1. DOMAIN memory \cup p .. p + size - 1 = lo .. p' - 1
    <3>1. DOMAIN memory = lo .. p - 1
      BY <1>d
    <3>2. p + size - 1 = p' - 1
      BY <1>8, <1>10
    <3>3. lo .. p - 1 \cup p .. p' - 1 = lo .. p' - 1
      BY <1>7, <1>8, <1>10
    <3> QED BY <3>1, <3>2, <3>3
  <2>2. memory' = [a \in lo .. p' - 1 |->
                      IF a < p THEN memory[a] ELSE memory[q + a - p]]
    BY <1>c, <2>1
  <2>3. ASSUME NEW a \in lo .. p' - 1
        PROVE  /\ a < p => memory[a] \in Int
               /\ ~(a < p) => memory[q + a - p] \in Int
    <3>1. a < p => a \in lo .. p - 1
      BY <1>8
    <3>2. ~(a < p) => q + a - p \in lo .. p - 1
      <4>1. a \in Int /\ a <= p + size - 1 /\ q + size <= given.size + 1
        BY <1>7, <1>8, <1>9, <1>10, SMTT(30)
      <4> QED BY <1>7, <1>8, <1>9, <4>1, SMTT(30)
    <3> QED BY <1>d, <3>1, <3>2
  <2>4. memory' \in [lo .. p' - 1 -> Int]
    BY <2>2, <2>3
  <2>5. ASSUME NEW a \in lo .. p - 1 PROVE memory'[a] = memory[a]
    <3>1. a \in lo .. p' - 1 /\ a < p
      BY <1>8, <1>10
    <3> QED BY <2>2, <3>1
  <2>6. ASSUME NEW k \in 0 .. Len(s) PROVE memory'[p + k] = memory[q + k]
    <3>1. k \in Nat /\ k <= size - 1
      BY <1>6, <1>7
    <3>2. p + k \in lo .. p' - 1 /\ ~(p + k < p) /\ q + (p + k) - p = q + k
      BY <1>7, <1>8, <1>10, <3>1
    <3> QED BY <2>2, <3>2
  <2> QED BY <2>4, <2>5, <2>6
<1>12. /\ environ' \in Seq(Int) /\ Len(environ') = Len(environ) /\ environ'[v] = p
       /\ \A n \in 1 .. Len(environ) : n # v => environ'[n] = environ[n]
  <2>1. environ \in Seq(Int)
    BY <1>1 DEF Shape
  <2> QED BY <1>6, <1>8, <1>c, <2>1, ExceptSeq
<1>13. ASSUME NEW n \in 1 .. Len(environ), n # v
       PROVE  EnvEnd(n)' = EnvEnd(n) /\ environ'[n] = environ[n]
  BY <1>10, <1>12, <1>13 DEF EnvEnd
<1>14. EnvEnd(v)' = e + p - q
  BY <1>4, <1>6, <1>8, <1>10, <1>12 DEF EnvEnd
<1>15. FirstKept = q /\ FirstKept' = e + 1
  BY <1>6, <1>10 DEF FirstKept, InArgv, InTitle
<1>16. Shape'
  <2>1. p' > given.size + 1 /\ g_last' \in Int
    BY <1>7, <1>8, <1>10
  <2>2. memory' \in [-SetLength .. p' - 1 -> Int]
    BY <1>11, <1>7, <1>10
  <2> QED BY <1>1, <1>7, <1>10, <1>12, <2>1, <2>2 DEF Shape
<1>17. ArgvKept'
  <2>1. ASSUME NEW n \in 1 .. Len(argv) PROVE IsString(memory', argv[n], given.argv[n])
    <3>1. /\ IsString(memory, argv[n], given.argv[n]) /\ 1 <= argv[n]
          /\ ArgEnd(n) <= given.size /\ Len(argv) = Len(given.argv)
      BY <1>1, <1>6 DEF ArgvKept, InInit
    <3>2. /\ argv[n] \in Int /\ given.argv[n] \in Seq(Int)
          /\ Len(given.argv[n]) \in Nat /\ argv[n] + Len(given.argv[n]) <= given.size
      BY <1>1, <3>1, Places, LenProperties DEF ArgEnd
    <3>3. PICK hi \in Int : hi = p - 1
      BY <1>8
    <3>4. lo <= argv[n] /\ argv[n] + Len(given.argv[n]) <= hi
      BY <1>7, <1>8, <3>1, <3>2, <3>3, SMTT(30)
    <3> QED BY <1>11, <3>1, <3>2, <3>3, <3>4, StringKept
  <2> QED BY <1>1, <1>6, <1>7, <1>10, <2>1 DEF ArgvKept, InInit, InArgv, ArgEnd, Accepted
<1>18. ASSUME NEW n \in 1 .. Len(environ), n # v
       PROVE  /\ IsString(memory', environ[n], given.environ[n])
              /\ InBlock(n) => InBlock(n)'
              /\ InBlock(n)' => InBlock(n)
  <2>1. /\ environ[n] \in Int /\ given.environ[n] \in Seq(Int)
        /\ EnvEnd(n) \in Int /\ environ[n] <= EnvEnd(n)
        /\ EnvEnd(n) = environ[n] + Len(given.environ[n])
        /\ Len(given.environ[n]) \in Nat
    BY <1>1, Places, LenProperties DEF EnvEnd
  <2>2. environ[n] \in lo .. p - 1 /\ EnvEnd(n) \in lo .. p - 1
    BY <1>7, <1>10, EnvironSays
  <2>3. IsString(memory', environ[n], given.environ[n])
    <3>1. IsString(memory, environ[n], given.environ[n])
      BY <1>1 DEF EnvironKept
    <3>2. PICK hi \in Int : hi = p - 1
      BY <1>8
    <3>3. lo <= environ[n] /\ environ[n] + Len(given.environ[n]) <= hi
      BY <2>1, <2>2, <3>2
    <3> QED BY <1>11, <2>1, <3>1, <3>2, <3>3, StringKept
  <2>4. InBlock(n) => InBlock(n)'
    <3> SUFFICES ASSUME InBlock(n) PROVE e + 1 <= environ[n] /\ EnvEnd(n) <= given.size
      BY <1>7, <1>10, <1>13, <1>15, <1>18 DEF InBlock
    <3>1. EnvEnd(n) <= given.size /\ q <= environ[n]
      BY <1>15 DEF InBlock
    <3>2. CASE v < n
      <4>1. EnvEnd(v) < environ[n]
        BY <1>1, <1>6, <1>9, <3>2 DEF EnvironOrdered, InTitle
      <4> QED BY <1>5, <2>1, <3>1, <4>1
    <3>3. CASE n < v
      <4>1. EnvEnd(n) < q
        BY <1>1, <1>3, <1>6, <1>9, <3>3 DEF EnvironOrdered, InTitle
      <4> QED BY <2>1, <3>1, <4>1
    <3> QED BY <1>18, <3>2, <3>3
  <2>5. InBlock(n)' => InBlock(n)
    BY <1>7, <1>10, <1>9, <1>13, <1>15, <1>18, <2>1, SMTT(30) DEF InBlock
  <2> QED BY <2>3, <2>4, <2>5
<1>19. EnvironKept'
  <2> SUFFICES ASSUME NEW n \in 1 .. Len(environ)
               PROVE  /\ IsString(memory', environ'[n], given.environ[n])
                      /\ \/ lo <= environ'[n] /\ EnvEnd(n)' <= 0
                         \/ InBlock(n)'
                         \/ environ'[n] > given.size + 1 /\ EnvEnd(n)' < p'
    BY <1>7, <1>10, <1>12 DEF EnvironKept
  <2>1. CASE n = v
    <3>1. IsString(memory, q, s)
      BY <1>1, <1>3, <1>4, <1>6 DEF EnvironKept
    <3>2. IsString(memory', p, s)
      BY <1>8, <1>11, <3>1, StringCopied
    <3>3. environ'[n] > given.size + 1 /\ EnvEnd(n)' < p'
      BY <1>7, <1>10, <1>8, <1>12, <1>14, <2>1, SMTT(30)
    <3> QED BY <1>4, <1>12, <2>1, <3>2, <3>3
  <2>2. CASE n # v
    <3>1. EnvEnd(n) \in Int /\ environ'[n] = environ[n] /\ EnvEnd(n)' = EnvEnd(n)
      BY <1>1, <1>13, <2>2, Places
    <3>2. \/ lo <= environ[n] /\ EnvEnd(n) <= 0
          \/ InBlock(n)
          \/ environ[n] > given.size + 1 /\ EnvEnd(n) < p
      BY <1>1, <1>7, <1>10 DEF EnvironKept
    <3> QED BY <1>8, <1>10, <1>18, <2>2, <3>1, <3>2
  <2> QED BY <2>1, <2>2
<1>20. EnvironOrdered'
  <2> SUFFICES ASSUME NEW k \in 1 .. Len(environ), NEW n \in 1 .. Len(environ),
                      k < n, InBlock(k)', InBlock(n)'
               PROVE  EnvEnd(k)' < environ'[n]
    BY <1>7, <1>10, <1>12 DEF EnvironOrdered
  <2>1. ~InBlock(v)'
    <3>1. ~(e + p - q <= given.size)
      BY <1>8, <1>9
    <3> QED BY <1>7, <1>10, <1>14, <3>1 DEF InBlock
  <2>2. k # v /\ n # v
    BY <2>1
  <2> QED BY <1>1, <1>6, <1>13, <1>18, <2>2 DEF EnvironOrdered, InTitle
<1>21. Last'
  <2>1. memory'[e] = Nul
    <3>1. memory[e] = Nul
      BY <1>1, <1>3, <1>4, <1>6 DEF EnvironKept, IsString
    <3>2. e \in lo .. p - 1
      BY <1>7, <1>8, <1>9
    <3> QED BY <1>11, <3>1, <3>2
  <2>2. /\ stage' = "environ" /\ visited' \in 0 .. Len(environ')
        /\ g_last' \in 2 .. given.size + 1 /\ g_last' - 1 = e
    BY <1>6, <1>7, <1>10, <1>8, <1>9, <1>12, SMTT(30)
  <2> QED BY <1>7, <1>10, <2>1, <2>2 DEF Last, Claimed
<1>22. Untouched'
  <2>1. \A a \in lo .. p - 1 : memory[a] # TitleByte
    BY <1>1, <1>6, <1>d DEF Untouched, Claimed
  <2>2. ASSUME NEW a \in lo .. p' - 1 PROVE memory'[a] # TitleByte
    <3>1. CASE a < p
      <4>1. a \in lo .. p - 1
        BY <1>8, <3>1
      <4> QED BY <1>11, <2>1, <4>1
    <3>2. CASE ~(a < p)
      <4>1. PICK k \in Int : k = a - p
        BY <1>8
      <4>2. k \in 0 .. Len(s) /\ a = p + k /\ q + k \in lo .. p - 1
        <5>1. a \in Int /\ a <= p + size - 1 /\ q + size <= given.size + 1
          BY <1>7, <1>8, <1>9, <1>10, SMTT(30)
        <5>2. k >= 0 /\ k <= size - 1 /\ a = p + k
          BY <1>7, <1>8, <3>2, <4>1, <5>1
        <5> QED BY <1>6, <1>7, <1>8, <1>9, <5>1, <5>2, SMTT(30)
      <4> QED BY <1>11, <2>1, <4>2
    <3> QED BY <3>1, <3>2
  <2>3. memory'[given.size + 1] = Guard
    <3>1. given.size + 1 \in lo .. p - 1
      BY <1>7, <1>8
    <3> QED BY <1>1, <1>11, <3>1 DEF Untouched
  <2>4. DOMAIN memory' = lo .. p' - 1
    BY <1>11
  <2> QED BY <1>7, <1>10, <2>2, <2>3, <2>4 DEF Untouched
<1> QED BY <1>16, <1>17, <1>19, <1>20, <1>21, <1>22 DEF TitleInv

(* A title is written where no string of the environment is any more. *)
LEMMA SetTitleKeeps ==
    ASSUME TitleInv, NEW n \in TitleLengths, SetTitle(n),
           stage \in {"up", "running"}, stage' \in {"up", "running"}
    PROVE  TitleInv'
<1>0. /\ g_last # None
      /\ memory' = [a \in DOMAIN memory |->
                       IF a \notin argv[1] .. g_last - 1 THEN memory[a]
                       ELSE IF a < argv[1] + n THEN TitleByte ELSE Nul]
      /\ argv' = <<argv[1]>>
      /\ UNCHANGED <<environ, g_last, visited, p, given, option>>
  BY DEF SetTitle
<1>1. Shape /\ ArgvKept /\ EnvironKept /\ EnvironOrdered /\ Last /\ Untouched
  BY DEF TitleInv
<1>2. /\ ~InArgv /\ ~InTitle /\ ~InInit /\ ~InArgv' /\ ~InTitle' /\ ~InInit'
      /\ Claimed /\ Claimed' /\ Accepted /\ Accepted'
  BY <1>0 DEF InArgv, InTitle, InInit, Claimed, Accepted
<1>3. /\ g_last \in 1 .. given.size /\ memory[g_last] = Nul
      /\ given.size \in Nat /\ p \in Int /\ p > given.size + 1 /\ argv[1] = 1
  BY <1>1, <1>2 DEF Last, Shape
<1>4. PICK lo \in Int, hi \in Int : lo = -SetLength /\ lo <= 0 /\ hi = p - 1
  BY <1>1, Places
<1>5. /\ memory \in [lo .. hi -> Int] /\ memory' \in [lo .. hi -> Int]
      /\ \A a \in lo .. hi : memory'[a] =
             IF a \notin 1 .. g_last - 1 THEN memory[a]
             ELSE IF a < 1 + n THEN TitleByte ELSE Nul
  <2>1. memory \in [lo .. hi -> Int]
    BY <1>1, <1>4 DEF Shape
  <2>2. memory' = [a \in lo .. hi |-> IF a \notin 1 .. g_last - 1 THEN memory[a]
                                     ELSE IF a < 1 + n THEN TitleByte ELSE Nul]
    BY <1>0, <1>3, <2>1
  <2> QED BY <2>1, <2>2 DEF TitleByte, Nul
<1>6. FirstKept = g_last + 1 /\ FirstKept' = g_last + 1
  BY <1>0, <1>2 DEF FirstKept
<1>7. Shape'
  <2>1. argv' \in Seq(Int) /\ argv' # <<>> /\ argv'[1] = 1
    BY <1>0, <1>3
  <2>2. memory' \in [-SetLength .. p' - 1 -> Int]
    BY <1>0, <1>4, <1>5
  <2> QED BY <1>0, <1>1, <2>1, <2>2 DEF Shape
<1>8. ArgvKept'
  BY <1>0, <1>1, <1>2 DEF ArgvKept, InInit, InArgv
<1>9. EnvironKept'
  <2> SUFFICES ASSUME NEW m \in 1 .. Len(environ)
               PROVE  /\ IsString(memory', environ[m], given.environ[m])
                      /\ \/ lo <= environ[m] /\ EnvEnd(m)' <= 0
                         \/ InBlock(m)'
                         \/ environ[m] > given.size + 1 /\ EnvEnd(m)' < p
    BY <1>0, <1>4 DEF EnvironKept
  <2>1. /\ environ[m] \in Int /\ given.environ[m] \in Seq(Int)
        /\ EnvEnd(m) \in Int /\ environ[m] <= EnvEnd(m)
        /\ EnvEnd(m) = environ[m] + Len(given.environ[m])
    BY <1>1, Places DEF EnvEnd
  <2>2. EnvEnd(m)' = EnvEnd(m) /\ InBlock(m)' = InBlock(m)
    BY <1>0, <1>6 DEF EnvEnd, InBlock
  <2>3. /\ IsString(memory, environ[m], given.environ[m])
        /\ \/ lo <= environ[m] /\ EnvEnd(m) <= 0
           \/ InBlock(m)
           \/ environ[m] > given.size + 1 /\ EnvEnd(m) < p
    BY <1>1, <1>4 DEF EnvironKept
  <2>4. lo <= environ[m] /\ EnvEnd(m) <= hi
    BY <1>3, <1>4, <1>6, <2>1, <2>3 DEF InBlock
  <2>5. EnvEnd(m) <= 0 \/ g_last <= environ[m]
    BY <1>3, <1>6, <2>1, <2>3 DEF InBlock
  <2>6. IsString(memory', environ[m], given.environ[m])
    <3>1. CASE EnvEnd(m) <= 0
      <4>1. PICK z \in Int : z = 0
        OBVIOUS
      <4>2. \A a \in lo .. z : memory'[a] = memory[a]
        BY <1>3, <1>4, <1>5, <4>1
      <4>3. environ[m] + Len(given.environ[m]) <= z
        BY <2>1, <3>1, <4>1
      <4> QED BY <2>1, <2>3, <2>4, <4>2, <4>3, StringKept
    <3>2. CASE g_last <= environ[m]
      <4>1. \A a \in g_last .. hi : memory'[a] = memory[a]
        BY <1>3, <1>4, <1>5
      <4>2. g_last \in Int
        BY <1>3
      <4> QED BY <2>1, <2>3, <2>4, <3>2, <4>1, <4>2, StringKept
    <3> QED BY <2>5, <3>1, <3>2
  <2> QED BY <2>2, <2>3, <2>6
<1>10. EnvironOrdered'
  BY <1>2 DEF EnvironOrdered
<1>11. Last'
  <2>1. memory'[g_last] = Nul
    BY <1>3, <1>4, <1>5
  <2>2. stage' \notin {"title", "argv", "environ"}
    OBVIOUS
  <2> QED BY <1>0, <1>3, <2>1, <2>2 DEF Last
<1>12. Untouched'
  <2>1. DOMAIN memory = lo .. hi /\ DOMAIN memory' = lo .. hi
    BY <1>5
  <2>2. ASSUME NEW a \in lo .. hi, memory'[a] = TitleByte PROVE a \in 1 .. g_last
    <3>1. CASE a \in 1 .. g_last - 1
      BY <1>3, <3>1
    <3>2. CASE a \notin 1 .. g_last - 1
      BY <1>1, <1>5, <2>1, <2>2, <3>2 DEF Untouched
    <3> QED BY <3>1, <3>2
  <2>3. memory'[given.size + 1] = Guard
    <3>1. given.size + 1 \in lo .. hi /\ given.size + 1 \notin 1 .. g_last - 1
      BY <1>3, <1>4
    <3> QED BY <1>1, <1>5, <3>1 DEF Untouched
  <2> QED BY <1>0, <1>2, <2>1, <2>2, <2>3 DEF Untouched
<1> QED BY <1>7, <1>8, <1>9, <1>10, <1>11, <1>12 DEF TitleInv

-----------------------------------------------------------------------------
(* The handler of SIGTERM and the worker set titles, but there is no worker *)
(* before RunMaster: up to there every call is still to be made.            *)
NoWorkerYet == stage # "running" => todo = W!Calls

(* So no SIGTERM, whose handler sets a title, comes while Master::Init runs.*)
LEMMA SigtermNeedsWorker == ASSUME NoWorkerYet, W!Sigterm PROVE stage = "running"
<1> SUFFICES ASSUME todo = W!Calls PROVE FALSE
  BY DEF NoWorkerYet
<1>1. /\ 5 \in DOMAIN W!Calls /\ W!Calls[5] = <<"fork", "main">>
  BY DEF W!Calls, W!ResourceInit, W!Each
<1>2. W!Made("fork", "main")
  BY DEF W!Sigterm
<1> QED BY <1>1, <1>2 DEF W!Made

(* The invariant of the application, ... *)
AppInv == TitleInv /\ NoWorkerYet

(* ... which every step keeps, ... *)
LEMMA AppInvKept == AppInv /\ [AppNext]_appvars => AppInv'
<1> SUFFICES ASSUME AppInv, [AppNext]_appvars PROVE AppInv'
  OBVIOUS
<1>1. TitleInv /\ NoWorkerYet
  BY DEF AppInv
<1>2. ASSUME UNCHANGED vars PROVE TitleInv'
  BY <1>1, <1>2 DEF vars, TitleInv, Shape, ArgvKept, EnvironKept, EnvironOrdered, Last,
     Untouched, InInit, InArgv, InTitle, InBlock, FirstKept, ArgEnd, EnvEnd, Claimed, Accepted
<1>3. CASE MasterInit /\ UNCHANGED workerVars
  <2>1. TitleInv'
    BY <1>1, <1>3, TitleInitKeeps, TitleInitFailsKeeps, VisitArgumentKeeps,
       ArgumentsVisitedKeeps, MoveStringKeeps, KeepStringKeeps, TitleInitDoneKeeps,
       OptionAcceptsKeeps, FailedStartKeeps DEF MasterInit
  <2>2. stage # "running" /\ UNCHANGED todo
    BY <1>3 DEF MasterInit, TitleInit, TitleInitFails, VisitArgument, ArgumentsVisited,
       MoveString, KeepString, TitleInitDone, OptionAccepts, OptionAborts, OptionRefuses,
       workerVars
  <2> QED BY <1>1, <2>1, <2>2 DEF AppInv, NoWorkerYet
<1>4. CASE RunMaster
  <2>1. TitleInv'
    <3>1. CASE SomeTitle /\ stage' = "running"
      BY <1>1, <1>4, <3>1, SetTitleKeeps DEF RunMaster, SomeTitle
    <3>2. CASE SetTitleCrashes
      BY <1>1, <1>4, <3>2, FailedStartKeeps DEF RunMaster
    <3> QED BY <1>4, <3>1, <3>2 DEF RunMaster
  <2>2. stage # "running" /\ UNCHANGED todo
    BY <1>4 DEF RunMaster, workerVars
  <2> QED BY <1>1, <2>1, <2>2 DEF AppInv, NoWorkerYet
<1>5. CASE SpawnChildWorker
  BY <1>1, <1>5, SetTitleKeeps DEF SpawnChildWorker, SomeTitle, AppInv, NoWorkerYet
<1>6. CASE WorkerStep \/ SomethingFails
  BY <1>1, <1>2, <1>6 DEF WorkerStep, SomethingFails, AppInv, NoWorkerYet, vars
<1>7. CASE \E c \in W!Component : HasStopped(c)
  BY <1>1, <1>2, <1>7 DEF HasStopped, W!HasStopped, AppInv, NoWorkerYet, vars
<1>8. CASE Sigterm
  <2>1. stage = "running" /\ UNCHANGED <<stage, given, option>>
    BY <1>1, <1>8, SigtermNeedsWorker DEF Sigterm
  <2>2. TitleInv'
    <3>1. CASE SomeTitle
      BY <1>1, <2>1, <3>1, SetTitleKeeps DEF SomeTitle
    <3>2. CASE UNCHANGED titleVars
      BY <1>2, <2>1, <3>2 DEF vars, titleVars
    <3> QED BY <1>8, <3>1, <3>2 DEF Sigterm
  <2> QED BY <2>1, <2>2 DEF AppInv, NoWorkerYet
<1>9. CASE UNCHANGED appvars
  BY <1>1, <1>2, <1>9 DEF appvars, vars, workerVars, AppInv, NoWorkerYet
<1> QED BY <1>3, <1>4, <1>5, <1>6, <1>7, <1>8, <1>9 DEF AppNext

(* ... and so it always holds. *)
LEMMA AppInvariance == AppSpec => []AppInv
<1>1. AppInit => AppInv
  BY TitleInvAtStart DEF AppInit, AppInv, NoWorkerYet, W!Init
<1> QED BY <1>1, AppInvKept, PTL DEF AppSpec

(* Whatever strings the kernel and setenv() have put where, and however long*)
(* the titles are that write over them: getenv() reads at every address of  *)
(* environ the string that was there at the start, and the command line     *)
(* Option::Init has copied is the one the program was started with.         *)
THEOREM StringsStayReadable == AppSpec => []GivenStringsKept
<1>1. AppInv => GivenStringsKept
  <2> SUFFICES ASSUME TitleInv PROVE GivenStringsKept
    BY DEF AppInv
  <2>1. /\ environ \in Seq(Int) /\ given.environ \in Seq(Seq(Int))
        /\ Len(environ) = Len(given.environ)
    BY DEF TitleInv, Shape
  <2>2. \A n \in 1 .. Len(environ) : CString(memory, environ[n]) = given.environ[n]
    BY EnvironSays
  <2>3. /\ DOMAIN environ = 1 .. Len(environ)
        /\ given.environ = [n \in 1 .. Len(environ) |-> given.environ[n]]
    BY <2>1, LenProperties
  <2>4. Strings(memory, environ) = given.environ
    BY <2>2, <2>3 DEF Strings
  <2> QED BY <2>4 DEF GivenStringsKept, TitleInv, ArgvKept
<1> QED BY <1>1, AppInvariance, PTL

(* Title::Set writes nothing behind g_last, and leaves a Nul at g_last even *)
(* when strncpy() has none to add.                                          *)
THEOREM TitlesStayInTheirMemory == AppSpec => []TitleContained
<1>1. AppInv => TitleContained
  <2> SUFFICES ASSUME TitleInv, g_last # None, stage \notin {"argv", "environ"}
               PROVE  /\ \E a \in argv[1] .. g_last : memory[a] = Nul
                      /\ \A a \in DOMAIN memory : memory[a] = TitleByte => a \in argv[1] .. g_last
                      /\ \E a \in DOMAIN memory : memory[a] = Guard
    BY DEF AppInv, TitleContained
  <2>1. Shape /\ Last /\ Untouched
    BY DEF TitleInv
  <2>2. g_last \in 1 .. given.size /\ memory[g_last] = Nul /\ argv[1] = 1
    BY <2>1 DEF Last, Claimed, Shape
  <2>3. given.size + 1 \in DOMAIN memory
    <3>1. PICK lo \in Int, hi \in Int : lo = -SetLength /\ lo <= 0 /\ hi = p - 1
      BY <2>1, Places
    <3>2. DOMAIN memory = lo .. hi /\ given.size \in Nat /\ p \in Int /\ p > given.size + 1
      BY <2>1, <3>1 DEF Shape
    <3> QED BY <3>1, <3>2
  <2> QED BY <2>1, <2>2, <2>3 DEF Untouched
<1> QED BY <1>1, AppInvariance, PTL

-----------------------------------------------------------------------------
(* What GetFileNameWithoutExt returns, for every path that fits in memory:  *)
(* a path is a directory part, empty or up to a slash, a stem, and an       *)
(* extension, empty or from the last dot on, and the stem is the result.    *)

(* find_last_of() returns the place n of a character that does not occur    *)
(* after n, counted from 0, ...                                             *)
LEMMA LastFound ==
    ASSUME NEW path \in Seq(Char), NEW c, NEW n \in 1 .. Len(path),
           path[n] = c, \A j \in n + 1 .. Len(path) : path[j] # c
    PROVE  FindLastOf(path, c) = n - 1
<1> DEFINE LastPlace(i) == path[i] = c /\ \A j \in i + 1 .. Len(path) : path[j] # c
           last == CHOOSE i \in 1 .. Len(path) : LastPlace(i)
<1>1. LastPlace(n)
  OBVIOUS
<1>2. last \in 1 .. Len(path) /\ LastPlace(last)
  <2> HIDE DEF LastPlace
  <2> QED BY <1>1
<1>3. last = n
  <2>1. /\ last \in 1 .. Len(path) /\ n \in 1 .. Len(path)
        /\ path[last] = c /\ path[n] = c
        /\ \A j \in last + 1 .. Len(path) : path[j] # c
        /\ \A j \in n + 1 .. Len(path) : path[j] # c
    BY <1>2
  <2> HIDE DEF last
  <2>2. ~(last > n) /\ ~(n > last)
    BY <2>1
  <2> QED BY <2>1, <2>2
<1>4. FindLastOf(path, c) = last - 1
  BY DEF FindLastOf
<1> QED BY <1>3, <1>4

(* ... and npos if there is none. *)
LEMMA NotFound ==
    ASSUME NEW path, NEW c, \A j \in 1 .. Len(path) : path[j] # c
    PROVE  FindLastOf(path, c) = NPos
BY DEF FindLastOf

(* The positions.  The directory part has D characters, the stem S and the  *)
(* extension E; k is the place of the last dot of the directory part, 0 if  *)
(* there is none.                                                           *)
LEMMA StemCut ==
    ASSUME NEW path \in Seq(Char), NEW D \in Nat, NEW S \in Nat, NEW E \in Nat,
           NEW k \in 0 .. D,
           Len(path) = D + S + E,
           D + S + E < NPos,
           D > 0 => path[D] = Slash,
           \A i \in D + 1 .. Len(path) : path[i] # Slash,
           k > 0 => path[k] = Dot,
           \A i \in k + 1 .. D : path[i] # Dot,
           E = 0 => \A i \in D + 1 .. Len(path) : path[i] # Dot,
           E > 0 => /\ path[D + S + 1] = Dot
                    /\ \A i \in D + S + 2 .. Len(path) : path[i] # Dot
    PROVE  GetFileNameWithoutExt(path) = SubSeq(path, D + 1, D + S)
<1> USE NPosAssumption
<1>1. (IF FindLastOf(path, Slash) = NPos THEN 0 ELSE FindLastOf(path, Slash) + 1) = D
  <2>1. CASE D = 0
    BY <2>1, NotFound
  <2>2. CASE D > 0
    <3>1. D \in 1 .. Len(path)
      BY <2>2
    <3>2. FindLastOf(path, Slash) = D - 1
      BY <2>2, <3>1, LastFound
    <3> QED BY <3>2
  <2> QED BY <2>1, <2>2
<1>2. \/ E = 0 /\ FindLastOf(path, Dot) = NPos
      \/ E = 0 /\ FindLastOf(path, Dot) \in 0 .. D - 1
      \/ E > 0 /\ FindLastOf(path, Dot) = D + S
  <2>1. CASE E = 0 /\ k = 0
    <3>1. \A i \in 1 .. Len(path) : path[i] # Dot
      BY <2>1
    <3> QED BY <2>1, <3>1, NotFound
  <2>2. CASE E = 0 /\ k > 0
    <3>1. k \in 1 .. Len(path) /\ \A i \in k + 1 .. Len(path) : path[i] # Dot
      BY <2>2
    <3>2. FindLastOf(path, Dot) = k - 1
      BY <2>2, <3>1, LastFound
    <3> QED BY <2>2, <3>2
  <2>3. CASE E > 0
    <3> DEFINE n == D + S + 1
    <3>1. n \in 1 .. Len(path) /\ path[n] = Dot /\ \A i \in n + 1 .. Len(path) : path[i] # Dot
      BY <2>3
    <3> HIDE DEF n
    <3>2. FindLastOf(path, Dot) = n - 1
      BY <3>1, LastFound
    <3> QED BY <2>3, <3>2 DEF n
  <2> QED BY <2>1, <2>2, <2>3
<1>3. GetFileNameWithoutExt(path) = Substr(path, D, Minus(FindLastOf(path, Dot), D))
  BY <1>1 DEF GetFileNameWithoutExt
<1>4. ASSUME NEW dot,
             \/ E = 0 /\ dot = NPos
             \/ E = 0 /\ dot \in 0 .. D - 1
             \/ E > 0 /\ dot = D + S
      PROVE  Substr(path, D, Minus(dot, D)) = SubSeq(path, D + 1, D + S)
  <2>1. CASE E > 0
    <3>1. Minus(dot, D) = S /\ Len(path) - D = S + E
      BY <1>4, <2>1 DEF Minus
    <3> QED BY <2>1, <3>1 DEF Substr
  <2>2. CASE E = 0
    <3>1. Minus(dot, D) \in Nat /\ Minus(dot, D) >= S
      BY <1>4, <2>2 DEF Minus
    <3>2. Len(path) - D = S /\ Len(path) = D + S
      BY <2>2
    <3>3. CASE Minus(dot, D) > S
      BY <3>2, <3>3 DEF Substr
    <3>4. CASE Minus(dot, D) = S
      BY <3>2, <3>4 DEF Substr
    <3> QED BY <3>1, <3>3, <3>4
  <2> QED BY <2>1, <2>2
<1> QED BY <1>2, <1>3, <1>4

(* A path the way a reader takes it apart. *)
Without(s, c) == \A i \in 1 .. Len(s) : s[i] # c
Directory(s) == s = <<>> \/ s[Len(s)] = Slash
Stem(s) == Without(s, Slash)
Extension(s) ==
    /\ Without(s, Slash)
    /\ s = <<>> \/ (s[1] = Dot /\ \A i \in 2 .. Len(s) : s[i] # Dot)

(* GetFileNameWithoutExt returns the stem, whatever dots there are to the   *)
(* left of the last slash, although the code subtracts the two positions in *)
(* either order, and npos as well.                                          *)
THEOREM StemReturned ==
    ASSUME NEW dir \in Seq(Char), NEW stem \in Seq(Char), NEW ext \in Seq(Char),
           Directory(dir), Stem(stem), Extension(ext),
           ext = <<>> => Without(stem, Dot),
           NEW k \in 0 .. Len(dir),        \* the last dot of dir, 0 for none
           k > 0 => dir[k] = Dot,
           \A i \in k + 1 .. Len(dir) : dir[i] # Dot,
           Len(dir) + Len(stem) + Len(ext) < NPos
    PROVE  GetFileNameWithoutExt(dir \o stem \o ext) = stem
<1> DEFINE D == Len(dir)
           S == Len(stem)
           E == Len(ext)
<1>1. PICK path : path = dir \o stem \o ext
  OBVIOUS
<1>2. /\ path \in Seq(Char)
      /\ Len(path) = D + S + E
      /\ D \in Nat /\ S \in Nat /\ E \in Nat
  BY <1>1
<1>3. /\ \A i \in 1 .. D : path[i] = dir[i]
      /\ \A i \in D + 1 .. D + S : path[i] = stem[i - D]
      /\ \A i \in D + S + 1 .. D + S + E : path[i] = ext[i - (D + S)]
  BY <1>1
<1>4. D > 0 => path[D] = Slash
  <2>1. D > 0 => dir # <<>>
    OBVIOUS
  <2> QED BY <1>2, <1>3, <2>1, SMTT(30) DEF Directory
<1>5. \A i \in D + 1 .. Len(path) : path[i] # Slash
  <2> SUFFICES ASSUME NEW i \in D + 1 .. Len(path) PROVE path[i] # Slash
    OBVIOUS
  <2>1. CASE i <= D + S
    <3>1. i - D \in 1 .. S /\ path[i] = stem[i - D]
      BY <1>2, <1>3, <2>1
    <3> QED BY <3>1 DEF Stem, Without
  <2>2. CASE i > D + S
    <3>1. i - (D + S) \in 1 .. E /\ path[i] = ext[i - (D + S)]
      BY <1>2, <1>3, <2>2
    <3> QED BY <3>1 DEF Extension, Without
  <2> QED BY <1>2, <2>1, <2>2
<1>6. (k > 0 => path[k] = Dot) /\ \A i \in k + 1 .. D : path[i] # Dot
  <2>1. k > 0 => k \in 1 .. D /\ path[k] = dir[k]
    BY <1>2, <1>3
  <2>2. ASSUME NEW i \in k + 1 .. D
        PROVE  path[i] = dir[i] /\ dir[i] # Dot
    <3>1. i \in 1 .. D
      BY <1>2
    <3>2. dir[i] # Dot
      OBVIOUS
    <3> QED BY <1>3, <3>1, <3>2
  <2> QED BY <2>1, <2>2
<1>7. E = 0 => \A i \in D + 1 .. Len(path) : path[i] # Dot
  <2> SUFFICES ASSUME E = 0, NEW i \in D + 1 .. Len(path) PROVE path[i] # Dot
    OBVIOUS
  <2>1. ext = <<>>
    OBVIOUS
  <2>2. i - D \in 1 .. S /\ path[i] = stem[i - D]
    BY <1>2, <1>3
  <2> QED BY <2>1, <2>2 DEF Without
<1>8. E > 0 => /\ path[D + S + 1] = Dot
               /\ \A i \in D + S + 2 .. Len(path) : path[i] # Dot
  <2> SUFFICES ASSUME E > 0
               PROVE  /\ path[D + S + 1] = Dot
                      /\ \A i \in D + S + 2 .. Len(path) : path[i] # Dot
    OBVIOUS
  <2>1. ext[1] = Dot /\ \A i \in 2 .. Len(ext) : ext[i] # Dot
    BY DEF Extension
  <2>2. path[D + S + 1] = ext[1]
    <3> HIDE DEF D, S, E
    <3>1. D + S + 1 \in D + S + 1 .. D + S + E
      BY <1>2
    <3>2. (D + S + 1) - (D + S) = 1
      BY <1>2
    <3>3. path[D + S + 1] = ext[(D + S + 1) - (D + S)]
      BY <1>3, <3>1
    <3> QED BY <3>2, <3>3
  <2>3. ASSUME NEW i \in D + S + 2 .. Len(path)
        PROVE  i - (D + S) \in 2 .. Len(ext) /\ path[i] = ext[i - (D + S)]
    BY <1>2, <1>3
  <2> QED BY <2>1, <2>2, <2>3
<1>9. GetFileNameWithoutExt(path) = SubSeq(path, D + 1, D + S)
  <2> HIDE DEF D, S, E
  <2>1. k \in 0 .. D /\ D + S + E < NPos
    BY DEF D, S, E
  <2> QED BY <1>2, <1>4, <1>5, <1>6, <1>7, <1>8, <2>1, StemCut
<1>10. SubSeq(path, D + 1, D + S) = stem
  <2>1. ASSUME NEW i \in 1 .. S
        PROVE  path[D + i] = stem[i]
    <3>1. D + i \in D + 1 .. D + S /\ (D + i) - D = i
      BY <1>2
    <3> QED BY <1>3, <3>1
  <2> QED BY <1>2, <2>1
<1> QED BY <1>1, <1>9, <1>10

=============================================================================
