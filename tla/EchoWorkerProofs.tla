-------------------------- MODULE EchoWorkerProofs --------------------------
(***************************************************************************)
(* The safety properties of EchoWorker.  The program is a list of calls,   *)
(* so first comes where each call stands in that list; from it follows     *)
(* which calls have been made when another one is due, and from that the   *)
(* invariant, call by call.                                                *)
(***************************************************************************)
EXTENDS EchoWorker, SequenceTheorems, TLAPS

Name == {"create", "fork", "signal", "after_fork", "handler", "start", "run",
         "pause", "stop", "await", "uninit", "unload", "exit"}
Call == Name \X (Component \cup {"main"})

-----------------------------------------------------------------------------
(* Lists of a known length. *)

LEMMA List ==
    ASSUME NEW S, NEW n \in Nat, NEW s \in [1 .. n -> S]
    PROVE  s \in Seq(S) /\ Len(s) = n
<1>1. s \in Seq(S)
  BY SeqDef
<1>2. Len(s) \in Nat /\ 1 .. Len(s) = 1 .. n
  BY <1>1, LenProperties
<1>3. ASSUME NEW m \in Nat, 1 .. m = 1 .. n
      PROVE  m = n
  <2>1. m > n => m \in 1 .. m /\ m \notin 1 .. n
    OBVIOUS
  <2>2. n > m => n \in 1 .. n /\ n \notin 1 .. m
    OBVIOUS
  <2> QED BY <1>3, <2>1, <2>2
<1> QED BY <1>1, <1>2, <1>3

LEMMA EachResult ==
    ASSUME NEW call \in Name, NEW s \in Seq(Component)
    PROVE  /\ Each(call, s) \in Seq(Call)
           /\ Len(Each(call, s)) = Len(s)
           /\ \A i \in 1 .. Len(s) : Each(call, s)[i] = <<call, s[i]>>
<1>1. Len(s) \in Nat /\ DOMAIN s = 1 .. Len(s)
  BY LenProperties
<1>2. /\ Each(call, s) \in [1 .. Len(s) -> Call]
      /\ \A i \in 1 .. Len(s) : Each(call, s)[i] = <<call, s[i]>>
  BY <1>1, ElementOfSeq DEF Each, Call
<1> HIDE DEF Call
<1>3. Each(call, s) \in Seq(Call) /\ Len(Each(call, s)) = Len(s)
  BY <1>1, <1>2, List
<1> QED BY <1>2, <1>3

LEMMA Joined ==
    ASSUME NEW s \in Seq(Call), NEW t \in Seq(Call)
    PROVE  /\ s \o t \in Seq(Call)
           /\ Len(s \o t) = Len(s) + Len(t)
           /\ \A i \in 1 .. Len(s) : (s \o t)[i] = s[i]
           /\ \A i \in 1 .. Len(t) : (s \o t)[Len(s) + i] = t[i]
<1> DEFINE u == s \o t
           m == Len(s)
           n == Len(t)
<1>1. /\ u \in Seq(Call)
      /\ Len(u) = m + n
      /\ \A i \in 1 .. m + n : u[i] = IF i <= m THEN s[i] ELSE t[i - m]
  BY ConcatProperties
<1>2. m \in Nat /\ n \in Nat
  BY LenProperties
<1> HIDE DEF u, m, n
<1>3. \A i \in 1 .. m : i \in 1 .. m + n /\ i <= m
  BY <1>2
<1>4. \A i \in 1 .. n : m + i \in 1 .. m + n /\ ~(m + i <= m) /\ (m + i) - m = i
  BY <1>2
<1>5. \A i \in 1 .. n : u[m + i] = t[i]
  BY <1>1, <1>4
<1>6. \A i \in 1 .. m : u[i] = s[i]
  BY <1>1, <1>3
<1> QED BY <1>1, <1>5, <1>6 DEF u, m, n

LEMMA Single ==
    ASSUME NEW call \in Name, NEW c \in Component \cup {"main"}
    PROVE  /\ <<<<call, c>>>> \in Seq(Call)
           /\ Len(<<<<call, c>>>>) = 1
           /\ <<<<call, c>>>>[1] = <<call, c>>
<1>1. <<call, c>> \in Call
  BY DEF Call
<1> HIDE DEF Call
<1>2. <<<<call, c>>>> \in [1 .. 1 -> Call]
  BY <1>1
<1> QED BY <1>2, List

-----------------------------------------------------------------------------
(* The list, part by part. *)

LEMMA ResourceCalls ==
    /\ ResourceInit \in Seq(Call) /\ Len(ResourceInit) = 4
    /\ ResourceInit[1] = <<"create", "loop">>
    /\ ResourceInit[2] = <<"create", "http">>
    /\ ResourceInit[3] = <<"create", "tcp">>
    /\ ResourceInit[4] = <<"create", "udp">>
<1> DEFINE l == <<"loop", "http", "tcp", "udp">>
           e == Each("create", l)
<1>1. /\ l \in Seq(Component) /\ Len(l) = 4
      /\ l[1] = "loop" /\ l[2] = "http" /\ l[3] = "tcp" /\ l[4] = "udp"
  BY DEF Component, Server
<1> HIDE DEF l
<1>2. /\ e \in Seq(Call) /\ Len(e) = Len(l)
      /\ \A i \in 1 .. Len(l) : e[i] = <<"create", l[i]>>
  BY <1>1, EachResult DEF Name
<1> HIDE DEF e
<1>3. /\ e \in Seq(Call) /\ Len(e) = 4
      /\ e[1] = <<"create", "loop">>
      /\ e[2] = <<"create", "http">>
      /\ e[3] = <<"create", "tcp">>
      /\ e[4] = <<"create", "udp">>
  BY <1>1, <1>2
<1> QED BY <1>3 DEF e, l, ResourceInit

LEMMA ForkCalls ==
    /\ AfterFork \in Seq(Call) /\ Len(AfterFork) = 4
    /\ AfterFork[1] = <<"after_fork", "loop">>
    /\ AfterFork[2] = <<"after_fork", "http">>
    /\ AfterFork[3] = <<"after_fork", "tcp">>
    /\ AfterFork[4] = <<"after_fork", "udp">>
<1> DEFINE l == <<"loop", "http", "tcp", "udp">>
           e == Each("after_fork", l)
<1>1. /\ l \in Seq(Component) /\ Len(l) = 4
      /\ l[1] = "loop" /\ l[2] = "http" /\ l[3] = "tcp" /\ l[4] = "udp"
  BY DEF Component, Server
<1> HIDE DEF l
<1>2. /\ e \in Seq(Call) /\ Len(e) = Len(l)
      /\ \A i \in 1 .. Len(l) : e[i] = <<"after_fork", l[i]>>
  BY <1>1, EachResult DEF Name
<1> HIDE DEF e
<1>3. /\ e \in Seq(Call) /\ Len(e) = 4
      /\ e[1] = <<"after_fork", "loop">>
      /\ e[2] = <<"after_fork", "http">>
      /\ e[3] = <<"after_fork", "tcp">>
      /\ e[4] = <<"after_fork", "udp">>
  BY <1>1, <1>2
<1> QED BY <1>3 DEF e, l, AfterFork

LEMMA HandlerCalls ==
    LET e == Each("handler", <<"http", "udp", "tcp">>)
    IN /\ e \in Seq(Call) /\ Len(e) = 3
       /\ e[1] = <<"handler", "http">>
       /\ e[2] = <<"handler", "udp">>
       /\ e[3] = <<"handler", "tcp">>
<1> DEFINE l == <<"http", "udp", "tcp">>
           e == Each("handler", l)
<1>1. /\ l \in Seq(Component) /\ Len(l) = 3
      /\ l[1] = "http" /\ l[2] = "udp" /\ l[3] = "tcp"
  BY DEF Component, Server
<1> HIDE DEF l
<1>2. /\ e \in Seq(Call) /\ Len(e) = Len(l)
      /\ \A i \in 1 .. Len(l) : e[i] = <<"handler", l[i]>>
  BY <1>1, EachResult DEF Name
<1> HIDE DEF e
<1>3. /\ e \in Seq(Call) /\ Len(e) = 3
      /\ e[1] = <<"handler", "http">>
      /\ e[2] = <<"handler", "udp">>
      /\ e[3] = <<"handler", "tcp">>
  BY <1>1, <1>2
<1> QED BY <1>3 DEF e, l

LEMMA RunCalls ==
    /\ RunServers \in Seq(Call) /\ Len(RunServers) = 4
    /\ RunServers[1] = <<"start", "tcp">>
    /\ RunServers[2] = <<"start", "http">>
    /\ RunServers[3] = <<"start", "udp">>
    /\ RunServers[4] = <<"start", "loop">>
<1> DEFINE l == <<"tcp", "http", "udp", "loop">>
           e == Each("start", l)
<1>1. /\ l \in Seq(Component) /\ Len(l) = 4
      /\ l[1] = "tcp" /\ l[2] = "http" /\ l[3] = "udp" /\ l[4] = "loop"
  BY DEF Component, Server
<1> HIDE DEF l
<1>2. /\ e \in Seq(Call) /\ Len(e) = Len(l)
      /\ \A i \in 1 .. Len(l) : e[i] = <<"start", l[i]>>
  BY <1>1, EachResult DEF Name
<1> HIDE DEF e
<1>3. /\ e \in Seq(Call) /\ Len(e) = 4
      /\ e[1] = <<"start", "tcp">>
      /\ e[2] = <<"start", "http">>
      /\ e[3] = <<"start", "udp">>
      /\ e[4] = <<"start", "loop">>
  BY <1>1, <1>2
<1> QED BY <1>3 DEF e, l, RunServers

LEMMA PauseCalls ==
    LET e == Each("pause", <<"udp", "http">>)
    IN /\ e \in Seq(Call) /\ Len(e) = 2
       /\ e[1] = <<"pause", "udp">>
       /\ e[2] = <<"pause", "http">>
<1> DEFINE l == <<"udp", "http">>
           e == Each("pause", l)
<1>1. /\ l \in Seq(Component) /\ Len(l) = 2
      /\ l[1] = "udp" /\ l[2] = "http"
  BY DEF Component, Server
<1> HIDE DEF l
<1>2. /\ e \in Seq(Call) /\ Len(e) = Len(l)
      /\ \A i \in 1 .. Len(l) : e[i] = <<"pause", l[i]>>
  BY <1>1, EachResult DEF Name
<1> HIDE DEF e
<1>3. /\ e \in Seq(Call) /\ Len(e) = 2
      /\ e[1] = <<"pause", "udp">>
      /\ e[2] = <<"pause", "http">>
  BY <1>1, <1>2
<1> QED BY <1>3 DEF e, l

LEMMA AskCalls ==
    LET e == Each("stop", <<"udp", "http", "loop", "tcp">>)
    IN /\ e \in Seq(Call) /\ Len(e) = 4
       /\ e[1] = <<"stop", "udp">>
       /\ e[2] = <<"stop", "http">>
       /\ e[3] = <<"stop", "loop">>
       /\ e[4] = <<"stop", "tcp">>
<1> DEFINE l == <<"udp", "http", "loop", "tcp">>
           e == Each("stop", l)
<1>1. /\ l \in Seq(Component) /\ Len(l) = 4
      /\ l[1] = "udp" /\ l[2] = "http" /\ l[3] = "loop" /\ l[4] = "tcp"
  BY DEF Component, Server
<1> HIDE DEF l
<1>2. /\ e \in Seq(Call) /\ Len(e) = Len(l)
      /\ \A i \in 1 .. Len(l) : e[i] = <<"stop", l[i]>>
  BY <1>1, EachResult DEF Name
<1> HIDE DEF e
<1>3. /\ e \in Seq(Call) /\ Len(e) = 4
      /\ e[1] = <<"stop", "udp">>
      /\ e[2] = <<"stop", "http">>
      /\ e[3] = <<"stop", "loop">>
      /\ e[4] = <<"stop", "tcp">>
  BY <1>1, <1>2
<1> QED BY <1>3 DEF e, l

LEMMA AwaitCalls ==
    LET e == Each("await", <<"loop", "tcp", "udp", "http">>)
    IN /\ e \in Seq(Call) /\ Len(e) = 4
       /\ e[1] = <<"await", "loop">>
       /\ e[2] = <<"await", "tcp">>
       /\ e[3] = <<"await", "udp">>
       /\ e[4] = <<"await", "http">>
<1> DEFINE l == <<"loop", "tcp", "udp", "http">>
           e == Each("await", l)
<1>1. /\ l \in Seq(Component) /\ Len(l) = 4
      /\ l[1] = "loop" /\ l[2] = "tcp" /\ l[3] = "udp" /\ l[4] = "http"
  BY DEF Component, Server
<1> HIDE DEF l
<1>2. /\ e \in Seq(Call) /\ Len(e) = Len(l)
      /\ \A i \in 1 .. Len(l) : e[i] = <<"await", l[i]>>
  BY <1>1, EachResult DEF Name
<1> HIDE DEF e
<1>3. /\ e \in Seq(Call) /\ Len(e) = 4
      /\ e[1] = <<"await", "loop">>
      /\ e[2] = <<"await", "tcp">>
      /\ e[3] = <<"await", "udp">>
      /\ e[4] = <<"await", "http">>
  BY <1>1, <1>2
<1> QED BY <1>3 DEF e, l

(* InitInWorker with AfterFork and RunServers. *)
LEMMA StartCalls ==
    /\ InitInWorker \in Seq(Call)
    /\ Len(InitInWorker) = 12
    /\ InitInWorker[1] = <<"signal", "main">>
    /\ InitInWorker[2] = <<"after_fork", "loop">>
    /\ InitInWorker[3] = <<"after_fork", "http">>
    /\ InitInWorker[4] = <<"after_fork", "tcp">>
    /\ InitInWorker[5] = <<"after_fork", "udp">>
    /\ InitInWorker[6] = <<"handler", "http">>
    /\ InitInWorker[7] = <<"handler", "udp">>
    /\ InitInWorker[8] = <<"handler", "tcp">>
    /\ InitInWorker[9] = <<"start", "tcp">>
    /\ InitInWorker[10] = <<"start", "http">>
    /\ InitInWorker[11] = <<"start", "udp">>
    /\ InitInWorker[12] = <<"start", "loop">>
<1> DEFINE signal == <<<<"signal", "main">>>>
           handlers == Each("handler", <<"http", "udp", "tcp">>)
           u == signal \o AfterFork
           v == u \o handlers
           w == v \o RunServers
<1>1. /\ signal \in Seq(Call) /\ Len(signal) = 1
      /\ signal[1] = <<"signal", "main">>
  BY Single DEF Name
<1>2. /\ handlers \in Seq(Call) /\ Len(handlers) = 3
      /\ handlers[1] = <<"handler", "http">>
      /\ handlers[2] = <<"handler", "udp">>
      /\ handlers[3] = <<"handler", "tcp">>
  BY HandlerCalls
<1> HIDE DEF signal, handlers
<1>3. /\ u \in Seq(Call) /\ Len(u) = Len(signal) + Len(AfterFork)
      /\ \A i \in 1 .. Len(signal) : u[i] = signal[i]
      /\ \A i \in 1 .. Len(AfterFork) : u[Len(signal) + i] = AfterFork[i]
  BY <1>1, ForkCalls, Joined
<1> HIDE DEF u
<1>4. /\ u \in Seq(Call) /\ Len(u) = 5
      /\ \A i \in 1 .. 1 : u[i] = signal[i]
      /\ \A i \in 1 .. 4 : u[1 + i] = AfterFork[i]
  BY <1>3, <1>1, ForkCalls
<1>5. /\ v \in Seq(Call) /\ Len(v) = Len(u) + Len(handlers)
      /\ \A i \in 1 .. Len(u) : v[i] = u[i]
      /\ \A i \in 1 .. Len(handlers) : v[Len(u) + i] = handlers[i]
  BY <1>4, <1>2, Joined
<1> HIDE DEF v
<1>6. /\ v \in Seq(Call) /\ Len(v) = 8
      /\ \A i \in 1 .. 5 : v[i] = u[i]
      /\ \A i \in 1 .. 3 : v[5 + i] = handlers[i]
  BY <1>5, <1>4, <1>2
<1>7. /\ w \in Seq(Call) /\ Len(w) = Len(v) + Len(RunServers)
      /\ \A i \in 1 .. Len(v) : w[i] = v[i]
      /\ \A i \in 1 .. Len(RunServers) : w[Len(v) + i] = RunServers[i]
  BY <1>6, RunCalls, Joined, ZenonT(30)
<1> HIDE DEF w
<1>8. /\ w \in Seq(Call) /\ Len(w) = 12
      /\ \A i \in 1 .. 8 : w[i] = v[i]
      /\ \A i \in 1 .. 4 : w[8 + i] = RunServers[i]
  BY <1>7, <1>6, RunCalls
<1>9. InitInWorker = w
  BY DEF InitInWorker, u, v, w, signal, handlers
<1> QED BY <1>1, <1>2, <1>4, <1>6, <1>8, <1>9, ForkCalls, RunCalls

(* The end of Run. *)
LEMMA StopCalls ==
    /\ StopServers \in Seq(Call)
    /\ Len(StopServers) = 11
    /\ StopServers[1] = <<"pause", "udp">>
    /\ StopServers[2] = <<"pause", "http">>
    /\ StopServers[3] = <<"stop", "loop">>
    /\ StopServers[4] = <<"stop", "udp">>
    /\ StopServers[5] = <<"stop", "http">>
    /\ StopServers[6] = <<"stop", "loop">>
    /\ StopServers[7] = <<"stop", "tcp">>
    /\ StopServers[8] = <<"await", "loop">>
    /\ StopServers[9] = <<"await", "tcp">>
    /\ StopServers[10] = <<"await", "udp">>
    /\ StopServers[11] = <<"await", "http">>
<1> DEFINE pauses == Each("pause", <<"udp", "http">>)
           first == <<<<"stop", "loop">>>>
           stops == Each("stop", <<"udp", "http", "loop", "tcp">>)
           awaits == Each("await", <<"loop", "tcp", "udp", "http">>)
           u == pauses \o first
           v == u \o stops
           w == v \o awaits
<1>1. /\ pauses \in Seq(Call) /\ Len(pauses) = 2
      /\ pauses[1] = <<"pause", "udp">>
      /\ pauses[2] = <<"pause", "http">>
  BY PauseCalls
<1>2. first \in Seq(Call) /\ Len(first) = 1 /\ first[1] = <<"stop", "loop">>
  BY Single DEF Name, Component
<1>3. /\ stops \in Seq(Call) /\ Len(stops) = 4
      /\ stops[1] = <<"stop", "udp">>
      /\ stops[2] = <<"stop", "http">>
      /\ stops[3] = <<"stop", "loop">>
      /\ stops[4] = <<"stop", "tcp">>
  BY AskCalls
<1>4. /\ awaits \in Seq(Call) /\ Len(awaits) = 4
      /\ awaits[1] = <<"await", "loop">>
      /\ awaits[2] = <<"await", "tcp">>
      /\ awaits[3] = <<"await", "udp">>
      /\ awaits[4] = <<"await", "http">>
  BY AwaitCalls
<1> HIDE DEF pauses, first, stops, awaits
<1>5. /\ u \in Seq(Call) /\ Len(u) = Len(pauses) + Len(first)
      /\ \A i \in 1 .. Len(pauses) : u[i] = pauses[i]
      /\ \A i \in 1 .. Len(first) : u[Len(pauses) + i] = first[i]
  BY <1>1, <1>2, Joined
<1> HIDE DEF u
<1>6. /\ u \in Seq(Call) /\ Len(u) = 3
      /\ \A i \in 1 .. 2 : u[i] = pauses[i]
      /\ \A i \in 1 .. 1 : u[2 + i] = first[i]
  BY <1>5, <1>1, <1>2
<1>7. /\ v \in Seq(Call) /\ Len(v) = Len(u) + Len(stops)
      /\ \A i \in 1 .. Len(u) : v[i] = u[i]
      /\ \A i \in 1 .. Len(stops) : v[Len(u) + i] = stops[i]
  BY <1>6, <1>3, Joined
<1> HIDE DEF v
<1>8. /\ v \in Seq(Call) /\ Len(v) = 7
      /\ \A i \in 1 .. 3 : v[i] = u[i]
      /\ \A i \in 1 .. 4 : v[3 + i] = stops[i]
  BY <1>7, <1>6, <1>3
<1>9. /\ w \in Seq(Call) /\ Len(w) = Len(v) + Len(awaits)
      /\ \A i \in 1 .. Len(v) : w[i] = v[i]
      /\ \A i \in 1 .. Len(awaits) : w[Len(v) + i] = awaits[i]
  BY <1>8, <1>4, Joined
<1> HIDE DEF w
<1>10. /\ w \in Seq(Call) /\ Len(w) = 11
       /\ \A i \in 1 .. 7 : w[i] = v[i]
       /\ \A i \in 1 .. 4 : w[7 + i] = awaits[i]
  BY <1>9, <1>8, <1>4
<1>11. StopServers = w
  BY DEF StopServers, u, v, w, pauses, first, stops, awaits
<1> QED BY <1>1, <1>2, <1>3, <1>4, <1>6, <1>8, <1>10, <1>11

(* All calls, by their place. *)
LEMMA CallPlaces ==
    /\ Calls \in Seq(Call)
    /\ Len(Calls) = 32
    /\ Calls[1] = <<"create", "loop">>
    /\ Calls[2] = <<"create", "http">>
    /\ Calls[3] = <<"create", "tcp">>
    /\ Calls[4] = <<"create", "udp">>
    /\ Calls[5] = <<"fork", "main">>
    /\ Calls[6] = <<"signal", "main">>
    /\ Calls[7] = <<"after_fork", "loop">>
    /\ Calls[8] = <<"after_fork", "http">>
    /\ Calls[9] = <<"after_fork", "tcp">>
    /\ Calls[10] = <<"after_fork", "udp">>
    /\ Calls[11] = <<"handler", "http">>
    /\ Calls[12] = <<"handler", "udp">>
    /\ Calls[13] = <<"handler", "tcp">>
    /\ Calls[14] = <<"start", "tcp">>
    /\ Calls[15] = <<"start", "http">>
    /\ Calls[16] = <<"start", "udp">>
    /\ Calls[17] = <<"start", "loop">>
    /\ Calls[18] = <<"run", "main">>
    /\ Calls[19] = <<"pause", "udp">>
    /\ Calls[20] = <<"pause", "http">>
    /\ Calls[21] = <<"stop", "loop">>
    /\ Calls[22] = <<"stop", "udp">>
    /\ Calls[23] = <<"stop", "http">>
    /\ Calls[24] = <<"stop", "loop">>
    /\ Calls[25] = <<"stop", "tcp">>
    /\ Calls[26] = <<"await", "loop">>
    /\ Calls[27] = <<"await", "tcp">>
    /\ Calls[28] = <<"await", "udp">>
    /\ Calls[29] = <<"await", "http">>
    /\ Calls[30] = <<"uninit", "main">>
    /\ Calls[31] = <<"unload", "main">>
    /\ Calls[32] = <<"exit", "main">>
<1> DEFINE fork == <<<<"fork", "main">>>>
           run == <<<<"run", "main">>>>
           ending ==
             <<<<"uninit", "main">>, <<"unload", "main">>, <<"exit", "main">>>>
           u == ResourceInit \o fork
           v == u \o InitInWorker
           w == v \o run
           s == w \o StopServers
           t == s \o ending
<1>1. fork \in Seq(Call) /\ Len(fork) = 1 /\ fork[1] = <<"fork", "main">>
  BY Single DEF Name
<1>2. run \in Seq(Call) /\ Len(run) = 1 /\ run[1] = <<"run", "main">>
  BY Single DEF Name
<1>3. /\ ending \in Seq(Call) /\ Len(ending) = 3
      /\ ending[1] = <<"uninit", "main">>
      /\ ending[2] = <<"unload", "main">>
      /\ ending[3] = <<"exit", "main">>
  <2>1. ending \in [1 .. 3 -> Call]
    BY DEF Call, Name
  <2>2. /\ ending[1] = <<"uninit", "main">>
        /\ ending[2] = <<"unload", "main">>
        /\ ending[3] = <<"exit", "main">>
    OBVIOUS
  <2> HIDE DEF ending, Call
  <2> QED BY <2>1, <2>2, List, ZenonT(30)
<1> HIDE DEF fork, run, ending
<1>4. /\ u \in Seq(Call) /\ Len(u) = Len(ResourceInit) + Len(fork)
      /\ \A i \in 1 .. Len(ResourceInit) : u[i] = ResourceInit[i]
      /\ \A i \in 1 .. Len(fork) : u[Len(ResourceInit) + i] = fork[i]
  BY <1>1, ResourceCalls, Joined
<1> HIDE DEF u
<1>5. /\ u \in Seq(Call) /\ Len(u) = 5
      /\ \A i \in 1 .. 4 : u[i] = ResourceInit[i]
      /\ \A i \in 1 .. 1 : u[4 + i] = fork[i]
  BY <1>4, <1>1, ResourceCalls
<1>6. /\ v \in Seq(Call) /\ Len(v) = Len(u) + Len(InitInWorker)
      /\ \A i \in 1 .. Len(u) : v[i] = u[i]
      /\ \A i \in 1 .. Len(InitInWorker) : v[Len(u) + i] = InitInWorker[i]
  BY <1>5, StartCalls, Joined
<1> HIDE DEF v
<1>7. /\ v \in Seq(Call) /\ Len(v) = 17
      /\ \A i \in 1 .. 5 : v[i] = u[i]
      /\ \A i \in 1 .. 12 : v[5 + i] = InitInWorker[i]
  BY <1>6, <1>5, StartCalls
<1>8. /\ w \in Seq(Call) /\ Len(w) = Len(v) + Len(run)
      /\ \A i \in 1 .. Len(v) : w[i] = v[i]
      /\ \A i \in 1 .. Len(run) : w[Len(v) + i] = run[i]
  BY <1>7, <1>2, Joined
<1> HIDE DEF w
<1>9. /\ w \in Seq(Call) /\ Len(w) = 18
      /\ \A i \in 1 .. 17 : w[i] = v[i]
      /\ \A i \in 1 .. 1 : w[17 + i] = run[i]
  BY <1>8, <1>7, <1>2
<1>10. /\ s \in Seq(Call) /\ Len(s) = Len(w) + Len(StopServers)
       /\ \A i \in 1 .. Len(w) : s[i] = w[i]
       /\ \A i \in 1 .. Len(StopServers) : s[Len(w) + i] = StopServers[i]
  BY <1>9, StopCalls, Joined, ZenonT(30)
<1> HIDE DEF s
<1>11. /\ s \in Seq(Call) /\ Len(s) = 29
       /\ \A i \in 1 .. 18 : s[i] = w[i]
       /\ \A i \in 1 .. 11 : s[18 + i] = StopServers[i]
  BY <1>10, <1>9, StopCalls
<1>12. /\ t \in Seq(Call) /\ Len(t) = Len(s) + Len(ending)
       /\ \A i \in 1 .. Len(s) : t[i] = s[i]
       /\ \A i \in 1 .. Len(ending) : t[Len(s) + i] = ending[i]
  BY <1>11, <1>3, Joined, ZenonT(30)
<1> HIDE DEF t
<1>13. /\ t \in Seq(Call) /\ Len(t) = 32
       /\ \A i \in 1 .. 29 : t[i] = s[i]
       /\ \A i \in 1 .. 3 : t[29 + i] = ending[i]
  BY <1>12, <1>11, <1>3
<1>14. Calls = t
  BY DEF Calls, u, v, w, s, t, fork, run, ending
<1>15. /\ \A i \in 1 .. 29 : Calls[i] = s[i]
       /\ \A i \in 1 .. 3 : Calls[29 + i] = ending[i]
  BY <1>13, <1>14
<1>16. /\ \A i \in 1 .. 18 : Calls[i] = w[i]
       /\ \A i \in 1 .. 17 : Calls[i] = v[i]
       /\ \A i \in 1 .. 5 : Calls[i] = u[i]
  <2>1. ASSUME NEW i \in 1 .. 18
        PROVE  Calls[i] = w[i]
    <3>1. i \in 1 .. 29 /\ i \in 1 .. Len(w)
      BY <1>9
    <3> QED BY <3>1, <1>10, <1>15
  <2>2. ASSUME NEW i \in 1 .. 17
        PROVE  Calls[i] = v[i]
    BY <2>1, <1>9, SMTT(30)
  <2>3. ASSUME NEW i \in 1 .. 5
        PROVE  Calls[i] = u[i]
    BY <2>2, <1>7
  <2> QED BY <2>1, <2>2, <2>3
<1>17. ASSUME NEW i \in 1 .. 11
       PROVE  Calls[18 + i] = StopServers[i]
  <2>1. 18 + i \in 1 .. 29
    OBVIOUS
  <2>2. Calls[18 + i] = s[18 + i]
    BY <2>1, <1>15
  <2>3. s[18 + i] = StopServers[i]
    <3>1. i \in 1 .. Len(StopServers) /\ Len(w) = 18
      BY <1>9, StopCalls
    <3>2. s[Len(w) + i] = StopServers[i]
      BY <3>1, <1>10
    <3> QED BY <3>1, <3>2
  <2> QED BY <2>2, <2>3
<1>18. ASSUME NEW i \in 1 .. 12
       PROVE  Calls[5 + i] = InitInWorker[i]
  <2>1. 5 + i \in 1 .. 17
    OBVIOUS
  <2> QED BY <2>1, <1>7, <1>16
<1>19. /\ Calls[1] = ResourceInit[1] /\ Calls[2] = ResourceInit[2]
       /\ Calls[3] = ResourceInit[3] /\ Calls[4] = ResourceInit[4]
       /\ Calls[5] = fork[1]
       /\ Calls[18] = run[1]
  <2>1. Calls[5] = u[4 + 1] /\ Calls[18] = w[17 + 1]
    BY <1>16
  <2> QED BY <2>1, <1>5, <1>9, <1>16
<1>20. /\ Calls \in Seq(Call) /\ Len(Calls) = 32
  BY <1>13, <1>14
<1>21. /\ Calls[6] = InitInWorker[1]
       /\ Calls[7] = InitInWorker[2]
       /\ Calls[8] = InitInWorker[3]
       /\ Calls[9] = InitInWorker[4]
       /\ Calls[10] = InitInWorker[5]
       /\ Calls[11] = InitInWorker[6]
       /\ Calls[12] = InitInWorker[7]
       /\ Calls[13] = InitInWorker[8]
       /\ Calls[14] = InitInWorker[9]
       /\ Calls[15] = InitInWorker[10]
       /\ Calls[16] = InitInWorker[11]
       /\ Calls[17] = InitInWorker[12]
  BY <1>18
<1>22. /\ Calls[19] = StopServers[1]
       /\ Calls[20] = StopServers[2]
       /\ Calls[21] = StopServers[3]
       /\ Calls[22] = StopServers[4]
       /\ Calls[23] = StopServers[5]
       /\ Calls[24] = StopServers[6]
       /\ Calls[25] = StopServers[7]
       /\ Calls[26] = StopServers[8]
       /\ Calls[27] = StopServers[9]
       /\ Calls[28] = StopServers[10]
       /\ Calls[29] = StopServers[11]
  BY <1>17
<1>23. /\ Calls[30] = ending[1]
       /\ Calls[31] = ending[2]
       /\ Calls[32] = ending[3]
  BY <1>15
<1> QED BY <1>1, <1>2, <1>3, <1>19, <1>20, <1>21, <1>22, <1>23,
           ResourceCalls, StartCalls, StopCalls

(* Calls of one name stand together, but for the two that stop the loop. *)
LEMMA LastPlaces ==
    ASSUME NEW k \in 1 .. 32, NEW c, NEW call, Calls[k] = <<call, c>>
    PROVE  /\ call = "create" => k <= 4
           /\ call = "after_fork" => k <= 10
           /\ call = "handler" => k <= 13
           /\ call = "start" => k >= 14 /\ k <= 17
           /\ call = "run" => k <= 18
           /\ call = "pause" => k <= 20
           /\ call = "stop" => k <= 25
           /\ call = "await" => k <= 29
           /\ call = "signal" => k <= 6
           /\ call = "exit" => k = 32
BY CallPlaces, SMTT(120)

(* Where a component is called for the first time in a later phase. *)
LEMMA FirstPlaces ==
    /\ \A c \in Server : \E q \in 11 .. 13 : Calls[q] = <<"handler", c>>
    /\ \A c \in {"http", "udp"} : \E q \in 19 .. 20 : Calls[q] = <<"pause", c>>
    /\ \A c \in Component : \E q \in 26 .. 29 : Calls[q] = <<"await", c>>
<1>1. /\ Calls[11] = <<"handler", "http">>
      /\ Calls[12] = <<"handler", "udp">>
      /\ Calls[13] = <<"handler", "tcp">>
  BY CallPlaces
<1>2. Calls[19] = <<"pause", "udp">> /\ Calls[20] = <<"pause", "http">>
  BY CallPlaces
<1>3. /\ Calls[26] = <<"await", "loop">>
      /\ Calls[27] = <<"await", "tcp">>
      /\ Calls[28] = <<"await", "udp">>
      /\ Calls[29] = <<"await", "http">>
  BY CallPlaces
<1>4. \A c \in Server : \E q \in 11 .. 13 : Calls[q] = <<"handler", c>>
  BY <1>1 DEF Server
<1>5. \A c \in {"http", "udp"} : \E q \in 19 .. 20 : Calls[q] = <<"pause", c>>
  BY <1>2
<1>6. \A c \in Component : \E q \in 26 .. 29 : Calls[q] = <<"await", c>>
  BY <1>3 DEF Component, Server
<1> QED BY <1>4, <1>5, <1>6

-----------------------------------------------------------------------------
(* A list that is left of all calls when n have been made. *)
Left(t, n) ==
    /\ n \in 0 .. 32
    /\ t \in Seq(Call)
    /\ Len(t) = 32 - n
    /\ \A i \in 1 .. 32 - n : t[i] = Calls[n + i]

LEMMA LeftIsSubSeq ==
    ASSUME NEW t, NEW n \in 0 .. 32
    PROVE  t = SubSeq(Calls, n + 1, 32) <=> Left(t, n)
<1> DEFINE m == n + 1
           s == SubSeq(Calls, m, 32)
<1>1. Calls \in Seq(Call) /\ Len(Calls) = 32
  BY CallPlaces
<1>2. m \in Int /\ 32 \in Int /\ \A i \in m .. 32 : Calls[i] \in Call
  <2>1. \A i \in m .. 32 : i \in 1 .. Len(Calls)
    BY <1>1
  <2>2. \A i \in m .. 32 : Calls[i] \in Call
    BY <1>1, <2>1, ElementOfSeq
  <2> QED BY <2>2
<1>3. /\ s \in Seq(Call)
      /\ Len(s) = IF m <= 32 THEN 32 - m + 1 ELSE 0
      /\ \A i \in 1 .. 32 - m + 1 : s[i] = Calls[m + i - 1]
  BY <1>2, SubSeqProperties
<1> HIDE DEF s
<1>4. Len(s) = 32 - n
  BY <1>3
<1>5. ASSUME NEW i \in 1 .. 32 - n
      PROVE  s[i] = Calls[n + i]
  <2>1. i \in 1 .. 32 - m + 1 /\ m + i - 1 = n + i
    OBVIOUS
  <2> QED BY <2>1, <1>3
<1>6. ASSUME t = s
      PROVE  Left(t, n)
  BY <1>3, <1>4, <1>5, <1>6 DEF Left
<1>7. ASSUME Left(t, n)
      PROVE  t = s
  <2>1. /\ t \in Seq(Call) /\ Len(t) = Len(s)
        /\ \A i \in 1 .. Len(t) : t[i] = s[i]
    BY <1>4, <1>5, <1>7 DEF Left
  <2> QED BY <1>3, <2>1, SeqEqual
<1> QED BY <1>6, <1>7 DEF s

LEMMA SomeLeft == Remaining <=> \E n \in 0 .. 32 : Left(todo, n)
<1>1. Len(Calls) = 32
  BY CallPlaces
<1> QED BY <1>1, LeftIsSubSeq DEF Remaining

(* `Made' and the list of `Due', of any list. *)
MadeIn(t, a, c) == \A i \in DOMAIN t : t[i] # <<a, c>>
FirstIn(t, a, c) == t # <<>> /\ Head(t) = <<a, c>>
NoneAfter(n, a, c) == \A k \in n + 1 .. 32 : Calls[k] # <<a, c>>

LEMMA OfTodo ==
    ASSUME NEW a, NEW c
    PROVE  /\ Made(a, c) <=> MadeIn(todo, a, c)
           /\ Made(a, c)' <=> MadeIn(todo', a, c)
           /\ Due(a, c) => FirstIn(todo, a, c)
BY DEF Made, Due, MadeIn, FirstIn

LEMMA LeftCalls ==
    ASSUME NEW t, NEW n \in 0 .. 32, Left(t, n), NEW a, NEW c
    PROVE  /\ FirstIn(t, a, c) => n < 32 /\ Calls[n + 1] = <<a, c>>
           /\ MadeIn(t, a, c) <=> NoneAfter(n, a, c)
<1> DEFINE x == <<a, c>>
<1>1. DOMAIN t = 1 .. 32 - n
  BY LenProperties DEF Left
<1>2. t # <<>> /\ Head(t) = x => n < 32 /\ Calls[n + 1] = x
  <2> SUFFICES ASSUME t # <<>>, Head(t) = x
               PROVE  n < 32 /\ Calls[n + 1] = x
    OBVIOUS
  <2>1. Len(t) # 0 /\ Head(t) = t[1]
    BY EmptySeq DEF Left
  <2>2. n < 32 /\ 1 \in 1 .. 32 - n
    BY <2>1 DEF Left
  <2> QED BY <2>1, <2>2 DEF Left
<1>3. ASSUME NEW k \in n + 1 .. 32
      PROVE  k - n \in 1 .. 32 - n /\ t[k - n] = Calls[k]
  <2>1. k - n \in 1 .. 32 - n /\ n + (k - n) = k
    OBVIOUS
  <2> QED BY <2>1 DEF Left
<1>4. ASSUME NEW i \in 1 .. 32 - n
      PROVE  n + i \in n + 1 .. 32 /\ t[i] = Calls[n + i]
  <2>1. n + i \in n + 1 .. 32
    OBVIOUS
  <2>2. t[i] = Calls[n + i]
    BY DEF Left
  <2> QED BY <2>1, <2>2
<1> HIDE DEF x
<1>5. ASSUME \A i \in 1 .. 32 - n : t[i] # x
      PROVE  \A k \in n + 1 .. 32 : Calls[k] # x
  BY <1>3, <1>5
<1>6. ASSUME \A k \in n + 1 .. 32 : Calls[k] # x
      PROVE  \A i \in 1 .. 32 - n : t[i] # x
  BY <1>4, <1>6
<1> QED BY <1>1, <1>2, <1>5, <1>6
    DEF x, MadeIn, FirstIn, NoneAfter

(* A call that stands before another one is not made after it. *)
CallAt(q, b, d) == Calls[q] = <<b, d>>
LastBy(q, a, c) == \A k \in 1 .. 32 : Calls[k] = <<a, c>> => k <= q

LEMMA Before ==
    ASSUME Remaining, NEW a, NEW c, NEW b, NEW d, NEW q \in 1 .. 32,
           CallAt(q, b, d), LastBy(q, a, c), ~Made(a, c)
    PROVE  ~Made(b, d)
<1> PICK n \in 0 .. 32 : Left(todo, n)
  BY SomeLeft
<1>1. PICK k \in n + 1 .. 32 : Calls[k] = <<a, c>>
  <2>1. ~NoneAfter(n, a, c)
    BY LeftCalls, OfTodo
  <2> QED BY <2>1 DEF NoneAfter
<1>2. k \in 1 .. 32 /\ k <= q
  BY <1>1 DEF LastBy
<1>3. q \in n + 1 .. 32
  BY <1>2
<1>4. ~NoneAfter(n, b, d)
  BY <1>3 DEF NoneAfter, CallAt
<1> QED BY <1>4, LeftCalls, OfTodo

LEMMA Order ==
    ASSUME Remaining, NEW c \in Component
    PROVE  /\ Due("start", c) => Made("handler", c)
           /\ c \in {"http", "udp"} /\ ~Made("start", c) => ~Made("pause", c)
           /\ \A a \in {"create", "after_fork", "start", "pause", "stop"} :
                 ~Made(a, c) => ~Made("await", c)
           /\ ~Made("pause", c) => ~Made("pause", "http")
           /\ ~Made("await", c) => ~Made("await", "http")
           /\ ~Made("run", "main") => ~Made("unload", "main")
           /\ ~Made("run", "main") => ~Made("await", "http")
           /\ ~Made("await", "http") => ~Due("exit", "main")
           /\ \A a \in {"create", "after_fork", "handler", "start"} :
                 Due(a, c) => ~Made("start", "loop")
           /\ ~Made("signal", "main") => ~Made("start", "loop")
<1>1. ASSUME Due("start", c), ~Made("handler", c)
      PROVE  FALSE
  <2> PICK n \in 0 .. 32 : Left(todo, n)
    BY SomeLeft
  <2>1. n < 32 /\ Calls[n + 1] = <<"start", c>>
    <3>1. FirstIn(todo, "start", c)
      BY <1>1, OfTodo
    <3> QED BY <3>1, LeftCalls
  <2>2. n + 1 >= 14
    BY <2>1, LastPlaces
  <2>3. PICK k \in n + 1 .. 32 : Calls[k] = <<"handler", c>>
    <3>1. ~NoneAfter(n, "handler", c)
      BY <1>1, LeftCalls, OfTodo
    <3> QED BY <3>1 DEF NoneAfter
  <2>4. k \in 1 .. 32 /\ k >= 14
    BY <2>2
  <2> QED BY <2>3, <2>4, LastPlaces
<1>2. ASSUME c \in {"http", "udp"}, ~Made("start", c)
      PROVE  ~Made("pause", c)
  <2> PICK q \in 19 .. 20 : Calls[q] = <<"pause", c>>
    BY <1>2, FirstPlaces
  <2>1. q \in 1 .. 32 /\ CallAt(q, "pause", c) /\ LastBy(q, "start", c)
    BY LastPlaces DEF CallAt, LastBy
  <2> QED BY <1>2, <2>1, Before
<1>3. ASSUME NEW a \in {"create", "after_fork", "start", "pause", "stop"}, ~Made(a, c)
      PROVE  ~Made("await", c)
  <2> PICK q \in 26 .. 29 : Calls[q] = <<"await", c>>
    BY FirstPlaces
  <2>1. q \in 1 .. 32 /\ CallAt(q, "await", c) /\ LastBy(q, a, c)
    BY LastPlaces DEF CallAt, LastBy
  <2> QED BY <1>3, <2>1, Before
<1>4. /\ CallAt(17, "start", "loop")
      /\ CallAt(20, "pause", "http")
      /\ CallAt(29, "await", "http")
      /\ CallAt(31, "unload", "main")
  BY CallPlaces DEF CallAt
<1>5. ASSUME ~Made("pause", c)
      PROVE  ~Made("pause", "http")
  <2>1. 20 \in 1 .. 32 /\ LastBy(20, "pause", c)
    BY LastPlaces DEF LastBy
  <2> QED BY <1>4, <1>5, <2>1, Before
<1>6. ASSUME ~Made("await", c)
      PROVE  ~Made("await", "http")
  <2>1. 29 \in 1 .. 32 /\ LastBy(29, "await", c)
    BY LastPlaces DEF LastBy
  <2> QED BY <1>4, <1>6, <2>1, Before
<1>7. ASSUME ~Made("run", "main")
      PROVE  ~Made("unload", "main") /\ ~Made("await", "http")
  <2>1. 31 \in 1 .. 32 /\ LastBy(31, "run", "main")
    BY LastPlaces DEF LastBy
  <2>2. 29 \in 1 .. 32 /\ LastBy(29, "run", "main")
    BY LastPlaces DEF LastBy
  <2> QED BY <1>4, <1>7, <2>1, <2>2, Before
<1>8. ASSUME Due("exit", "main"), ~Made("await", "http")
      PROVE  FALSE
  <2> PICK n \in 0 .. 32 : Left(todo, n)
    BY SomeLeft
  <2>1. n < 32 /\ Calls[n + 1] = <<"exit", "main">>
    <3>1. FirstIn(todo, "exit", "main")
      BY <1>8, OfTodo
    <3> QED BY <3>1, LeftCalls
  <2>2. n + 1 = 32
    BY <2>1, LastPlaces
  <2>3. PICK k \in n + 1 .. 32 : Calls[k] = <<"await", "http">>
    <3>1. ~NoneAfter(n, "await", "http")
      BY <1>8, LeftCalls, OfTodo
    <3> QED BY <3>1 DEF NoneAfter
  <2>4. k \in 1 .. 32 /\ k > 29
    BY <2>2
  <2> QED BY <2>3, <2>4, LastPlaces
<1>9. ASSUME NEW a \in {"create", "after_fork", "handler", "start"}, Due(a, c)
      PROVE  ~Made("start", "loop")
  <2> PICK n \in 0 .. 32 : Left(todo, n)
    BY SomeLeft
  <2>1. n < 32 /\ Calls[n + 1] = <<a, c>>
    <3>1. FirstIn(todo, a, c)
      BY <1>9, OfTodo
    <3> QED BY <3>1, LeftCalls
  <2>2. n + 1 <= 17
    BY <2>1, LastPlaces
  <2>3. 17 \in n + 1 .. 32 /\ Calls[17] = <<"start", "loop">>
    BY <2>2, CallPlaces
  <2>4. ~NoneAfter(n, "start", "loop")
    BY <2>3 DEF NoneAfter
  <2> QED BY <2>4, LeftCalls, OfTodo
<1>10. ASSUME ~Made("signal", "main")
       PROVE  ~Made("start", "loop")
  <2>1. 17 \in 1 .. 32 /\ LastBy(17, "signal", "main")
    BY LastPlaces DEF LastBy
  <2> QED BY <1>4, <1>10, <2>1, Before
<1> QED BY <1>1, <1>2, <1>3, <1>5, <1>6, <1>7, <1>8, <1>9, <1>10

(* To make the call that is due. *)
LEMMA MakeCall ==
    ASSUME Remaining, NEW a, NEW c, Due(a, c), Advance
    PROVE  /\ Remaining'
           /\ ~Made(a, c)
           /\ \A b, d : Made(b, d) => Made(b, d)'
           /\ \A b, d : Made(b, d)' => Made(b, d) \/ (b = a /\ d = c)
<1> PICK n \in 0 .. 32 : Left(todo, n)
  BY SomeLeft
<1> DEFINE m == n + 1
<1>1. n < 32 /\ Calls[m] = <<a, c>> /\ m \in n + 1 .. 32
  <2>1. FirstIn(todo, a, c)
    BY OfTodo
  <2>2. n < 32 /\ Calls[n + 1] = <<a, c>>
    BY <2>1, LeftCalls
  <2> QED BY <2>2
<1>2. todo # <<>> /\ todo' = Tail(todo)
  BY DEF Due, Advance
<1>3. /\ Tail(todo) \in Seq(Call)
      /\ Len(Tail(todo)) = Len(todo) - 1
      /\ \A i \in 1 .. Len(Tail(todo)) : Tail(todo)[i] = todo[i + 1]
  BY <1>2, HeadTailProperties DEF Left
<1>4. Left(todo', m)
  <2>1. /\ todo' \in Seq(Call)
        /\ Len(todo') = 32 - m
    BY <1>1, <1>2, <1>3 DEF Left
  <2>2. ASSUME NEW i \in 1 .. 32 - m
        PROVE  todo'[i] = Calls[m + i]
    <3>1. i \in 1 .. Len(Tail(todo)) /\ i + 1 \in 1 .. 32 - n /\ n + (i + 1) = m + i
      BY <1>1, <2>1, <1>2
    <3> QED BY <1>2, <1>3, <3>1 DEF Left
  <2> QED BY <1>1, <2>1, <2>2 DEF Left
<1>5. Remaining'
  <2>1. Len(Calls) = 32 /\ m \in 0 .. 32
    BY <1>1, CallPlaces
  <2>2. todo' = SubSeq(Calls, m + 1, 32)
    BY <1>4, <2>1, LeftIsSubSeq
  <2> QED BY <2>1, <2>2 DEF Remaining
<1>6. ASSUME NEW b, NEW d
      PROVE  /\ Made(b, d) <=> NoneAfter(n, b, d)
             /\ Made(b, d)' <=> NoneAfter(m, b, d)
  <2>1. m \in 0 .. 32
    BY <1>1
  <2>2. MadeIn(todo', b, d) <=> NoneAfter(m, b, d)
    BY <2>1, <1>4, LeftCalls
  <2>3. MadeIn(todo, b, d) <=> NoneAfter(n, b, d)
    BY LeftCalls
  <2> QED BY <2>2, <2>3, OfTodo
<1>7. ASSUME NEW b, NEW d
      PROVE  NoneAfter(n, b, d) <=> NoneAfter(m, b, d) /\ Calls[m] # <<b, d>>
  <2>1. /\ \A k \in m + 1 .. 32 : k \in n + 1 .. 32
        /\ \A k \in n + 1 .. 32 : k = m \/ k \in m + 1 .. 32
    OBVIOUS
  <2> HIDE DEF m
  <2> QED BY <1>1, <2>1 DEF NoneAfter
<1>8. ~Made(a, c)
  BY <1>1, <1>6, <1>7
<1>9. ASSUME NEW b, NEW d
      PROVE  /\ Made(b, d) => Made(b, d)'
             /\ Made(b, d)' => Made(b, d) \/ (b = a /\ d = c)
  <2> HIDE DEF m
  <2>1. Calls[m] # <<b, d>> \/ (b = a /\ d = c)
    BY <1>1
  <2>2. NoneAfter(n, b, d) => NoneAfter(m, b, d)
    BY <1>7
  <2>3. NoneAfter(m, b, d) => NoneAfter(n, b, d) \/ (b = a /\ d = c)
    BY <1>7, <2>1
  <2> QED BY <2>2, <2>3, <1>6
<1> QED BY <1>5, <1>8, <1>9

-----------------------------------------------------------------------------
(* The invariant. *)

LEMMA InitGood == Init => IInv
<1> SUFFICES ASSUME Init PROVE IInv
  OBVIOUS
<1>1. Left(todo, 0)
  BY CallPlaces DEF Init, Left
<1>2. Remaining
  BY <1>1, SomeLeft
<1>3. Typed
  BY DEF Init, Typed, State
<1>4. ASSUME NEW a, NEW c, NEW q \in 1 .. 32, Calls[q] = <<a, c>>
      PROVE  ~Made(a, c)
  <2>1. ~NoneAfter(0, a, c)
    BY <1>4 DEF NoneAfter
  <2> QED BY <2>1, <1>1, LeftCalls, OfTodo
<1>5. \A c \in Server : ~Made("handler", c)
  BY <1>4, FirstPlaces
<1>6. \A c \in Component : ~Made("await", c)
  BY <1>4, FirstPlaces
<1>7. \A c \in Component : component[c] \in {"absent", "unmade"}
  BY DEF Init
<1>8. Traces
  BY <1>5, <1>6, <1>7 DEF Traces
<1>9. ~Made("run", "main")
  BY <1>4, CallPlaces
<1>10. Asked
  BY <1>9 DEF Asked, Init
<1>11. component["loop"] # "absent" /\ OneSigtermIsSafe
  BY DEF Init, OneSigtermIsSafe
<1> QED BY <1>2, <1>3, <1>8, <1>10, <1>11 DEF IInv

(* A call that changes no component, but may find one in a state. *)
LEMMA ContinueGood ==
    ASSUME IInv, NEW a, NEW c, Due(a, c), Continue,
           a # "handler",
           a = "pause" /\ c \in {"http", "udp"} => component[c] # "running",
           a = "await" => component[c] \in {"absent", "stopped"},
           a = "run" => ~running
    PROVE  IInv'
<1>1. Remaining /\ Advance
  BY DEF IInv, Continue
<1>2. /\ Remaining'
      /\ \A b, d : Made(b, d)' => Made(b, d) \/ (b = a /\ d = c)
  BY <1>1, MakeCall
<1>3. UNCHANGED <<fate, component, handled, running, sigterms>>
  BY DEF Continue
<1>4. Traces'
  <2> SUFFICES ASSUME NEW d \in Component
               PROVE  /\ d \in Server /\ component[d] = "running" => d \in handled
                      /\ d \in Server /\ Made("handler", d)' => d \in handled
                      /\ d \in {"http", "udp"} /\ Made("pause", d)' =>
                            component[d] # "running"
                      /\ Made("await", d)' => component[d] \in {"absent", "stopped"}
    BY <1>3 DEF Traces
  <2> QED BY <1>2 DEF IInv, Traces
<1>5. Asked'
  BY <1>2, <1>3 DEF IInv, Asked
<1>6. OneSigtermIsSafe'
  BY <1>3 DEF OneSigtermIsSafe, Due
<1> QED BY <1>2, <1>3, <1>4, <1>5, <1>6 DEF IInv, Typed

(* A call that changes one component. *)
LEMMA BecomesGood ==
    ASSUME IInv, NEW a \in {"create", "after_fork", "start", "pause", "stop"},
           NEW c \in Component, Due(a, c),
           component[c] # "absent",
           NEW state \in State \ {"absent"}, Becomes(c, state),
           state = "running" => a = "start"
    PROVE  IInv'
<1>1. Remaining /\ Advance
  BY DEF IInv, Becomes
<1>2. /\ Remaining'
      /\ ~Made(a, c)
      /\ \A b, d : Made(b, d)' => Made(b, d) \/ (b = a /\ d = c)
  BY <1>1, MakeCall
<1>3. /\ component \in [Component -> State]
      /\ component' = [component EXCEPT ![c] = state]
      /\ UNCHANGED <<fate, handled, running, sigterms>>
  BY DEF IInv, Typed, Becomes
<1>4. /\ component' \in [Component -> State]
      /\ component'[c] = state
      /\ \A d \in Component \ {c} : component'[d] = component[d]
  BY <1>3
<1>5. Traces'
  <2> SUFFICES ASSUME NEW d \in Component
               PROVE  /\ d \in Server /\ component'[d] = "running" => d \in handled
                      /\ d \in Server /\ Made("handler", d)' => d \in handled
                      /\ d \in {"http", "udp"} /\ Made("pause", d)' =>
                            component'[d] # "running"
                      /\ Made("await", d)' => component'[d] \in {"absent", "stopped"}
    BY <1>3 DEF Traces
  <2>1. Made("handler", d)' => Made("handler", d)
    BY <1>2
  <2>2. Made("await", d)' => Made("await", d)
    BY <1>2
  <2>3. CASE d # c
    BY <2>1, <2>2, <2>3, <1>2, <1>4 DEF IInv, Traces
  <2>4. CASE d = c
    <3>1. ~Made("await", c)
      BY <1>1, <1>2, Order
    <3>2. CASE a = "start"
      <4>1. Made("handler", c)
        BY <1>1, <3>2, Order
      <4>2. c \in {"http", "udp"} => ~Made("pause", c)
        BY <1>1, <1>2, <3>2, Order
      <4>3. Made("pause", d)' => Made("pause", d)
        BY <1>2, <3>2
      <4> QED BY <2>1, <2>2, <2>4, <3>1, <4>1, <4>2, <4>3 DEF IInv, Traces
    <3>3. CASE a # "start"
      BY <2>1, <2>2, <2>4, <3>1, <3>3, <1>4 DEF IInv, Traces
    <3> QED BY <3>2, <3>3
  <2> QED BY <2>3, <2>4
<1>6. Asked'
  BY <1>2, <1>3 DEF IInv, Asked
<1>7. component'["loop"] # "absent"
  BY <1>4 DEF IInv, Component
<1>8. OneSigtermIsSafe'
  BY <1>3 DEF OneSigtermIsSafe, Due
<1> QED BY <1>2, <1>3, <1>4, <1>5, <1>6, <1>7, <1>8 DEF IInv, Typed

LEMMA NextGood == IInv /\ [Next]_vars => IInv'
<1> SUFFICES ASSUME IInv, [Next]_vars
             PROVE  IInv'
  OBVIOUS
<1>1. ASSUME NEW a \in {"fork", "signal", "uninit", "unload"}, Prepare(a)
      PROVE  IInv'
  BY <1>1, ContinueGood DEF Prepare
<1>2. CASE LeaveRun
  BY <1>2, ContinueGood DEF LeaveRun
<1>3. ASSUME NEW how, Ends(how),
             Made("start", "loop") =>
                 /\ how = "exited" /\ ~running
                 /\ \A c \in Component : component[c] \in {"absent", "stopped"}
      PROVE  IInv'
  <2>1. UNCHANGED <<todo, component, handled, running, sigterms>> /\ fate' = how
    BY <1>3 DEF Ends
  <2>2. Typed' /\ Remaining' /\ Traces' /\ Asked' /\ component'["loop"] # "absent"
    BY <2>1 DEF IInv, Typed, Remaining, Traces, Asked, Made
  <2>3. OneSigtermIsSafe'
    BY <2>1, <1>3 DEF OneSigtermIsSafe, Made
  <2> QED BY <2>2, <2>3 DEF IInv
<1>4. CASE Exit
  <2>1. Made("await", "http") /\ Ends("exited")
    BY <1>4, Order DEF Exit, IInv, Component
  <2>2. \A c \in Component : Made("await", c)
    BY <2>1, Order DEF IInv
  <2>3. Made("run", "main")
    BY <2>1, Order DEF IInv, Component
  <2>4. ~running /\ \A c \in Component : component[c] \in {"absent", "stopped"}
    BY <2>2, <2>3 DEF IInv, Traces, Asked
  <2> QED BY <2>1, <2>4, <1>3
<1>5. ASSUME NEW c \in Component, Create(c)
      PROVE  IInv'
  <2>1. CASE component[c] = "absent"
    BY <2>1, <1>5, ContinueGood DEF Create
  <2>2. CASE component[c] # "absent"
    BY <2>2, <1>5, BecomesGood DEF Create, State
  <2> QED BY <2>1, <2>2
<1>6. ASSUME NEW c \in Component, CallAfterFork(c)
      PROVE  IInv'
  BY <1>6, BecomesGood DEF CallAfterFork, State
<1>7. ASSUME NEW c \in Component, RegisterHandler(c)
      PROVE  IInv'
  <2>1. Due("handler", c) /\ Remaining /\ Advance
    BY <1>7 DEF RegisterHandler, IInv
  <2>2. /\ Remaining'
        /\ \A b, d : Made(b, d)' => Made(b, d) \/ (b = "handler" /\ d = c)
    BY <2>1, MakeCall
  <2>3. /\ UNCHANGED <<fate, component, running, sigterms>>
        /\ handled' = handled \cup {c}
    BY <1>7 DEF RegisterHandler
  <2>4. Traces'
    BY <2>2, <2>3 DEF IInv, Traces
  <2>5. Asked'
    BY <2>2, <2>3 DEF IInv, Asked
  <2>6. OneSigtermIsSafe'
    BY <2>1, <2>3 DEF Due, OneSigtermIsSafe
  <2> QED BY <2>2, <2>3, <2>4, <2>5, <2>6 DEF IInv, Typed
<1>8. ASSUME NEW c \in Component, Start(c)
      PROVE  IInv'
  BY <1>8, BecomesGood DEF Start, State
<1>9. ASSUME NEW c \in Component, NullServer(c)
      PROVE  IInv'
  <2>1. ~Made("start", "loop") /\ Ends("crashed")
    BY <1>9, Order DEF NullServer, IInv
  <2> QED BY <2>1, <1>3
<1>10. ASSUME NEW c \in Component, Pause(c)
       PROVE  IInv'
  <2>1. CASE component[c] = "absent"
    BY <2>1, <1>10, ContinueGood DEF Pause
  <2>2. CASE component[c] # "absent"
    BY <2>2, <1>10, BecomesGood DEF Pause, State
  <2> QED BY <2>1, <2>2
<1>11. ASSUME NEW c \in Component, Stop(c)
       PROVE  IInv'
  <2>1. CASE component[c] \in {"absent", "stopped"}
    BY <2>1, <1>11, ContinueGood DEF Stop
  <2>2. CASE component[c] \notin {"absent", "stopped"}
    BY <2>2, <1>11, BecomesGood DEF Stop, State
  <2> QED BY <2>1, <2>2
<1>12. ASSUME NEW c \in Component, Await(c)
       PROVE  IInv'
  BY <1>12, ContinueGood DEF Await
<1>13. ASSUME NEW c \in Component, CreateFails(c) \/ StartFails(c)
       PROVE  IInv'
  <2>1. ~Made("start", "loop")
    BY <1>13, Order DEF CreateFails, StartFails, IInv
  <2>2. Ends("rejected") \/ Ends("aborted")
    BY <1>13 DEF CreateFails, StartFails
  <2> QED BY <2>1, <2>2, <1>3
<1>14. ASSUME NEW c \in Component, HasStopped(c)
       PROVE  IInv'
  <2>1. /\ component \in [Component -> State]
        /\ component[c] = "stopping"
        /\ component' = [component EXCEPT ![c] = "stopped"]
        /\ UNCHANGED <<todo, fate, handled, running, sigterms>>
    BY <1>14 DEF HasStopped, IInv, Typed
  <2>2. /\ component' \in [Component -> State]
        /\ component'[c] = "stopped"
        /\ \A d \in Component \ {c} : component'[d] = component[d]
    BY <2>1 DEF State
  <2>3. \A a, d : Made(a, d)' <=> Made(a, d)
    BY <2>1 DEF Made
  <2>4. Traces'
    <3> SUFFICES ASSUME NEW d \in Component
                 PROVE  /\ d \in Server /\ component'[d] = "running" => d \in handled
                        /\ d \in Server /\ Made("handler", d) => d \in handled
                        /\ d \in {"http", "udp"} /\ Made("pause", d) =>
                              component'[d] # "running"
                        /\ Made("await", d) => component'[d] \in {"absent", "stopped"}
      BY <2>1, <2>3 DEF Traces
    <3>1. CASE d = c
      BY <3>1, <2>2 DEF IInv, Traces
    <3>2. CASE d # c
      BY <3>2, <2>2 DEF IInv, Traces
    <3> QED BY <3>1, <3>2
  <2>5. Remaining' /\ Asked'
    BY <2>1, <2>3 DEF IInv, Remaining, Asked
  <2>6. component'["loop"] # "absent"
    BY <2>2 DEF IInv, Component
  <2>7. OneSigtermIsSafe'
    BY <1>14, <2>1 DEF HasStopped, OneSigtermIsSafe
  <2> QED BY <2>1, <2>2, <2>4, <2>5, <2>6, <2>7 DEF IInv, Typed
<1>15. CASE Sigterm
  <2>1. /\ UNCHANGED <<todo, component, handled>>
        /\ sigterms \in Nat /\ sigterms' = sigterms + 1
        /\ fate = "alive"
    BY <1>15 DEF Sigterm, IInv, Typed
  <2>2. \A a, d : Made(a, d)' <=> Made(a, d)
    BY <2>1 DEF Made
  <2>3. Typed' /\ Remaining' /\ Traces' /\ component'["loop"] # "absent"
    BY <2>1, <2>2 DEF IInv, Typed, Remaining, Traces
  <2>4. Asked'
    BY <1>15, <2>1, <2>2 DEF Sigterm, IInv, Asked
  <2>5. OneSigtermIsSafe'
    <3>1. CASE fate' = "alive"
      BY <3>1 DEF OneSigtermIsSafe
    <3>2. CASE ~Made("signal", "main")
      <4>1. ~Made("start", "loop")
        BY <3>2, Order DEF IInv, Component
      <4> QED BY <4>1, <2>2 DEF OneSigtermIsSafe
    <3>3. CASE Made("unload", "main")
      <4>1. Made("run", "main")
        BY <3>3, Order DEF IInv, Component
      <4>2. sigterms > 0
        BY <4>1 DEF IInv, Asked
      <4> QED BY <4>2, <2>1 DEF OneSigtermIsSafe
    <3> QED BY <1>15, <2>1, <3>1, <3>2, <3>3 DEF Sigterm
  <2> QED BY <2>3, <2>4, <2>5 DEF IInv
<1>16. CASE UNCHANGED vars
  BY <1>16 DEF vars, IInv, Typed, Remaining, Traces, Asked, Made, OneSigtermIsSafe
<1> QED
  BY <1>1, <1>2, <1>4, <1>5, <1>6, <1>7, <1>8, <1>9, <1>10, <1>11, <1>12, <1>13,
     <1>14, <1>15, <1>16
  DEF Next, WorkerStep, TearDown

(* At every call, whatever the servers do by themselves and whenever        *)
(* SIGTERMs come, the calls made so far have left behind what IInv says.    *)
THEOREM Invariance == Spec => []IInv
<1> QED BY InitGood, NextGood, PTL DEF Spec

-----------------------------------------------------------------------------
(* The properties of the run application. *)

(* No request meets a server without its callbacks, and none but TCP takes  *)
(* any once both servers are paused.                                        *)
THEOREM NoRequestUnhandled == Spec => []RequestsHandled
<1>1. IInv => RequestsHandled
  <2> SUFFICES ASSUME IInv, fate = "alive", NEW c \in Server, Serving(c)
               PROVE  /\ c \in handled
                      /\ Made("pause", "http") => c = "tcp" /\ ~Made("await", "loop")
    BY DEF RequestsHandled
  <2>1. c \in handled
    BY DEF IInv, Traces, Serving, Component
  <2>2. ASSUME Made("pause", "http")
        PROVE  c = "tcp" /\ ~Made("await", "loop")
    <3>1. c \in {"http", "udp"} => Made("pause", c)
      BY <2>2, Order DEF IInv, Component
    <3>2. c = "tcp"
      BY <3>1 DEF IInv, Traces, Serving, Component, Server
    <3>3. ~Made("await", "loop")
      BY <3>2 DEF IInv, Traces, Serving, Component
    <3> QED BY <3>2, <3>3
  <2> QED BY <2>1, <2>2
<1> QED BY <1>1, Invariance, PTL

(* When Run returns every component has stopped. *)
THEOREM AllStoppedAtReturn == Spec => []StoppedAtReturn
<1>1. IInv => StoppedAtReturn
  BY Order DEF IInv, Traces, StoppedAtReturn
<1> QED BY <1>1, Invariance, PTL

(* A worker that has come up and gets one SIGTERM at most only ever ends at *)
(* the end of Run, asked to, with every component stopped.                  *)
THEOREM OneSigtermLeavesInOrder == Spec => []OneSigtermIsSafe
<1>1. IInv => OneSigtermIsSafe
  BY DEF IInv
<1> QED BY <1>1, Invariance, PTL

=============================================================================
