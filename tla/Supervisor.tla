----------------------------- MODULE Supervisor -----------------------------
(***************************************************************************)
(* The process (loft/src/main.rs): main reads the configuration            *)
(* (loft/src/config.rs), spawns the listener threads, which bind their     *)
(* sockets (loft/src/listen.rs), and joins them one after the other.  When *)
(* main returns the process is gone, its threads with it, and the service  *)
(* manager starts it again.                                                *)
(***************************************************************************)
EXTENDS Blocks

CONSTANTS
    HasMbed,   \* the binary was built with the mbedtls feature
    Env,       \* the environments the process may be started in
    Foreign    \* sets of sockets that others may hold

VARIABLES
    env,       \* the environment of this deployment
    foreign,   \* the sockets others hold
    main,      \* where main is
    thread,    \* the state of each listener's thread
    bound      \* the sockets each listener holds

vars == <<env, foreign, main, thread, bound>>

Listener == {"udp", "canary", "tcp"}

-----------------------------------------------------------------------------
(* config.rs; -1 is an unset variable, 0 one that is not a legal number *)

Unset == -1
Error == -2
DefaultDeadline == 30
MaxDeadline == 300

parse_handshake_deadline(raw) ==
    IF raw = Unset THEN DefaultDeadline
    ELSE IF raw \in 1 .. MaxDeadline THEN raw ELSE Error

parse_udp_max_block(raw) ==
    IF raw = Unset THEN MaxSzx
    ELSE IF SzxForBytes(raw) # {} THEN CHOOSE szx \in SzxForBytes(raw) : TRUE ELSE Error

parse_dtls_stack(value) ==
    IF value = "unset" THEN "openssl"
    ELSE IF value \in {"openssl", "mbedtls"} THEN value ELSE "error"

(* The systemd credential when its file is there, else the variable. *)
resolve_service_secret(file, var) ==
    IF file = "unreadable" THEN "error"
    ELSE IF file # "none" THEN file
    ELSE IF var = "unset" THEN "error" ELSE var

(* from_env: an error stops the process before anything listens *)
ConfigOK ==
    /\ resolve_service_secret(env.file, env.secret) \notin {"error", "blank"}
    /\ parse_dtls_stack(env.stack) # "error"
    /\ parse_handshake_deadline(env.deadline) # Error
    /\ parse_udp_max_block(env.block) # Error

(* A blank canary address is none. *)
HasCanary == env.canary[1] \notin {"unset", "blank"}

-----------------------------------------------------------------------------
(* listen.rs *)

ListenAddr(l) == IF l = "canary" THEN env.canary ELSE env.addr

(* What a bind takes: an IPv6 literal is bound for both families. *)
Families(addr) == IF addr[1] = "v6" THEN {"v4", "v6"} ELSE {"v4"}
Claims(l) ==
    {<<IF l = "tcp" THEN "tcp" ELSE "udp", f, ListenAddr(l)[2]>> : f \in Families(ListenAddr(l))}

CanBind(l) == Claims(l) \cap (foreign \cup UNION {bound[m] : m \in Listener}) = {}

-----------------------------------------------------------------------------
(* main *)

Exit == /\ main' = "exited"
        /\ thread' = [l \in Listener |-> "none"]
        /\ bound' = [l \in Listener |-> {}]
        /\ UNCHANGED <<env, foreign>>

Goto(p) == main' = p /\ UNCHANGED <<env, foreign, bound>>

ReadConfig ==
    /\ main = "config"
    /\ IF ConfigOK THEN Goto("spawn_udp") /\ UNCHANGED thread ELSE Exit

(* The runtime, the upstream client or a thread cannot be made. *)
StartFails == main \in {"config", "spawn_udp", "spawn_canary", "spawn_tcp"} /\ Exit

Spawn(l) == thread' = [thread EXCEPT ![l] = "starting"]

(* A binary without the feature refuses to start the mbedTLS listener. *)
Refuses == ~HasMbed

SpawnUdp ==
    /\ main = "spawn_udp"
    /\ IF parse_dtls_stack(env.stack) = "mbedtls" /\ Refuses THEN Exit
       ELSE Spawn("udp") /\ Goto("spawn_canary")

SpawnCanary ==
    /\ main = "spawn_canary"
    /\ IF ~HasCanary THEN Goto("spawn_tcp") /\ UNCHANGED thread
       ELSE IF Refuses THEN Exit
       ELSE Spawn("canary") /\ Goto("spawn_tcp")

SpawnTcp == main = "spawn_tcp" /\ Spawn("tcp") /\ Goto("join_udp")

JoinUdp == main = "join_udp" /\ thread["udp"] = "exited" /\ Goto("join_tcp") /\ UNCHANGED thread
JoinTcp == main = "join_tcp" /\ thread["tcp"] = "exited" /\ Goto("join_canary") /\ UNCHANGED thread

JoinCanary ==
    /\ main = "join_canary"
    /\ HasCanary => thread["canary"] = "exited"
    /\ Exit

Main == ReadConfig \/ SpawnUdp \/ SpawnCanary \/ SpawnTcp \/ JoinUdp \/ JoinTcp \/ JoinCanary

(* The service manager. *)
Restart == main = "exited" /\ Goto("config") /\ UNCHANGED thread

-----------------------------------------------------------------------------
(* run and run_inner of the listeners: the TLS context, the socket, then   *)
(* the loop.  An error is logged and the thread returns.                   *)

UsesMbed(l) == l = "canary" \/ (l = "udp" /\ parse_dtls_stack(env.stack) = "mbedtls")

Advance(l, stage) == thread' = [thread EXCEPT ![l] = stage]

(* Each setting of a context may be refused by its library. *)
ContextBuilt(l) ==
    /\ thread[l] = "starting"
    /\ Advance(l, "context") \/ Advance(l, "exited")
    /\ UNCHANGED <<env, foreign, main, bound>>

BuildOpenssl(l) == ~UsesMbed(l) /\ ContextBuilt(l)
BuildMbed(l) == UsesMbed(l) /\ ContextBuilt(l)

(* A bind may fail, and fails when the socket is taken. *)
Bind(l) ==
    /\ thread[l] = "context"
    /\ \/ CanBind(l) /\ Advance(l, "up") /\ bound' = [bound EXCEPT ![l] = Claims(l)]
       \/ Advance(l, "exited") /\ UNCHANGED bound
    /\ UNCHANGED <<env, foreign, main>>

Starts(l) == BuildOpenssl(l) \/ BuildMbed(l) \/ Bind(l)

(* The loop itself never returns; a panic, on a poisoned lock, ends it. *)
ListenerPanics(l) ==
    /\ thread[l] = "up"
    /\ thread' = [thread EXCEPT ![l] = "exited"]
    /\ bound' = [bound EXCEPT ![l] = {}]
    /\ UNCHANGED <<env, foreign, main>>

-----------------------------------------------------------------------------
Init ==
    /\ env \in Env
    /\ foreign \in Foreign
    /\ main = "config"
    /\ thread = [l \in Listener |-> "none"]
    /\ bound = [l \in Listener |-> {}]

Next ==
    \/ Main \/ StartFails \/ Restart
    \/ \E l \in Listener : Starts(l) \/ ListenerPanics(l)

Spec == Init /\ [][Next]_vars

(* main runs, threads run, and the service manager restarts the process. *)
Fairness ==
    /\ WF_vars(Main) /\ WF_vars(Restart)
    /\ \A l \in Listener : WF_vars(Starts(l))

LiveSpec == Spec /\ Fairness

-----------------------------------------------------------------------------
(* "Any listener exiting is fatal -- the service manager restarts us.":    *)
(* when a listener's thread ends, for whatever reason, main returns.       *)
AnyExitFatal == \A l \in Listener : thread[l] = "exited" ~> main = "exited"
=============================================================================
