------------------------------- MODULE McpPool -------------------------------
(***************************************************************************)
(* The session pool of the MCP plugin (phoson_plugin_mcp) for one server:  *)
(* callers share one connection, reconnect behind a lock when a call       *)
(* failed, and may be cancelled at every await.  Servers have their own    *)
(* lock, session and tool list, so one of them is enough.                  *)
(*                                                                         *)
(* An operator that a caller's cancellation or its answer completes leaves *)
(* the rest of the caller to the module that composes the pool.            *)
(***************************************************************************)
EXTENDS Naturals

CONSTANTS
    Callers,
    MaxConns   \* bound: connections opened

ASSUME PoolAssumption ==
    /\ "none" \notin Callers
    /\ MaxConns \in Nat

VARIABLES
    conn,    \* the connections by number, in the order they were opened; from "shaking"
             \* on they are in _exit_stack
    pool,    \* sessions[server], 0 for none
    list,    \* the connection _server_tool_lists[server] was fetched over, 0 for none
    lock,    \* the holder of _session_locks[server], or "none"
    at,      \* the await a caller is suspended at
    using,   \* the connection it holds
    opened,  \* connections opened so far
    failed   \* history: connections a call failed on

poolVars == <<conn, pool, list, lock, at, using, opened, failed>>

Conns == 1..MaxConns

\* "opening"  the transport is being entered      "shaking"  session.initialize()
\* "up"       usable                              "broken"   the server or the pipe is gone
ConnStates == {"none", "opening", "shaking", "up", "broken", "closed"}

\* "lock"  waits for the lock     "open", "shake"  connects, holding it
\* "list"  session.list_tools()   "call"           session.call_tool()
PoolTypeOK ==
    /\ conn \in [Conns -> ConnStates]
    /\ pool \in 0..opened /\ list \in 0..opened
    /\ lock \in Callers \cup {"none"}
    /\ at \in [Callers -> {"out", "lock", "open", "shake", "list", "call"}]
    /\ using \in [Callers -> 0..opened]
    /\ opened \in 0..MaxConns
    /\ failed \subseteq Conns

PoolInit ==
    /\ conn = [k \in Conns |-> "none"]
    /\ pool = 0 /\ list = 0
    /\ lock = "none"
    /\ at = [c \in Callers |-> "out"]
    /\ using = [c \in Callers |-> 0]
    /\ opened = 0
    /\ failed = {}

\* The caller has the session k: the tool list is fetched once, then the call goes out.
Proceed(c, k) ==
    /\ using' = [using EXCEPT ![c] = k]
    /\ at' = [at EXCEPT ![c] = IF list = 0 THEN "list" ELSE "call"]

\* _execute_mcp_tool and the fast path of _get_session.
EnterPool(c) ==
    /\ at[c] = "out"
    /\ \/ pool # 0 /\ Proceed(c, pool)
       \/ pool = 0 /\ at' = [at EXCEPT ![c] = "lock"] /\ UNCHANGED using
    /\ UNCHANGED <<conn, pool, list, lock, opened, failed>>

\* Seeded fault: the pool is not looked at again once the lock is held.
GetLock_NoSecondLook(c) ==
    /\ at[c] = "lock" /\ lock = "none"
    /\ opened < MaxConns
    /\ opened' = opened + 1
    /\ conn' = [conn EXCEPT ![opened'] = "opening"]
    /\ using' = [using EXCEPT ![c] = opened']
    /\ at' = [at EXCEPT ![c] = "open"]
    /\ lock' = c
    /\ UNCHANGED <<pool, list, failed>>

\* The lock is taken, and the pool looked at again before a connection is opened.
GetLock(c) ==
    /\ at[c] = "lock" /\ lock = "none"
    /\ \/ pool # 0 /\ Proceed(c, pool) /\ UNCHANGED <<conn, lock, opened>>
       \/ /\ pool = 0
          /\ opened < MaxConns
          /\ opened' = opened + 1
          /\ conn' = [conn EXCEPT ![opened'] = "opening"]
          /\ using' = [using EXCEPT ![c] = opened']
          /\ at' = [at EXCEPT ![c] = "open"]
          /\ lock' = c
    /\ UNCHANGED <<pool, list, failed>>

\* The transport is open and in the exit stack.
Opened(c) ==
    /\ at[c] = "open"
    /\ conn' = [conn EXCEPT ![using[c]] = "shaking"]
    /\ at' = [at EXCEPT ![c] = "shake"]
    /\ UNCHANGED <<pool, list, lock, using, opened, failed>>

\* The handshake is done: the session is pooled and the lock free.
Shaken(c) ==
    /\ at[c] = "shake"
    /\ conn' = [conn EXCEPT ![using[c]] = "up"]
    /\ pool' = using[c]
    /\ lock' = "none"
    /\ Proceed(c, using[c])
    /\ UNCHANGED <<list, opened, failed>>

Listed(c) ==
    /\ at[c] = "list" /\ conn[using[c]] = "up"
    /\ list' = using[c]
    /\ at' = [at EXCEPT ![c] = "call"]
    /\ UNCHANGED <<conn, pool, lock, using, opened, failed>>

\* A caller leaves the pool: what it was opening is closed, a half-made connection stays
\* in the exit stack, and the lock is free.
Leave(c) ==
    /\ at' = [at EXCEPT ![c] = "out"]
    /\ using' = [using EXCEPT ![c] = 0]
    /\ lock' = IF lock = c THEN "none" ELSE lock
    /\ conn' = CASE at[c] = "open" -> [conn EXCEPT ![using[c]] = "closed"]
                 [] at[c] = "shake" -> [conn EXCEPT ![using[c]] = "broken"]
                 [] OTHER -> conn
    /\ UNCHANGED opened

\* The server answers; or, when the list does not have the tool, there is no call.
Called(c) ==
    /\ at[c] = "call"
    /\ Leave(c)
    /\ UNCHANGED <<pool, list, failed>>

\* Any exception: whatever session and list are pooled by now are dropped.
CallFails(c) ==
    /\ at[c] \in {"open", "shake", "list", "call"}
    /\ pool' = 0 /\ list' = 0
    /\ failed' = failed \cup {using[c]}
    /\ Leave(c)

\* A cancellation is not an Exception: nothing is dropped.
Interrupted(c) == Leave(c) /\ UNCHANGED <<pool, list, failed>>

\* The server dies.
Breaks(k) ==
    /\ conn[k] = "up"
    /\ conn' = [conn EXCEPT ![k] = "broken"]
    /\ UNCHANGED <<pool, list, lock, at, using, opened, failed>>

-----------------------------------------------------------------------------
(* Properties *)

Connecting(c) == at[c] \in {"open", "shake"}

\* However calls fail, are cancelled and overlap: one caller connects at a time and only
\* while nothing is pooled, and what is pooled has shaken hands and no call failed on it,
\* so that a broken session costs each of its callers one call ("instead of staying
\* wedged").
PoolKept ==
    /\ PoolTypeOK
    /\ \A c \in Callers : Connecting(c) <=> lock = c
    /\ lock # "none" => pool = 0
    /\ pool # 0 => conn[pool] \in {"up", "broken"} /\ pool \notin failed

\* What a caller holds, by where it is.
Held ==
    \A c \in Callers :
        /\ at[c] \in {"out", "lock"} => using[c] = 0
        /\ at[c] = "open" => using[c] # 0 /\ conn[using[c]] = "opening"
        /\ at[c] = "shake" => using[c] # 0 /\ conn[using[c]] = "shaking"
        /\ at[c] \in {"list", "call"} => using[c] # 0 /\ conn[using[c]] \in {"up", "broken"}

\* Connections are numbered as they are opened, and none is shaking hands that a call failed
\* on.
Numbered ==
    /\ \A k \in Conns : k > opened <=> conn[k] = "none"
    /\ \A k \in failed : conn[k] \in {"up", "broken", "closed"}

\* The inductive strengthening of PoolKept.
PoolInv == PoolKept /\ Held /\ Numbered

\* "One live connection per server" (_plugin.py:191).
OneLive == \A j, k \in Conns : conn[j] = "up" /\ conn[k] = "up" => j = k

\* The tool list a call looks its tool up in is that of the pooled session.
ListIsOfPool == pool # 0 /\ list # 0 => list = pool
=============================================================================
