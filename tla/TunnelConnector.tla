--------------------------- MODULE TunnelConnector ---------------------------
(* One managed connector of the control plane: runtime/openai_control_plane.py*)
(* behind the openai_* tools of runtime/vps_ops_server.py.  A connector is a  *)
(* remote tunnel under an alias, a local profile, a unit of systemd and the   *)
(* daemon that the unit runs.                                                 *)
(*                                                                            *)
(* Every call is a sequence of commands to tunnel-client and systemctl, and a *)
(* server has one call at a time; several servers offer the tools.  A command *)
(* may fail, or outlive its timeout and work nevertheless.  Scopes, metadata, *)
(* redaction and the audit log are left out, and so are the protected targets:*)
(* the connector is not one of them.                                          *)
EXTENDS Integers, Sequences

CONSTANTS ToolServers, Urls,
          MaxTunnels   \* bound: tunnels are numbered up to this

ASSUME TunnelAssumption == MaxTunnels \in Nat

VARIABLES
  tunnels,   \* how many tunnels were created
  dead,      \* those deleted remotely
  alias,     \* the tunnel that the alias leads to, or 0
  profile,   \* the profile on the disk: <<tunnel, url>>, or Nothing
  unit,      \* is the unit file there?
  active,    \* does systemd want the daemon to run?
  serves,    \* the profile that the running daemon has read, or Nothing
  call,      \* what each server still has to do
  left       \* history: the daemon may have outlived a removal

tunnelVars == <<tunnels, dead, alias, profile, unit, active, serves, call, left>>

host == <<tunnels, dead, alias, profile, unit, active, serves, left>>

Nothing == <<0, "none">>

Tunnels == 1 .. MaxTunnels

\* The commands of each call.  provision decides on the rest when it has seen
\* whether there is a unit file.
Plan ==
  [provision  |-> <<"create", "init", "chown", "installed">>,
   create     |-> <<"create">>,
   connect    |-> <<"connect">>,
   delete     |-> <<"stopped", "rm">>,
   profile    |-> <<"init", "chown">>,
   install    |-> <<"unit", "reload", "enable">>,
   start      |-> <<"start">>,
   restart    |-> <<"restart">>,
   stop       |-> <<"stop">>,
   remove     |-> <<"disable", "unlink", "reload">>]

-----------------------------------------------------------------------------
\* A call begins.  It is alone as long as no other server has one in hand.
Begin(a, job, want) ==
  /\ call[a].todo = <<>>
  /\ call' = [b \in ToolServers |->
       IF b = a
       THEN [todo |-> Plan[job], want |-> want,
             alone |-> \A c \in ToolServers \ {a} : call[c].todo = <<>>]
       ELSE [call[b] EXCEPT !.alone = FALSE]]
  /\ UNCHANGED host

Doing(a, step) == call[a].todo # <<>> /\ Head(call[a].todo) = step

Continue(a) == call' = [call EXCEPT ![a].todo = Tail(@)]

\* The command fails, its timeout is over, or the server dies: the rest of the
\* call is not done.
GiveUp(a) ==
  /\ call[a].todo # <<>>
  /\ call' = [call EXCEPT ![a].todo = <<>>]
  /\ UNCHANGED host

-----------------------------------------------------------------------------
(* runtimes create, connect, stop and rm *)

\* The alias is reused, or gets a new tunnel.
RuntimeCreate(a) ==
  /\ Doing(a, "create")
  /\ alias # 0 \/ tunnels < MaxTunnels
  /\ tunnels' = IF alias = 0 THEN tunnels + 1 ELSE tunnels
  /\ alias' = IF alias = 0 THEN tunnels' ELSE alias
  /\ call' = [call EXCEPT ![a].todo = Tail(@), ![a].want[1] = alias']
  /\ UNCHANGED <<dead, profile, unit, active, serves, left>>

RuntimeConnect(a) ==
  /\ Doing(a, "connect")
  /\ alias' = call[a].want[1]
  /\ profile' = call[a].want
  /\ Continue(a)
  /\ UNCHANGED <<tunnels, dead, unit, active, serves, left>>

\* "stop" of a runtime that is not there does not keep it from being removed.
\* The remote tunnel stays.
RuntimeDelete(a) ==
  /\ \/ Doing(a, "stopped") /\ UNCHANGED alias
     \/ Doing(a, "rm") /\ alias' = 0
  /\ Continue(a)
  /\ UNCHANGED <<tunnels, dead, profile, unit, active, serves, left>>

TunnelCreate(a) ==
  /\ call[a].todo = <<>>
  /\ tunnels < MaxTunnels
  /\ tunnels' = tunnels + 1
  /\ UNCHANGED <<dead, alias, profile, unit, active, serves, call, left>>

\* Nothing looks for the profiles and daemons that still use it.
TunnelDelete(a, t) ==
  /\ call[a].todo = <<>>
  /\ t <= tunnels /\ t \notin dead
  /\ dead' = dead \cup {t}
  /\ UNCHANGED <<tunnels, alias, profile, unit, active, serves, call, left>>

-----------------------------------------------------------------------------
(* The profile *)

ProfileInit(a) ==
  /\ Doing(a, "init")
  /\ profile' = call[a].want
  /\ Continue(a)
  /\ UNCHANGED <<tunnels, dead, alias, unit, active, serves, left>>

\* chown, and doctor, whose verdict is only reported.
ProfileChown(a) ==
  /\ Doing(a, "chown")
  /\ Continue(a)
  /\ UNCHANGED host

ProfileDelete(a) ==
  /\ call[a].todo = <<>>
  /\ profile' = Nothing
  /\ UNCHANGED <<tunnels, dead, alias, unit, active, serves, call, left>>

-----------------------------------------------------------------------------
(* The daemon *)

\* Fault: what is installed already is enabled again and not restarted.
NotRestarted(a) ==
  /\ Doing(a, "installed")
  /\ call' = [call EXCEPT ![a].todo = Plan["install"] \o <<"health">>]
  /\ UNCHANGED host

Installed(a) ==
  /\ Doing(a, "installed")
  /\ call' = [call EXCEPT ![a].todo =
       Plan["install"] \o (IF unit THEN <<"restart">> ELSE <<>>) \o <<"health">>]
  /\ UNCHANGED host

WriteUnit(a) ==
  /\ Doing(a, "unit")
  /\ unit' = TRUE
  /\ Continue(a)
  /\ UNCHANGED <<tunnels, dead, alias, profile, active, serves, left>>

Reload(a) ==
  /\ Doing(a, "reload")
  /\ Continue(a)
  /\ UNCHANGED host

\* enable --now and start leave a daemon alone that runs already.
Enable(a) ==
  /\ Doing(a, "enable") \/ Doing(a, "start")
  /\ unit
  /\ active' = TRUE
  /\ Continue(a)
  /\ UNCHANGED <<tunnels, dead, alias, profile, unit, serves, left>>

Restart(a) ==
  /\ Doing(a, "restart")
  /\ unit
  /\ active' = TRUE
  /\ serves' = Nothing
  /\ Continue(a)
  /\ UNCHANGED <<tunnels, dead, alias, profile, unit, left>>

Halt(a) ==
  /\ active' = FALSE
  /\ serves' = Nothing
  /\ left' = FALSE
  /\ Continue(a)
  /\ UNCHANGED <<tunnels, dead, alias, profile, unit>>

Stop(a) == Doing(a, "stop") /\ (unit \/ active) /\ Halt(a)

\* Fault: disable without --now.
DisableOnly(a) ==
  /\ Doing(a, "disable")
  /\ Continue(a)
  /\ UNCHANGED host

\* disable --now, which needs the unit file.
Disable(a) == Doing(a, "disable") /\ unit /\ Halt(a)

\* daemon_remove does not look at what disable answers.
DisableFails(a) ==
  /\ Doing(a, "disable")
  /\ left' = active
  /\ Continue(a)
  /\ UNCHANGED <<tunnels, dead, alias, profile, unit, active, serves>>

Unlink(a) ==
  /\ Doing(a, "unlink")
  /\ unit' = FALSE
  /\ left' = (active /\ (left \/ ~ call[a].alone))
  /\ Continue(a)
  /\ UNCHANGED <<tunnels, dead, alias, profile, active, serves>>

\* daemon_health, in connector_provision: ready is answered only by a daemon.
Health(a) ==
  /\ Doing(a, "health")
  /\ \/ Continue(a)
     \/ /\ serves # Nothing
        /\ call' = [call EXCEPT ![a].todo = <<"ready">>]
  /\ UNCHANGED host

Return(a) ==
  /\ Doing(a, "ready")
  /\ Continue(a)
  /\ UNCHANGED host

\* The daemon reads the profile when it starts, and is started again when it
\* ends (Restart=always).
DaemonUp ==
  /\ active /\ serves = Nothing /\ profile # Nothing
  /\ serves' = profile
  /\ UNCHANGED <<tunnels, dead, alias, profile, unit, active, call, left>>

DaemonDown ==
  /\ serves # Nothing
  /\ serves' = Nothing
  /\ UNCHANGED <<tunnels, dead, alias, profile, unit, active, call, left>>

TunnelInit ==
  /\ tunnels = 0 /\ dead = {}
  /\ alias = 0
  /\ profile = Nothing
  /\ unit = FALSE
  /\ active = FALSE
  /\ serves = Nothing
  /\ call = [a \in ToolServers |-> [todo |-> <<>>, want |-> Nothing, alone |-> FALSE]]
  /\ left = FALSE

RuntimeTool(a) ==
  \/ Begin(a, "create", Nothing) \/ Begin(a, "delete", Nothing)
  \/ \E t \in 1 .. tunnels, u \in Urls : Begin(a, "connect", <<t, u>>)
  \/ TunnelCreate(a)
  \/ \E t \in Tunnels : TunnelDelete(a, t)

ProfileTool(a) ==
  \/ \E t \in 1 .. tunnels, u \in Urls : Begin(a, "profile", <<t, u>>)
  \/ ProfileDelete(a)

DaemonTool(a) ==
  \E job \in {"install", "start", "restart", "stop", "remove"} : Begin(a, job, Nothing)

Provision(a) == \E u \in Urls : Begin(a, "provision", <<0, u>>)

TunnelTool(a) == RuntimeTool(a) \/ ProfileTool(a) \/ DaemonTool(a) \/ Provision(a)

Command(a) ==
  \/ RuntimeCreate(a) \/ RuntimeConnect(a) \/ RuntimeDelete(a)
  \/ ProfileInit(a) \/ ProfileChown(a)
  \/ Installed(a) \/ WriteUnit(a) \/ Reload(a)
  \/ Enable(a) \/ Restart(a) \/ Stop(a) \/ Disable(a) \/ DisableFails(a) \/ Unlink(a)
  \/ Health(a) \/ Return(a)
  \/ GiveUp(a)

TunnelNext ==
  \/ \E a \in ToolServers : TunnelTool(a) \/ Command(a)
  \/ DaemonUp \/ DaemonDown

TunnelSpec == TunnelInit /\ [][TunnelNext]_tunnelVars

-----------------------------------------------------------------------------
(* Properties *)

\* Types.
TunnelTypeOK ==
  LET Profiles == (Tunnels \X Urls) \cup {Nothing}
  IN /\ tunnels \in 0 .. MaxTunnels /\ dead \subseteq 1 .. tunnels
     /\ alias \in 0 .. tunnels
     /\ profile \in Profiles /\ serves \in Profiles
     /\ unit \in BOOLEAN /\ active \in BOOLEAN /\ left \in BOOLEAN
     /\ serves # Nothing => active
     /\ \A a \in ToolServers : call[a].alone \in BOOLEAN /\ call[a].want[1] \in 0 .. MaxTunnels

\* When connector_provision answers ready, the daemon does not serve an older
\* tunnel or url: whatever the calls before it left behind, unless one removed
\* the unit from under a daemon that would not stop, or another server's call
\* ran beside it.
ReadyRunsItsProfile ==
  \A a \in ToolServers :
    /\ call[a].todo # <<>> /\ Head(call[a].todo) = "ready"
    /\ call[a].alone /\ ~ left
    => serves \in {Nothing, call[a].want}

\* No daemon runs on without its unit file, where no later call would find and
\* restart it, unless it was left over from a removal.
DaemonHasUnit == active /\ ~ unit => left
=============================================================================
