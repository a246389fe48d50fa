------------------------------- MODULE Tunnel -------------------------------
(***************************************************************************)
(* Public access to the local API proxy through cloudflared (tunnel.rs,    *)
(* and the commands of the desktop's main.rs that hold it).                *)
(*                                                                         *)
(* A named tunnel is a thing of three places: a tunnel at Cloudflare with  *)
(* the connections its process registered, the DNS record of the host,     *)
(* and the process on this computer.  Starting creates the first, points   *)
(* the second and spawns the third; stopping kills the process and asks    *)
(* Cloudflare to forget the tunnel, keeping in `orphans` what it would not *)
(* delete.  The commands hold one lock each from beginning to end.         *)
(***************************************************************************)
EXTENDS Naturals, FiniteSets

CONSTANTS
    MaxTunnels,      \* named tunnels ever created at Cloudflare
    MaxTunnelFaults, \* requests to Cloudflare and processes that fail
    MaxEnds          \* times the app quits or dies

ASSUME TunnelBounds == MaxTunnels \in Nat /\ MaxTunnelFaults \in Nat
                         /\ MaxEnds \in Nat

Tunnels == 1..MaxTunnels
NoTunnel == 0
Quick == MaxTunnels + 1
Processes == Tunnels \union {Quick}
Free == "free"

(* What a stop goes on to once the leftovers have been tried. *)
Afterwards == {Free, "create", "spawn quick", "stop proxy", "exit"}
Errands == {Free, "clean", "configure", "point", "spawn", "watch"}
             \union (Afterwards \ {"stop proxy"})

VARIABLES
    tunnel,     \* the app's Tunnel: child, cleanup, orphans, cleanup_error
    errand,     \* what the holder of the lock does next
    cleaning,   \* a stop under way: left to delete, failed, what follows
    edge,       \* Cloudflare: tunnels, their connections, the host's target
    lost,       \* tunnels at Cloudflare no struct of the app can name
    alive,      \* cloudflared processes that run
    localProxy, \* the API proxy: off, on, or on with a stop behind it
    mishaps,    \* faults so far
    ends        \* times the app ended

tunnelVars == <<tunnel, errand, cleaning, edge, lost, alive, localProxy, mishaps,
                ends>>

NothingToClean == [left |-> {}, failed |-> {}, next |-> Free]
FreshTunnel == [child |-> NoTunnel, cleanup |-> NoTunnel, orphans |-> {}, told |-> FALSE]

TunnelTypeOK ==
    /\ tunnel \in [child : Processes \union {NoTunnel},
                   cleanup : Tunnels \union {NoTunnel},
                   orphans : SUBSET Tunnels, told : BOOLEAN]
    /\ errand \in Errands
    /\ cleaning \in [left : SUBSET Tunnels, failed : SUBSET Tunnels, next : Afterwards]
    /\ edge \in [made : 0..MaxTunnels, tunnels : SUBSET Tunnels,
                 linked : SUBSET Tunnels, host : Tunnels \union {NoTunnel}]
    /\ lost \in SUBSET Tunnels
    /\ alive \in SUBSET Processes
    /\ localProxy \in {"off", "on", "stopping"}
    /\ mishaps \in 0..MaxTunnelFaults
    /\ ends \in 0..MaxEnds

TunnelInit ==
    /\ tunnel = FreshTunnel
    /\ errand = Free
    /\ cleaning = NothingToClean
    /\ edge = [made |-> 0, tunnels |-> {}, linked |-> {}, host |-> NoTunnel]
    /\ lost = {}
    /\ alive = {}
    /\ localProxy = "on"
    /\ mishaps = 0
    /\ ends = 0

(* A request to Cloudflare is answered, refused, or done with its answer lost. *)
Outcomes == {"done", "refused", "unheard"}
Did(outcome) == outcome # "refused"
Costs(outcome) ==
    /\ outcome = "done" \/ mishaps < MaxTunnelFaults
    /\ mishaps' = IF outcome = "done" THEN mishaps ELSE mishaps + 1

Pending == tunnel.orphans \union ({tunnel.cleanup} \ {NoTunnel})
Running == tunnel.child \in alive

(***************************************************************************)
(* Stopping.                                                               *)
(***************************************************************************)
(* Kills the process and takes everything still at Cloudflare as left over. *)
LeftoversOfThisStart == {tunnel.cleanup} \ {NoTunnel}
Leftovers == Pending
StopsThen(next) ==
    /\ alive' = alive \ {tunnel.child}
    /\ IF Leftovers = {}
       THEN /\ tunnel' = [tunnel EXCEPT !.child = NoTunnel, !.cleanup = NoTunnel]
            /\ errand' = IF next = "stop proxy" THEN Free ELSE next
            /\ localProxy' = IF next = "stop proxy" THEN "stopping" ELSE localProxy
            /\ UNCHANGED cleaning
       ELSE /\ tunnel' = [tunnel EXCEPT !.child = NoTunnel, !.cleanup = NoTunnel,
                                        !.orphans = {}]
            /\ errand' = "clean"
            /\ cleaning' = [left |-> Leftovers, failed |-> {}, next |-> next]
            /\ UNCHANGED localProxy

(* Cloudflare refuses to delete a tunnel with connections, so those are    *)
(* dropped first; how that went is not looked at.                          *)
DropsConnections(id) ==
    /\ errand = "clean" /\ id \in cleaning.left \intersect edge.linked
    /\ edge' = [edge EXCEPT !.linked = @ \ {id}]
    /\ UNCHANGED <<tunnel, errand, cleaning, lost, alive, localProxy, mishaps, ends>>

Deletes(id, outcome) ==
    /\ errand = "clean" /\ id \in cleaning.left
    /\ Did(outcome) => id \notin edge.linked
    /\ outcome = "unheard" => id \in edge.tunnels
    /\ IF id \in edge.tunnels THEN Costs(outcome) ELSE UNCHANGED mishaps
    /\ edge' = [edge EXCEPT !.tunnels = IF Did(outcome) THEN @ \ {id} ELSE @]
    /\ cleaning' = [cleaning EXCEPT !.left = @ \ {id},
                                    !.failed = IF outcome = "done" THEN @
                                               ELSE @ \union {id}]
    /\ UNCHANGED <<tunnel, errand, lost, alive, localProxy, ends>>

(* What could not be deleted is kept for the next stop, and the user told. *)
CleanupEnds ==
    /\ errand = "clean" /\ cleaning.left = {}
    /\ tunnel' = [tunnel EXCEPT !.orphans = cleaning.failed, !.told = cleaning.failed # {}]
    /\ errand' = IF cleaning.next = "stop proxy" THEN Free ELSE cleaning.next
    /\ localProxy' = IF cleaning.next = "stop proxy" THEN "stopping" ELSE localProxy
    /\ cleaning' = NothingToClean
    /\ UNCHANGED <<edge, lost, alive, mishaps, ends>>

StopTunnel ==
    /\ errand = Free
    /\ StopsThen(Free)
    /\ UNCHANGED <<edge, lost, mishaps, ends>>

(* The proxy stops after its tunnel has, the lock released in between. *)
StopProxy ==
    /\ errand = Free /\ localProxy = "on"
    /\ StopsThen("stop proxy")
    /\ UNCHANGED <<edge, lost, mishaps, ends>>
ProxyStops ==
    /\ localProxy = "stopping"
    /\ localProxy' = "off"
    /\ UNCHANGED <<tunnel, errand, cleaning, edge, lost, alive, mishaps, ends>>
ProxyStarts ==
    /\ localProxy = "off"
    /\ localProxy' = "on"
    /\ UNCHANGED <<tunnel, errand, cleaning, edge, lost, alive, mishaps, ends>>

(***************************************************************************)
(* Starting.                                                               *)
(***************************************************************************)
(* A tunnel that runs is left alone; any other is stopped first. *)
StartTunnel(next) ==
    /\ errand = Free /\ localProxy # "off" /\ ~Running
    /\ next = "create" => edge.made < MaxTunnels
    /\ StopsThen(next)
    /\ UNCHANGED <<edge, lost, mishaps, ends>>

Create(outcome) ==
    LET id == edge.made + 1 IN
    /\ errand = "create"
    /\ Costs(outcome)
    /\ edge' = IF Did(outcome)
               THEN [edge EXCEPT !.made = id, !.tunnels = @ \union {id}]
               ELSE edge
    /\ tunnel' = [tunnel EXCEPT !.cleanup = IF outcome = "done" THEN id ELSE @]
    /\ lost' = IF outcome = "unheard" THEN lost \union {id} ELSE lost
    /\ errand' = IF outcome = "done" THEN "configure" ELSE Free
    /\ UNCHANGED <<cleaning, alive, localProxy, ends>>

(* The configuration, the DNS record and the token to run with: the first  *)
(* failure stops the tunnel just created.                                  *)
Configure(outcome) ==
    /\ errand = "configure"
    /\ Costs(outcome)
    /\ IF outcome = "done"
       THEN errand' = "point" /\ UNCHANGED <<tunnel, cleaning, alive, localProxy>>
       ELSE StopsThen(Free)
    /\ UNCHANGED <<edge, lost, ends>>
PointHost(outcome) ==
    /\ errand = "point"
    /\ Costs(outcome)
    /\ edge' = [edge EXCEPT !.host = IF Did(outcome) THEN tunnel.cleanup ELSE @]
    /\ IF outcome = "done"
       THEN errand' = "spawn" /\ UNCHANGED <<tunnel, cleaning, alive, localProxy>>
       ELSE StopsThen(Free)
    /\ UNCHANGED <<lost, ends>>

Spawn(outcome) ==
    LET process == IF errand = "spawn" THEN tunnel.cleanup ELSE Quick IN
    /\ errand \in {"spawn", "spawn quick"}
    /\ Costs(outcome) /\ outcome # "unheard"
    /\ IF outcome = "done"
       THEN /\ tunnel' = [tunnel EXCEPT !.child = process]
            /\ alive' = alive \union {process}
            /\ errand' = "watch"
            /\ UNCHANGED <<cleaning, localProxy>>
       ELSE StopsThen(Free)
    /\ UNCHANGED <<edge, lost, ends>>

(* The start is watched for some seconds: a process that exits is cleaned up. *)
WatchEnds ==
    /\ errand = "watch"
    /\ IF Running
       THEN errand' = Free /\ UNCHANGED <<tunnel, cleaning, alive, localProxy>>
       ELSE StopsThen(Free)
    /\ UNCHANGED <<edge, lost, mishaps, ends>>

(***************************************************************************)
(* The status, the process, and the end of the app.                        *)
(***************************************************************************)
Status ==
    /\ errand = Free /\ tunnel.child # NoTunnel /\ ~Running
    /\ tunnel' = [tunnel EXCEPT !.child = NoTunnel]
    /\ UNCHANGED <<errand, cleaning, edge, lost, alive, localProxy, mishaps, ends>>

Connects(id) ==
    /\ id \in (alive \intersect edge.tunnels) \ edge.linked
    /\ edge' = [edge EXCEPT !.linked = @ \union {id}]
    /\ UNCHANGED <<tunnel, errand, cleaning, lost, alive, localProxy, mishaps, ends>>

(* The process ends by itself; its connections stay for Cloudflare to drop. *)
ProcessDies(process) ==
    /\ process \in alive /\ mishaps < MaxTunnelFaults
    /\ alive' = alive \ {process}
    /\ mishaps' = mishaps + 1
    /\ UNCHANGED <<tunnel, errand, cleaning, edge, lost, localProxy, ends>>

(* Quitting stops the tunnel first, and waits five seconds at the most. *)
Quit ==
    /\ errand = Free /\ ends < MaxEnds
    /\ StopsThen("exit")
    /\ UNCHANGED <<edge, lost, mishaps, ends>>
(* The app is gone, by quitting, past those five seconds, or by a crash,   *)
(* and comes back with nothing of what it knew; a process it did not kill  *)
(* may run on.                                                             *)
AppEnds ==
    /\ ends < MaxEnds
    /\ tunnel' = FreshTunnel
    /\ errand' = Free
    /\ cleaning' = NothingToClean
    /\ lost' = lost \union edge.tunnels
    /\ localProxy' = "on"
    /\ ends' = ends + 1
    /\ UNCHANGED <<edge, alive, mishaps>>

TunnelNext ==
    \/ \E id \in Tunnels : DropsConnections(id) \/ Connects(id)
    \/ \E id \in Tunnels, outcome \in Outcomes : Deletes(id, outcome)
    \/ CleanupEnds \/ StopTunnel \/ StopProxy \/ ProxyStops \/ ProxyStarts
    \/ \E next \in {"create", "spawn quick"} : StartTunnel(next)
    \/ \E outcome \in Outcomes :
          Create(outcome) \/ Configure(outcome) \/ PointHost(outcome) \/ Spawn(outcome)
    \/ WatchEnds \/ Status \/ Quit \/ AppEnds
    \/ \E process \in Processes : ProcessDies(process)

TunnelSpec == TunnelInit /\ [][TunnelNext]_tunnelVars

(***************************************************************************)
(* Properties.                                                             *)
(***************************************************************************)
(* No tunnel is left at Cloudflare unnoticed: whatever failed along a      *)
(* start or a stop, each one the app created and heard of is remembered    *)
(* until it is deleted, and between two commands either it is the current  *)
(* tunnel or the status tells of a cleanup that is pending.                *)
LeftoversAreKnown ==
    LET known == Pending \union cleaning.left \union cleaning.failed
        current == {tunnel.cleanup} IN
    /\ edge.tunnels \ lost \subseteq known
    /\ errand = Free /\ ~tunnel.told => edge.tunnels \ lost \subseteq current
=============================================================================
