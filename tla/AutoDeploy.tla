----------------------------- MODULE AutoDeploy -----------------------------
(***************************************************************************)
(* deploy/autodeploy.sh and the deploy.sh it calls: on every timer tick,   *)
(* or by hand with --force or --emergency-bypass, fetch, compare, check,   *)
(* pull, install, restart, probe, roll back, and alert.  The flock makes   *)
(* it one tick at a time; pushes, edits of the checkout, failing commands  *)
(* and reboots of the machine fall between any two of its commands.        *)
(***************************************************************************)
EXTENDS Naturals

CONSTANTS
    Modes,        \* "normal", "force", "emergency-bypass"
    MaxCommits,   \* bound: commits pushed
    Broken,       \* commits whose service does not become healthy
    Renag         \* three hours, in ticks of five minutes

VARIABLES
    origin,       \* newest commit of origin/master
    tracking,     \* refs/remotes/origin/master in the checkout
    head,         \* HEAD of the checkout
    tree,         \* "ok", or what a preflight refuses
    deps,         \* commit whose requirements the venv holds
    service,      \* [code, deps] the running service was started with
    at, mode,     \* the tick's next command and its flag
    old,          \* ROLLBACK
    alert,        \* alert-state: class and age of its time stamp
    posted,       \* history: last post, and whether HEAD was served healthy then
    silence       \* history: failed ticks since the last post

repoVars == <<origin, tracking, head, tree>>
hostVars == <<deps, service>>
alertVars == <<alert, posted, silence>>
deployVars == <<repoVars, hostVars, at, mode, old, alertVars>>

Healthy(s) == s.code \notin Broken /\ s.deps = s.code
Serving == service.code = head /\ Healthy(service)

DeployInit ==
    /\ origin = 0 /\ tracking = 0 /\ head = 0 /\ tree = "ok"
    /\ deps = 0 /\ service = [code |-> 0, deps |-> 0]
    /\ at = "idle" /\ mode = "normal" /\ old = 0
    /\ alert = [class |-> "ok", age |-> Renag]
    /\ posted = [kind |-> "none", serving |-> TRUE]
    /\ silence = 0

-----------------------------------------------------------------------------
(* Alerts *)

ShouldPostRed == alert.class # "red" \/ alert.age >= Renag
NotifyRedRestamping ==             \* fault: every failure moves the stamp
    /\ alert' = [class |-> "red", age |-> 0]
    /\ IF ShouldPostRed
       THEN posted' = [kind |-> "red", serving |-> Serving] /\ silence' = 0
       ELSE silence' = silence + 1 /\ UNCHANGED posted

\* _notify_red: post on a transition to red and then every Renag; the stamp
\* is that of the last post, so that failures in between do not move it.
NotifyRed ==
    /\ IF ShouldPostRed
       THEN /\ alert' = [class |-> "red", age |-> 0] /\ silence' = 0
            /\ posted' = [kind |-> "red", serving |-> Serving]
       ELSE silence' = silence + 1 /\ UNCHANGED <<alert, posted>>

\* _clear_failing_state on a tick without news.
ClearFailingState ==
    /\ IF alert.class = "red"
       THEN /\ posted' = [kind |-> "recovered", serving |-> Serving]
            /\ alert' = [class |-> "ok", age |-> 0]
       ELSE UNCHANGED <<posted, alert>>
    /\ silence' = 0

End == at' = "idle" /\ UNCHANGED <<mode, old>>
Fails == End /\ NotifyRed
GoOn(label) == at' = label /\ UNCHANGED <<mode, old, alertVars>>

-----------------------------------------------------------------------------
(* autodeploy.sh *)

\* The timer, or a person; while a tick holds the lock another exits at once.
TickStarts(m) ==
    /\ at = "idle"
    /\ at' = "fetch" /\ mode' = m
    /\ alert' = [alert EXCEPT !.age = IF @ < Renag THEN @ + 1 ELSE @]
    /\ UNCHANGED <<repoVars, hostVars, old, posted, silence>>

Fetch ==
    /\ at = "fetch"
    /\ \/ tracking' = origin /\ GoOn("decide")
       \/ UNCHANGED tracking /\ Fails
    /\ UNCHANGED <<origin, head, tree, hostVars>>

\* Change detection and preflights.
UpToDate == mode = "normal" /\ head = tracking
Refused == mode # "emergency-bypass" /\ tree # "ok"
Decide ==
    /\ at = "decide"
    /\ \/ UpToDate /\ End /\ ClearFailingState
       \/ ~UpToDate /\ Refused /\ Fails
       \/ ~UpToDate /\ ~Refused /\ GoOn("pull")
    /\ UNCHANGED <<repoVars, hostVars>>

-----------------------------------------------------------------------------
(* deploy.sh: set -e, so a command that fails ends it at once. *)

\* Pull fetches again; it cannot fast-forward a diverged checkout.
Pull ==
    /\ at = "pull"
    /\ \/ /\ tree # "diverged"
          /\ old' = head /\ head' = origin /\ tracking' = origin
          /\ at' = "install" /\ UNCHANGED <<mode, alertVars>>
       \/ UNCHANGED <<head, tracking>> /\ Fails
    /\ UNCHANGED <<origin, tree, hostVars>>

Install ==
    /\ at = "install"
    /\ \/ deps' = head /\ GoOn("restart")
       \/ UNCHANGED deps /\ Fails
    /\ UNCHANGED <<repoVars, service>>

Restart ==
    /\ at = "restart"
    /\ service' = [code |-> head, deps |-> deps]
    /\ GoOn("probe")
    /\ UNCHANGED <<repoVars, deps>>

\* wait_for_health; a healthy service counts as deployed whether the probe
\* through the edge answers (green) or not (yellow).
Probe ==
    /\ at = "probe"
    /\ \/ /\ Healthy(service)
          /\ posted' = [kind |-> "deployed", serving |-> Serving]
          /\ alert' = [class |-> "ok", age |-> 0] /\ silence' = 0
          /\ End
       \/ ~Healthy(service) /\ GoOn("rollback")
    /\ UNCHANGED <<repoVars, hostVars>>

ProbeLax ==                        \* fault: the rollback is left out
    /\ at = "probe"
    /\ posted' = [kind |-> "deployed", serving |-> Serving]
    /\ alert' = [class |-> "ok", age |-> 0] /\ silence' = 0
    /\ End
    /\ UNCHANGED <<repoVars, hostVars>>

\* reset --hard also discards edits; then install and restart, or give up.
RollBack ==
    /\ at = "rollback"
    /\ head' = old
    /\ tree' = IF tree = "dirty" THEN "ok" ELSE tree
    /\ \/ deps' = old /\ service' = [code |-> old, deps |-> old]
       \/ UNCHANGED <<deps, service>>
    /\ Fails
    /\ UNCHANGED <<origin, tracking>>

-----------------------------------------------------------------------------
(* Surroundings *)
Push ==
    /\ origin < MaxCommits
    /\ origin' = origin + 1
    /\ UNCHANGED <<tracking, head, tree, hostVars, at, mode, old, alertVars>>

\* Somebody edits the checkout, switches its branch, commits in it, or undoes that.
TreeChanges ==
    /\ at = "idle"
    /\ tree' \in {"ok", "dirty", "branch", "diverged"} \ {tree}
    /\ UNCHANGED <<origin, tracking, head, hostVars, at, mode, old, alertVars>>

\* The machine reboots: the lock is gone and the service starts from the checkout.
Reboot ==
    /\ at # "idle"
    /\ service' = [code |-> head, deps |-> deps]
    /\ End
    /\ UNCHANGED <<repoVars, deps, alertVars>>

DeployNext ==
    \/ \E m \in Modes : TickStarts(m)
    \/ Fetch \/ Decide \/ Pull \/ Install \/ Restart \/ Probe \/ RollBack
    \/ Push \/ TreeChanges \/ Reboot

DeploySpec == DeployInit /\ [][DeployNext]_deployVars

-----------------------------------------------------------------------------
\* The deploy message tells the truth: the commit it names is the one that
\* serves, healthy, whatever was pushed while it was being deployed.
DeployedIsServing == posted.kind = "deployed" => posted.serving

\* "If we re-stamped on every tick ... the ~3h re-nag would never fire": as
\* long as ticks fail, fewer than the re-nag period's pass in silence.
FailuresAreNagged == silence < Renag

DeployHolds == DeployedIsServing /\ FailuresAreNagged

\* The recovery message of a tick without news says "system is healthy
\* again": the commit in the checkout is then the one that serves, healthy.
RecoveredIsServing == posted.kind = "recovered" => posted.serving
=============================================================================
