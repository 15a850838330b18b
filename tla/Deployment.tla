----------------------------- MODULE Deployment -----------------------------
(* Who moves a production instance to another commit, and how.             *)
(*                                                                         *)
(* Three kinds of writer take the directory guard in the checkout: the     *)
(* deployment Jobs that the gateway creates (gateway/deployments.py, run   *)
(* by sage_run/incluster.py), the command line over SSH                    *)
(* (sage_run/remote.py), and the nightly backup (sage_run/backups.py).     *)
(* A deployment replaces five things one after the other: the checkout,    *)
(* the Secret, the Helm values, the extra manifests and the active         *)
(* workflow release.  A Job that fails half-way puts the five back; the    *)
(* command line does not; neither does a Job that is killed, and then the  *)
(* guard stays until an operator removes it.  The guard of the command     *)
(* line is held by an SSH connection: when that drops, the guard goes and  *)
(* the command continues.                                                  *)
(*                                                                         *)
(* A release is the commit it was made from.  Left out: first             *)
(* installation, local instances (nothing can be restored there), and the  *)
(* hand-over to another platform version, which nothing enables.           *)
EXTENDS Integers, Sequences, FiniteSets

CONSTANTS Jobs, Clis, Nightlies,   \* the writers
          Commits, Initial,        \* commits of the workflow repository
          Names, Wanted(_),        \* extra manifests, and those a commit has
          Claims,                  \* those that are volume claims
          Valid,                   \* the commits that pass the checks
          Keep,                    \* recovery sets kept of each kind
          None, MaxFaults

DeploymentAssumption ==
  /\ Initial \in Commits /\ Valid \subseteq Commits /\ None \notin Commits
  /\ Claims \subseteq Names /\ \A c \in Commits : Wanted(c) \subseteq Names
  /\ Jobs \cap Clis = {} /\ Jobs \cap Nightlies = {} /\ Clis \cap Nightlies = {}
  /\ Keep \in Nat \ {0} /\ MaxFaults \in Nat

VARIABLES
  tip,        \* the commit that `main` names at the origin
  site,       \* what the instance serves: five parts
  guard,      \* the directory .git/sage-run-deploy.lock.d exists
  stage,      \* where each writer is
  mem,        \* what each writer knows: the commit it was asked for, the
              \* site it found and moves to, the recovery set it is making
  recovering, \* the Jobs that are putting the site back
  unheld,     \* command lines whose guard went while their work continues
  sets,       \* published recovery sets of each kind, newest first
  faults

vars == <<tip, site, guard, stage, mem, recovering, unheld, sets, faults>>

Writers   == Jobs \cup Clis \cup Nightlies
Deployers == Jobs \cup Clis

(* What a deployment of commit c makes of the site. *)
SiteOf(c) ==
  [checkout |-> c, secret |-> c, helm |-> c, active |-> c,
   extras |-> [n \in Names |-> IF n \in Wanted(c) THEN c ELSE None]]

Blank ==
  [asked |-> None, before |-> None, goal |-> None,
   copy |-> [checkout |-> None, helm |-> None]]

Init ==
  /\ tip = Initial /\ site = SiteOf(Initial) /\ guard = FALSE
  /\ stage = [w \in Writers |-> "idle"]
  /\ mem = [w \in Writers |-> Blank]
  /\ recovering = {} /\ unheld = {}
  /\ sets = [k \in {"nightly", "deployment"} |-> <<>>]
  /\ faults = 0

Working == {"preflight", "backup", "backup values", "checkout", "secret",
            "helm", "extras", "activate", "complete", "restored"}

Goes(w, s) == stage' = [stage EXCEPT ![w] = s]

-----------------------------------------------------------------------------
(* Asking for a deployment *)

(* Somebody pushes to the workflow repository (external). *)
Push(c) ==
  /\ c > tip /\ tip' = c
  /\ UNCHANGED <<site, guard, stage, mem, recovering, unheld, sets, faults>>

(* The plan that the user sees names the commit it was made for. *)
Plan(j) ==
  /\ stage[j] = "idle" /\ Goes(j, "planned")
  /\ mem' = [mem EXCEPT ![j].asked = tip]
  /\ UNCHANGED <<tip, site, guard, recovering, unheld, sets, faults>>

(* The gateway lists the Jobs before it creates one.  A request may carry   *)
(* the commit of a plan.                                                     *)
List(j) ==
  /\ stage[j] \in {"idle", "planned"}
  /\ ~\E k \in Jobs : stage[k] \in Working \cup {"queued"}
  /\ Goes(j, "listed")
  /\ UNCHANGED <<tip, site, guard, mem, recovering, unheld, sets, faults>>

Create(j) ==
  /\ stage[j] = "listed" /\ Goes(j, "queued")
  /\ UNCHANGED <<tip, site, guard, mem, recovering, unheld, sets, faults>>

(* The command line resolves the ref, and checks it with the origin, before *)
(* it has the lock.                                                          *)
Resolve(w) ==
  /\ w \in Clis /\ stage[w] = "idle" /\ Goes(w, "queued")
  /\ mem' = [mem EXCEPT ![w].asked = tip]
  /\ UNCHANGED <<tip, site, guard, recovering, unheld, sets, faults>>

(* mkdir: one writer gets the guard, the others fail without touching       *)
(* anything.                                                                 *)
TakeLock(w) ==
  /\ stage[w] = IF w \in Nightlies THEN "idle" ELSE "queued"
  /\ IF guard
       THEN Goes(w, "failed") /\ UNCHANGED guard
       ELSE /\ guard' = TRUE
            /\ Goes(w, IF w \in Nightlies THEN "backup" ELSE "preflight")
  /\ UNCHANGED <<tip, site, mem, recovering, unheld, sets, faults>>

(* Leaving the with-statement: the guard goes with the writer, unless its   *)
(* connection had lost it already.                                           *)
Unlock(w) ==
  /\ guard' = (guard /\ w \in unheld)
  /\ mem' = [mem EXCEPT ![w] = Blank]
  /\ UNCHANGED unheld

-----------------------------------------------------------------------------
(* Preparing *)

(* The extras of a commit that are volume claims may not go away. *)
DropsClaim(found, c) ==
  \E n \in Claims : found.extras[n] # None /\ n \notin Wanted(c)

(* Pins, schemas, upgrade path and encrypted values of the candidate. *)
PassesPreflight(c) == c \in Valid

(* A Job deploys what the ref names now; the command line what it resolved.  *)
Target(w) == IF w \in Clis THEN mem[w].asked ELSE tip

(* The tip must still be the commit that the request was for. *)
Drifted(w) == mem[w].asked # None /\ Target(w) # mem[w].asked

Checked(w) ==
  ~Drifted(w) /\ PassesPreflight(Target(w)) /\ ~DropsClaim(site, Target(w))

(* All that is read and checked before anything is changed. *)
Preflight(w) ==
  /\ stage[w] = "preflight"
  /\ \/ /\ Checked(w) /\ Goes(w, "backup")
        /\ mem' = [mem EXCEPT ![w].before = site,
                              ![w].goal = SiteOf(Target(w))]
        /\ UNCHANGED <<guard, unheld>>
     \/ ~Checked(w) /\ Goes(w, "failed") /\ Unlock(w)
  /\ UNCHANGED <<tip, site, recovering, sets, faults>>

(* A recovery set: the repository first, then the Helm values. *)
CopyCheckout(w) ==
  /\ stage[w] = "backup" /\ Goes(w, "backup values")
  /\ mem' = [mem EXCEPT ![w].copy.checkout = site.checkout]
  /\ UNCHANGED <<tip, site, guard, recovering, unheld, sets, faults>>

Rotated(s) == SubSeq(s, 1, IF Len(s) < Keep THEN Len(s) ELSE Keep)

(* The manifest is published last; then the sets of the kind are rotated.   *)
Publish(w) ==
  LET kind == IF w \in Nightlies THEN "nightly" ELSE "deployment"
      set  == [mem[w].copy EXCEPT !.helm = site.helm]
  IN /\ stage[w] = "backup values"
     /\ mem' = [mem EXCEPT ![w].copy = set]
     /\ sets' = [sets EXCEPT ![kind] = Rotated(<<set>> \o @)]
     /\ Goes(w, IF w \in Nightlies THEN "complete"
                ELSE IF mem[w].goal = None THEN "failed" ELSE "checkout")
     /\ UNCHANGED <<tip, site, guard, recovering, unheld, faults>>

-----------------------------------------------------------------------------
(* Changing the site *)

Aim(w) == IF w \in recovering THEN mem[w].before ELSE mem[w].goal

Put(w, part, next) ==
  /\ stage[w] = part /\ Goes(w, next)
  /\ site' = [site EXCEPT ![part] = Aim(w)[part]]
  /\ UNCHANGED <<tip, guard, mem, recovering, unheld, sets, faults>>

(* The checkout, the Secret and the Helm values are replaced as wholes. *)
MoveCheckout(w)  == Put(w, "checkout", "secret")
ReplaceSecret(w) == Put(w, "secret", "helm")
UpgradeHelm(w)   == Put(w, "helm", "extras")

\* Mutant: what only the new release has is not deleted in recovery.
LeftoverOld(w, n) ==
  /\ Aim(w).extras[n] = None
  /\ mem[w].before.extras[n] # None
  /\ site.extras[n] # None

(* The extras go one by one: those of the new set are applied and then the  *)
(* others deleted; recovery and the command line delete first.  Only what   *)
(* either side owns is touched.                                              *)
Leftover(w, n) ==
  /\ Aim(w).extras[n] = None
  /\ n \in Wanted(mem[w].goal.checkout) \/ mem[w].before.extras[n] # None
  /\ site.extras[n] # None
Missing(w, n) ==
  Aim(w).extras[n] # None /\ site.extras[n] # Aim(w).extras[n]

MoveExtra(w, n) ==
  LET deletesFirst == w \in recovering \cup Clis
  IN /\ stage[w] = "extras"
     /\ \/ Leftover(w, n) /\ (deletesFirst \/ ~\E m \in Names : Missing(w, m))
        \/ Missing(w, n) /\ (~deletesFirst \/ ~\E m \in Names : Leftover(w, m))
     /\ site' = [site EXCEPT !.extras[n] = Aim(w).extras[n]]
     /\ UNCHANGED <<tip, guard, stage, mem, recovering, unheld, sets, faults>>

ExtrasDone(w) ==
  /\ stage[w] = "extras"
  /\ ~\E n \in Names : Leftover(w, n) \/ Missing(w, n)
  /\ Goes(w, "activate")
  /\ UNCHANGED <<tip, site, guard, mem, recovering, unheld, sets, faults>>

(* Activation builds the release from whatever the checkout holds. *)
Activate(w) ==
  /\ stage[w] = "activate"
  /\ site' = [site EXCEPT !.active = site.checkout]
  /\ Goes(w, IF w \in recovering THEN "restored" ELSE "complete")
  /\ UNCHANGED <<tip, guard, mem, recovering, unheld, sets, faults>>

Finish(w) ==
  /\ stage[w] \in {"complete", "restored"}
  /\ Goes(w, IF stage[w] = "complete" THEN "succeeded" ELSE "failed")
  /\ Unlock(w)
  /\ UNCHANGED <<tip, site, recovering, sets, faults>>

-----------------------------------------------------------------------------
(* What goes wrong *)

Applying == {"checkout", "secret", "helm", "extras", "activate"}

(* A failing step may have had its effect. *)
Tried(w) ==
  IF stage[w] \in {"checkout", "secret", "helm"}
    THEN {site, [site EXCEPT ![stage[w]] = Aim(w)[stage[w]]]}
    ELSE {site}

(* An exception.  A Job that was applying starts to recover; before that,   *)
(* and in recovery, and on the command line, the writer gives up.           *)
Fail(w) ==
  /\ faults < MaxFaults /\ faults' = faults + 1
  /\ stage[w] \in Applying \cup {"preflight", "backup", "backup values"}
  /\ site' \in Tried(w)
  /\ IF w \in Jobs \ recovering /\ stage[w] \in Applying
       THEN /\ Goes(w, "checkout") /\ recovering' = recovering \cup {w}
            /\ UNCHANGED <<guard, mem, unheld>>
       ELSE Goes(w, "failed") /\ Unlock(w) /\ UNCHANGED recovering
  /\ UNCHANGED <<tip, sets>>

(* A Job is killed (its deadline, its node, an eviction): no code of it     *)
(* runs any more, and the guard stays.                                       *)
Kill(w) ==
  /\ faults < MaxFaults /\ faults' = faults + 1
  /\ w \notin Clis /\ stage[w] \in Working
  /\ Goes(w, "dead") /\ mem' = [mem EXCEPT ![w] = Blank]
  /\ UNCHANGED <<tip, site, guard, recovering, unheld, sets>>

(* The SSH connection that holds the guard drops: the remote shell removes  *)
(* the directory, and the command line does not notice.                      *)
Disconnect(w) ==
  /\ faults < MaxFaults /\ faults' = faults + 1
  /\ w \in Clis \ unheld /\ stage[w] \in Working
  /\ guard' = FALSE /\ unheld' = unheld \cup {w}
  /\ UNCHANGED <<tip, site, stage, mem, recovering, sets>>

(* The recovery set of the command line is made by a Job; when the command  *)
(* line gives up waiting for it, its guard goes and the Job continues.       *)
Abandon(w) ==
  /\ faults < MaxFaults /\ faults' = faults + 1
  /\ w \in Clis \ unheld /\ stage[w] \in {"backup", "backup values"}
  /\ guard' = FALSE /\ unheld' = unheld \cup {w}
  /\ mem' = [mem EXCEPT ![w].goal = None]
  /\ UNCHANGED <<tip, site, stage, recovering, sets>>

(* The operator removes a stale guard after all writers have stopped. *)
ClearGuard ==
  /\ guard /\ ~\E w \in Writers : stage[w] \in Working
  /\ guard' = FALSE
  /\ UNCHANGED <<tip, site, stage, mem, recovering, unheld, sets, faults>>

-----------------------------------------------------------------------------
Work(w) ==
  \/ TakeLock(w) \/ Preflight(w) \/ CopyCheckout(w) \/ Publish(w)
  \/ MoveCheckout(w) \/ ReplaceSecret(w) \/ UpgradeHelm(w)
  \/ \E n \in Names : MoveExtra(w, n)
  \/ ExtrasDone(w) \/ Activate(w) \/ Finish(w)

Next ==
  \/ \E c \in Commits : Push(c)
  \/ \E j \in Jobs : Plan(j) \/ List(j) \/ Create(j)
  \/ \E w \in Clis : Resolve(w)
  \/ \E w \in Writers : Work(w) \/ Fail(w) \/ Kill(w) \/ Disconnect(w)
  \/ \E w \in Clis : Abandon(w)
  \/ ClearGuard

Spec == Init /\ [][Next]_vars

-----------------------------------------------------------------------------
(* A deployment that says it is complete has moved all five parts, and a    *)
(* Job that says the previous state is restored has put all five back       *)
(* (incluster.deploy_in_cluster).  The active release is then the one of    *)
(* the checkout, whichever that was.                                         *)
EndsAsAimed(w) ==
  /\ stage[w] = "complete" => site = mem[w].goal
  /\ stage[w] = "restored" =>
       site = [mem[w].before EXCEPT !.active = mem[w].before.checkout]
EndsWhole == \A w \in Deployers : EndsAsAimed(w)

(* While a deployment changes the site, the newest recovery set is of the   *)
(* site it found (backups.create_backup, called before the first change).   *)
HasBackup(w) ==
  stage[w] \in Applying =>
    sets["deployment"][1]
      = [checkout |-> mem[w].before.checkout, helm |-> mem[w].before.helm]
BackedUp == \A w \in Deployers : HasBackup(w)

(* A nightly set is of one moment. *)
OfOneMoment(w) ==
  stage[w] = "complete" =>
    mem[w].copy = [checkout |-> site.checkout, helm |-> site.helm]
NightlyWhole == \A w \in Nightlies : OfOneMoment(w)

(* One writer at a time, so that each of them finds the site as it left it: *)
(* all of this holds until a command line loses its connection, or leaves a *)
(* backup behind, while it is at work (deployment.checkout_lock and         *)
(* remote.remote_deploy_lock).                                               *)
DeploymentsWhole == unheld = {} => EndsWhole /\ BackedUp /\ NightlyWhole

-----------------------------------------------------------------------------
(* What the property rests on, while no command line has lost its guard *)

SiteType == [checkout : Commits, secret : Commits, helm : Commits, active : Commits,
             extras : [Names -> Commits \cup {None}]]
SetType  == [checkout : Commits \cup {None}, helm : Commits \cup {None}]
MemType  == [asked : Commits \cup {None}, before : SiteType \cup {None},
             goal : SiteType \cup {None}, copy : SetType]

TypeOK ==
  /\ tip \in Commits /\ site \in SiteType /\ guard \in BOOLEAN
  /\ stage \in [Writers -> Working \cup {"idle", "planned", "listed", "queued",
                                         "succeeded", "failed", "dead"}]
  /\ mem \in [Writers -> MemType] /\ recovering \subseteq Jobs
  /\ sets \in [{"nightly", "deployment"} -> Seq(SetType)]

(* One writer is at work, and it has the guard.                             *)
GuardInv ==
  /\ \A w \in Writers : stage[w] \in Working => guard
  /\ \A v, w \in Writers : stage[v] \in Working /\ stage[w] \in Working => v = w

(* A backup changes nothing; a command line knows what it deploys.          *)
Kind(w) ==
  /\ w \in Nightlies => stage[w] \notin Applying \cup {"preflight", "restored"}
  /\ w \in Clis /\ stage[w] \in {"queued", "preflight"} => mem[w].asked \in Commits

(* What a deployment knows before its first change.                         *)
Prepared(w) ==
  /\ w \in Deployers /\ stage[w] \in {"backup", "backup values"} =>
       /\ mem[w].before = site /\ mem[w].goal \in SiteType
       /\ mem[w].goal = SiteOf(mem[w].goal.checkout)
  /\ stage[w] = "backup values" => mem[w].copy.checkout = site.checkout

(* The parts in front of the one being moved are moved; each of the extras  *)
(* is the old or the new one.                                               *)
Moved(w) ==
  stage[w] \in Applying =>
    /\ mem[w].before \in SiteType /\ mem[w].goal \in SiteType
    /\ mem[w].goal = SiteOf(mem[w].goal.checkout)
    /\ \A n \in Names : site.extras[n] \in {mem[w].before.extras[n], mem[w].goal.extras[n]}
    /\ stage[w] \in {"secret", "helm", "extras", "activate"} => site.checkout = Aim(w).checkout
    /\ stage[w] \in {"helm", "extras", "activate"} => site.secret = Aim(w).secret
    /\ stage[w] \in {"extras", "activate"} => site.helm = Aim(w).helm
    /\ stage[w] = "activate" => site.extras = Aim(w).extras

WriterInv(w) ==
  /\ Kind(w) /\ Prepared(w) /\ Moved(w)
  /\ w \in Deployers => EndsAsAimed(w) /\ HasBackup(w)
  /\ w \in Nightlies => OfOneMoment(w)

(* The inductive invariant of the deployments. *)
DeploymentInv == unheld = {} => TypeOK /\ GuardInv /\ \A w \in Writers : WriterInv(w)
=============================================================================
