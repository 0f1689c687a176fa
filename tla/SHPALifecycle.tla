---------------------------- MODULE SHPALifecycle ----------------------------
(***************************************************************************)
(* The life of a SHPA under the controller: its creation, the finalizer,   *)
(* the defaults, the validity check, the endless loop of passes and the    *)
(* deletion (Reconcile in src/controllers/shpa_controller.go and           *)
(* src/controllers/finalizer.go).  reconcileSHPA, which SHPAController     *)
(* models, is one step here: it may save the status, it may fail.          *)
(*                                                                         *)
(* The question of this module is who looks after the SHPA: the watch lets *)
(* only additions, deletions and changes of the spec through               *)
(* (updatePredicate), so everything else depends on the result that each   *)
(* path through Reconcile returns to the work queue.                       *)
(***************************************************************************)
EXTENDS Integers, Sequences, SHPADefaults, ListHelpers

CONSTANTS
    Specs,          \* the specs people write
    Finalizers,     \* the finalizers there are
    Lists,          \* those that people may put on a SHPA, none of them twice
    EditsOfMeta,    \* whether people also edit metadata alone
    MaxEdits,       \* bound: what people do to the SHPA
    MaxFaults       \* bound: failed calls and restarts

shpaFinalizer == "finalizer.dbisshpa.com"

ASSUME SpecsAssumption  == Specs # {} /\ Specs \subseteq SpecType
ASSUME ListsAssumption ==
    /\ shpaFinalizer \in Finalizers
    /\ <<>> \in Lists /\ Lists \subseteq Seq(Finalizers)
    /\ \A fs \in Lists : \A i, j \in 1..Len(fs) : fs[i] = fs[j] => i = j
ASSUME BoundsAssumption ==
    EditsOfMeta \in BOOLEAN /\ MaxEdits \in Nat /\ MaxFaults \in Nat

VARIABLES
    api,        \* the API server's SHPA, or Gone
    watch,      \* its states the cache has not seen yet, oldest first
    cached,     \* the manager's cache
    dirty,      \* the key waits in the work queue
    timer,      \* AddAfter or AddRateLimited will add it
    pc,         \* where the worker is in the pass
    inst,       \* Reconcile's instance
    fresh,      \* the API server still has the version inst was read from
    lost,       \* history: the last pass dropped an error of addFinalizer
    uids, edits, faults

passVars == <<pc, inst, fresh>>
counters == <<uids, edits, faults>>
vars == <<api, watch, cached, dirty, timer, passVars, lost, counters>>

HasFinalizer(obj) == ContainsString(obj.finalizers, shpaFinalizer)

\* The finalizers of other controllers, in their order: the list without its shpaFinalizer.
Others(obj) ==
    LET fs == obj.finalizers IN
    IF ~HasFinalizer(obj) THEN fs
    ELSE LET at == CHOOSE i \in DOMAIN fs : fs[i] = shpaFinalizer
         IN  SubSeq(fs, 1, at - 1) \o SubSeq(fs, at + 1, Len(fs))

\* No such object; also the value of inst while there is no pass.
Gone == [exists |-> FALSE, uid |-> 0, deleting |-> FALSE, finalizers |-> <<>>,
         spec |-> CHOOSE s \in Specs : TRUE, able |-> NoError]

\* Where the pass goes once the finalizer is settled, and before that.
AfterFinalizer(obj) ==
    IF ~IsDefaultSHPA(obj.spec) THEN "default"
    ELSE IF ~Valid(obj.spec) THEN "report"
    ELSE "work"

AtFinalizer(obj) ==
    IF obj.deleting THEN IF HasFinalizer(obj) THEN "remove" ELSE "idle"
    ELSE IF ~HasFinalizer(obj) THEN "add"
    ELSE AfterFinalizer(obj)

-----------------------------------------------------------------------------
(* The API server *)

\* It stores a state of the SHPA and notifies the watch.
Store(obj) == api' = obj /\ watch' = Append(watch, obj)

\* An SHPA marked for deletion goes with its last finalizer.
StoreOrRemove(obj) ==
    Store(IF obj.deleting /\ obj.finalizers = <<>> THEN Gone ELSE obj)

\* Update stores the copy's metadata and spec; status and deletion mark stay.
Update(finalizers, spec) ==
    StoreOrRemove([api EXCEPT !.finalizers = finalizers, !.spec = spec])

Unstored == UNCHANGED <<api, watch>>

-----------------------------------------------------------------------------
(* Ends of a pass *)

\* Result{}: the key is forgotten.
Forget == timer' = timer /\ pc' = "idle" /\ inst' = Gone /\ fresh' = FALSE

\* An error, Requeue or RequeueAfter: the key will be added again.
Requeue == timer' = TRUE /\ pc' = "idle" /\ inst' = Gone /\ fresh' = FALSE

\* A call that carries inst's resourceVersion does not get through: a conflict
\* (or a SHPA that is no more), a rejection, or a success whose answer is lost.
CallFails(stored) ==
    \/ ~fresh /\ Unstored /\ UNCHANGED counters
    \/ /\ fresh /\ faults < MaxFaults
       /\ faults' = faults + 1
       /\ Unstored \/ stored
       /\ UNCHANGED <<uids, edits>>

-----------------------------------------------------------------------------
(* The pass *)

\* A mistake to detect: the copy gets the latest resourceVersion, not the cached one.
VersionRefreshed ==
    /\ pc = "idle" /\ dirty
    /\ dirty' = FALSE
    /\ pc' = IF cached.exists THEN AtFinalizer(cached) ELSE "idle"
    /\ inst' = IF pc' = "idle" THEN Gone ELSE cached
    /\ fresh' = (pc' # "idle" /\ api.exists)
    /\ lost' = FALSE
    /\ UNCHANGED <<api, watch, cached, timer, counters>>

\* The cache has no such SHPA, or nothing is left to do for a deleted one: the
\* pass is over.
Begin ==
    /\ pc = "idle" /\ dirty
    /\ dirty' = FALSE
    /\ pc' = IF cached.exists THEN AtFinalizer(cached) ELSE "idle"
    /\ inst' = IF pc' = "idle" THEN Gone ELSE cached
    /\ fresh' = (pc' # "idle" /\ watch = <<>>)
    /\ lost' = FALSE
    /\ UNCHANGED <<api, watch, cached, timer, counters>>

\* A mistake to detect: a failure to remove the finalizer is swallowed, too.
RemovalErrorDropped ==
    /\ pc = "remove"
    /\ LET removed == Update(RemoveString(inst.finalizers, shpaFinalizer), inst.spec) IN
       \/ fresh /\ removed /\ UNCHANGED counters
       \/ CallFails(removed)
    /\ Forget
    /\ UNCHANGED <<cached, dirty, lost>>

\* handleFinalizer of a SHPA marked for deletion.
RemoveFinalizer ==
    /\ pc = "remove"
    /\ LET removed == Update(RemoveString(inst.finalizers, shpaFinalizer), inst.spec) IN
       \/ fresh /\ removed /\ UNCHANGED counters /\ Forget
       \/ CallFails(removed) /\ Requeue
    /\ UNCHANGED <<cached, dirty, lost>>

\* A mistake to detect: the pass goes on with a finalizer it could not add.
AddFinalizerOptimistic ==
    /\ pc = "add"
    /\ inst' = [inst EXCEPT !.finalizers = Append(@, shpaFinalizer)]
    /\ IF fresh THEN Update(Append(inst.finalizers, shpaFinalizer), inst.spec) ELSE Unstored
    /\ pc' = AfterFinalizer(inst)
    /\ UNCHANGED <<cached, dirty, timer, fresh, lost, counters>>

\* handleFinalizer of any other one: the answer refreshes the copy, and an error
\* ends the pass with the empty result.
AddFinalizer ==
    /\ pc = "add"
    /\ LET added == Update(Append(inst.finalizers, shpaFinalizer), inst.spec) IN
       \/ /\ fresh /\ added
          /\ inst' = [inst EXCEPT !.finalizers = Append(@, shpaFinalizer)]
          /\ pc' = AfterFinalizer(inst)
          /\ UNCHANGED <<timer, fresh, lost, counters>>
       \/ CallFails(added) /\ Forget /\ lost' = TRUE
    /\ UNCHANGED <<cached, dirty>>

\* A mistake to detect: one of the defaults is forgotten.
MinReplicasForgotten ==
    /\ pc = "default"
    /\ LET defaulted == Update(inst.finalizers, [inst.spec EXCEPT !.unset = {}]) IN
       \/ fresh /\ defaulted /\ UNCHANGED counters
       \/ CallFails(defaulted)
    /\ Requeue
    /\ UNCHANGED <<cached, dirty, lost>>

\* The defaults are written, and the next pass reads them.
SetDefaults ==
    /\ pc = "default"
    /\ LET defaulted == Update(inst.finalizers, DefaultSHPA(inst.spec)) IN
       \/ fresh /\ defaulted /\ UNCHANGED counters
       \/ CallFails(defaulted)
    /\ Requeue
    /\ UNCHANGED <<cached, dirty, lost>>

\* A mistake to detect: a failure to report is taken for a report.
ReportOnce ==
    /\ pc = "report"
    /\ LET error    == CheckSHPAValidity(inst.spec)
           reported == Store([api EXCEPT !.able = error])
       IN  \/ inst.able = error /\ Unstored /\ UNCHANGED counters
           \/ inst.able # error /\ fresh /\ reported /\ UNCHANGED counters
           \/ inst.able # error /\ CallFails(reported)
    /\ Forget
    /\ UNCHANGED <<cached, dirty, lost>>

\* An invalid spec is reported in the status, unless it is there already, and the
\* SHPA is left alone until its spec changes.
ReportInvalid ==
    /\ pc = "report"
    /\ LET error    == CheckSHPAValidity(inst.spec)
           reported == Store([api EXCEPT !.able = error])
       IN  \/ inst.able = error /\ Unstored /\ Forget /\ UNCHANGED counters
           \/ inst.able # error /\ fresh /\ reported /\ Forget /\ UNCHANGED counters
           \/ inst.able # error /\ CallFails(reported) /\ Requeue
    /\ UNCHANGED <<cached, dirty, lost>>

\* The pass does not get at the scale.  The condition that Reconcile then sets is on the
\* copy alone.
TargetNotReached == inst.spec.target = "dangling" /\ Unstored /\ UNCHANGED counters

\* A mistake to detect: an error of reconcileSHPA ends the loop.
WorkUntilError ==
    /\ pc = "work"
    /\ LET saved == Store([api EXCEPT !.able = <<"ok">>]) IN
       \/ inst.able = <<"ok">> /\ Unstored /\ Requeue /\ UNCHANGED counters
       \/ fresh /\ saved /\ Requeue /\ UNCHANGED counters
       \/ (TargetNotReached \/ CallFails(saved)) /\ Forget
    /\ UNCHANGED <<cached, dirty, lost>>

\* reconcileSHPA: a pass that gets as far as the status makes AbleToScale tell that
\* the scale was read; it saves that and anything else that is new.  A dangling reference
\* may fail every pass, or be mended when its target appears.
Work ==
    /\ pc = "work"
    /\ LET saved == Store([api EXCEPT !.able = <<"ok">>]) IN
       \/ TargetNotReached
       \/ inst.able = <<"ok">> /\ Unstored /\ UNCHANGED counters
       \/ fresh /\ saved /\ UNCHANGED counters
       \/ CallFails(saved)
    /\ Requeue
    /\ UNCHANGED <<cached, dirty, lost>>

-----------------------------------------------------------------------------
(* The manager *)

\* A mistake to detect: updatePredicate lets no update through.
UpdatesFiltered(new) == new.exists # cached.exists

\* The events that reach the work queue: additions, deletions and, through
\* updatePredicate, changes of the spec.
Enqueues(new) ==
    \/ new.exists # cached.exists
    \/ new.exists /\ new.spec # cached.spec

Deliver ==
    /\ watch # <<>>
    /\ cached' = Head(watch)
    /\ watch' = Tail(watch)
    /\ dirty' = (dirty \/ Enqueues(Head(watch)))
    /\ UNCHANGED <<api, timer, passVars, lost, counters>>

TimerFires ==
    /\ timer
    /\ timer' = FALSE
    /\ dirty' = TRUE
    /\ UNCHANGED <<api, watch, cached, passVars, lost, counters>>

\* The manager restarts and lists the SHPA.
Restart ==
    /\ faults < MaxFaults
    /\ faults' = faults + 1
    /\ cached' = api
    /\ watch' = <<>>
    /\ dirty' = api.exists
    /\ timer' = FALSE
    /\ pc' = "idle" /\ inst' = Gone /\ fresh' = FALSE
    /\ lost' = FALSE
    /\ UNCHANGED <<api, uids, edits>>

-----------------------------------------------------------------------------
(* The people *)

Edit(action) ==
    /\ edits < MaxEdits
    /\ edits' = edits + 1
    /\ fresh' = FALSE
    /\ action
    /\ UNCHANGED <<cached, dirty, timer, pc, inst, lost, faults>>

Create ==
    /\ ~api.exists
    /\ uids' = uids + 1
    /\ \E spec \in Specs, fs \in Lists :
          Edit(Store([Gone EXCEPT !.exists = TRUE, !.uid = uids + 1,
                                  !.finalizers = fs, !.spec = spec]))

EditSpec ==
    /\ api.exists
    /\ \E spec \in Specs \ {api.spec} : Edit(Store([api EXCEPT !.spec = spec]))
    /\ UNCHANGED uids

\* Labels and annotations, which only make a new version here, and the finalizers of
\* others, of which a SHPA marked for deletion gets no more.
EditMetadata ==
    /\ api.exists /\ EditsOfMeta
    /\ \E fs \in Lists \union {api.finalizers} :
          /\ ContainsString(fs, shpaFinalizer) = HasFinalizer(api)
          /\ api.deleting => fs = api.finalizers
          /\ Edit(Store([api EXCEPT !.finalizers = fs]))
    /\ UNCHANGED uids

Delete ==
    /\ api.exists /\ ~api.deleting
    /\ Edit(StoreOrRemove([api EXCEPT !.deleting = TRUE]))
    /\ UNCHANGED uids

\* The other controllers take their finalizers off a SHPA marked for deletion.
ForeignFinalizersGo ==
    /\ api.deleting /\ Others(api) # <<>>
    /\ StoreOrRemove([api EXCEPT !.finalizers =
                        IF HasFinalizer(api) THEN <<shpaFinalizer>> ELSE <<>>])
    /\ fresh' = FALSE
    /\ UNCHANGED <<cached, dirty, timer, pc, inst, lost, counters>>

-----------------------------------------------------------------------------
(* The specification *)

Init ==
    /\ api = Gone /\ watch = <<>> /\ cached = Gone
    /\ dirty = FALSE /\ timer = FALSE
    /\ pc = "idle" /\ inst = Gone /\ fresh = FALSE
    /\ lost = FALSE
    /\ uids = 0 /\ edits = 0 /\ faults = 0

Pass == Begin \/ RemoveFinalizer \/ AddFinalizer \/ SetDefaults \/ ReportInvalid \/ Work

Next ==
    \/ Pass \/ Deliver \/ TimerFires \/ Restart
    \/ Create \/ EditSpec \/ EditMetadata \/ Delete \/ ForeignFinalizersGo

Spec == Init /\ [][Next]_vars

\* The worker, the watch, the timer and the other controllers keep going.
Fairness == WF_vars(Pass) /\ WF_vars(Deliver) /\ WF_vars(TimerFires)
            /\ WF_vars(ForeignFinalizersGo)

FairSpec == Spec /\ Fairness

-----------------------------------------------------------------------------
(* Properties *)

Objects == [exists : BOOLEAN, uid : Nat, deleting : BOOLEAN,
            finalizers : Seq(Finalizers),
            spec : Specs \union {DefaultSHPA(s) : s \in Specs},
            able : Errors \union {<<"ok">>}]

\* Every variable has its type.
TypeOK ==
    /\ api \in Objects /\ cached \in Objects /\ inst \in Objects /\ watch \in Seq(Objects)
    /\ dirty \in BOOLEAN /\ timer \in BOOLEAN /\ fresh \in BOOLEAN /\ lost \in BOOLEAN
    /\ pc \in {"idle", "remove", "add", "default", "report", "work"}
    /\ uids \in Nat /\ edits \in Nat /\ faults \in Nat

\* The target of a SHPA that is still there is never scaled before the API server
\* holds the finalizer, so deleting the SHPA waits for the controller.
WorksBehindFinalizer ==
    pc = "work" /\ api.exists /\ api.uid = inst.uid => HasFinalizer(api)

\* Its updates carry the whole object, read from a cache that lags: still they leave the
\* finalizers of other controllers as they are, in their order.
OthersFinalizersStay == [][pc' # pc => Others(api') = Others(api)]_vars

\* The controller's updates never undo what people wrote: the spec is changed by
\* people, or from what they wrote to its defaulted form.
OnlyDefaultsAreWritten ==
    [][api.exists /\ api'.exists /\ api'.spec # api.spec /\ edits' = edits =>
          api'.spec = DefaultSHPA(api.spec)]_vars

\* A status tells about the spec it is stored with: an error that is written names
\* what is wrong with the stored spec, and none is withdrawn before it is right.
StatusIsOfStoredSpec ==
    [][api.exists /\ api'.exists /\ api'.uid = api.uid /\ api'.able # api.able =>
          IF Valid(api.spec) THEN api'.able = <<"ok">>
          ELSE api'.able = CheckSHPAValidity(api.spec)]_vars

\* Nobody will look at the SHPA again unless a person touches it.
Unattended == pc = "idle" /\ ~dirty /\ ~timer /\ watch = <<>>

\* Unless the last pass dropped an error of addFinalizer, the controller leaves a SHPA
\* alone only when it is gone, when it is marked for deletion and rid of the
\* controller's finalizer, or when its invalid spec has been reported.
LeftAloneWhenDone ==
    Unattended /\ ~lost =>
       \/ ~api.exists
       \/ api.deleting /\ ~HasFinalizer(api)
       \/ /\ IsDefaultSHPA(api.spec) /\ ~Valid(api.spec)
          /\ api.able = CheckSHPAValidity(api.spec)

Present == api.exists /\ ~api.deleting

\* Once people stop, a SHPA's status ends up telling what is wrong with its spec,
\* or that nothing is, unless the error of addFinalizer left it unattended.  While its
\* passes do not get at a scale, a valid SHPA keeps whatever status it had.
StatusSettles ==
    <>[](Present /\ ~lost =>
            /\ IsDefaultSHPA(api.spec)
            /\ ~Valid(api.spec) => api.able = CheckSHPAValidity(api.spec)
            /\ Valid(api.spec) /\ api.spec.target = "resolved" => api.able = <<"ok">>)

\* A SHPA with a valid spec is worked on again and again, with the same exception.
WorkedOnForever ==
    []<>(Present /\ Valid(DefaultSHPA(api.spec)) =>
            lost \/ (pc = "work" /\ inst.uid = api.uid))


\* It does so for a SHPA with a valid spec, with the same exception.
ValidDeletionCompletes ==
    []((api.deleting /\ HasFinalizer(api)) =>
         <>(\/ ~HasFinalizer(api)
            \/ lost \/ ~Valid(DefaultSHPA(api.spec))))

\* addFinalizer's purpose: a SHPA that stays gets the finalizer.
FinalizerAppears == <>[](Present => HasFinalizer(api))
=============================================================================
