--------------------------------- MODULE Desk ---------------------------------
(***************************************************************************)
(* The panels and pages of the dashboard that act on one thing each: the   *)
(* whitelist of a database, its storage and compute, the API keys, the     *)
(* allowed addresses, the profile, billing, backups, browsing, and the way *)
(* in.  They share no state, so that a behaviour of Desk is about one of   *)
(* them: the user leaves it, with requests under way, and comes back.      *)
(***************************************************************************)
EXTENDS AllowedIPs, StoragePanel, KeysPanel, ProfilePanel, BillingPage, BackupsPage,
        BrowsePage, SignInPages

Areas == {Whitelist, Addons, Keys, Profile, Billing, Backups, Browse}
AwayFrom == {a.page : a \in Areas} \cup {"allowedIPs", "session"}

Init ==
    /\ view \in [page : {"away"}, back : AwayFrom]
    /\ calls = [i \in Slots |-> NoCall]
    /\ server = [entries |-> {}, ips |-> {}, gb |-> 0, cu |-> 0, autoscale |-> FALSE,
                 tier |-> 0, payment |-> [tier |-> 0, status |-> "none"], cookie |-> None]
    /\ cache = None
    /\ told = [lost |-> FALSE]
    /\ faults = MaxFaults

Leave ==
    /\ view.page \in AwayFrom
    /\ Open([page |-> "away", back |-> view.page])
    /\ UNCHANGED <<server, cache, told, faults>>

Return ==
    /\ view.page = "away"
    /\ \E a \in Areas : view.back = a.page /\ Open(a)
    /\ UNCHANGED <<server, cache, told, faults>>

Answers(i) ==
    \/ WhitelistAnswers(i) \/ IPsAnswered(i) \/ AddonAnswered(i) \/ KeyTimers(i) \/ Saved(i)
    \/ BillingAnswers(i) \/ RestoreAnswered(i) \/ SessionAnswers(i)

Api(i) ==
    \/ WhitelistApi(i) \/ ServeIPs(i) \/ ServeAddon(i) \/ RefuseAddon(i)
    \/ BillingApi(i) \/ ServeRestore(i) \/ SessionApi(i)

Next ==
    \/ WhitelistSteps \/ AllowedSteps \/ AddonSteps \/ KeySteps \/ ProfileSteps
    \/ BillingSteps \/ BackupSteps \/ BrowseSteps \/ SessionSteps
    \/ Leave \/ Return
    \/ \E i \in Slots : Answers(i) \/ Api(i) \/ Fail(i)

\* A request is carried out and its answer handled; at each moment one of the
\* two can happen.  So it is with what a page does by itself.
Fairness ==
    /\ \A i \in Slots : WF_vars(Api(i) \/ Answers(i))
    /\ WF_vars(AuthGuard \/ useSession)

Spec == Init /\ [][Next]_vars
FairSpec == Spec /\ Fairness
-----------------------------------------------------------------------------
Ops == {"none", "detect", "addEntry", "removeEntry", "makeKey", "revokeKey", "saveProfile",
        "pay", "confirm", "restore", "signIn", "signOut"} \cup ListOps \cup AddonOps \cup Routes

TypeOK ==
    /\ view \in WhitelistViews \cup AllowedViews \cup AddonViews \cup KeyViews
                \cup ProfileViews \cup BillingViews \cup BackupViews \cup BrowseViews
                \cup SessionViews \cup [page : {"away"}, back : AwayFrom]
    /\ \A i \in Slots : /\ DOMAIN calls[i] = DOMAIN NoCall
                        /\ calls[i].op \in Ops
                        /\ calls[i].stage \in {"sent", "ok", "failed"}
                        /\ calls[i].try \in 1 .. Attempts(calls[i].op)
                        /\ calls[i].live \in BOOLEAN /\ calls[i].watched \in BOOLEAN
    /\ server \in [entries : SUBSET Cidrs, ips : SUBSET Cidrs, gb : 0 .. MaxAmount,
                   cu : 0 .. MaxAmount, autoscale : BOOLEAN, tier : 0 .. MaxTier,
                   payment : [tier : 0 .. MaxTier, status : Paying \cup {"none"}],
                   cookie : Users \cup {None}]
    /\ cache = None
    /\ told \in [lost : BOOLEAN]
    /\ faults \in 0 .. MaxFaults

Quiet(ops) == \A op \in ops : UnderWay(op) = {}
-----------------------------------------------------------------------------
\* The list of allowed addresses is the one the API has, after any request that
\* was answered well with no other beside it: whatever earlier ones did to the
\* list, which cross, fail or are heard out of order, and those that a visit
\* left behind (AllowedIPs.tsx).
AllowedListIsTrue ==
    (OnAllowed /\ view.trust = "true") => view.ips = server.ips

\* "No databases are accessible through vtgate for this user" is never said of a
\* user who has some by turning pages, of whatever size: only the page size
\* changed on a later page leads there, and then no button turns the page
\* (BrowseData.tsx).
EmptyIsTrue ==
    SaysEmpty => Schemas = 0 \/ view.resized

\* An address that the user typed is replaced by a detected one only after the
\* dialog has been closed on a detection under way (handleUseCurrentIp).
TypedIsKept ==
    [][\A i \in Slots : (Detected(i) /\ Adding /\ ~view.reopened /\ view'.cidr # view.cidr)
                            => view.detecting]_vars

\* Autoscaling is as the switch has it, after any setting the card sent that was
\* answered well with no other beside it.  A card mounted anew, after an error of
\* the usage, has sent none (StorageCard.tsx, handleApply and the switch).
SwitchIsTrue ==
    (OnAddons /\ view.trust = "true") => server.autoscale = view.autoscale

\* "This is the only time you will see the key": a key that exists is on the
\* screen, has been, or will be when the dialog is opened again, unless two
\* were made together (ApiKeys.tsx).
SecretKept ==
    OnKeys => \A k \in KeyIds : (view.status[k] # "none" /\ k \notin view.seen /\ ~view.crossed)
                                    => view.created = k

\* The form that restores a database, and its range, are made of that
\* database's backups once they are loaded, unless requests for two databases
\* crossed or one failed (backups/page.tsx).
RangeIsOfSelected ==
    (RestoreForm /\ ~view.crossed /\ view.asked = {} /\ faults = MaxFaults)
        => \A l \in Lists : view.of[l] = view.db

\* Where a page of the dashboard is shown, it is shown to the user whose cookie
\* the browser has, once nothing is under way, unless another tab changed it or
\* an answer was lost (AuthGuard.tsx, auth.tsx).
ShownIsTheirs ==
    (Shown /\ ~view.other /\ ~told.lost /\ Quiet({"signIn", "signOut"}))
        => view.session = server.cookie

\* What waits stops waiting: the buttons that add an address, make a key, save
\* the profile, pay, restore and sign in, and a page of the dashboard that is
\* not shown yet.
Waiting ==
    \/ OnAllowed /\ view.adding
    \/ OnKeys /\ view.creating
    \/ OnProfile /\ view.saving
    \/ OnBilling /\ view.upgrading # None
    \/ OnBackups /\ view.restoring
    \/ OnSession /\ view.loading
    \/ Guarded /\ ~Shown

WaitingEnds == Waiting ~> ~Waiting
=============================================================================
