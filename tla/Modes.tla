-------------------------------- MODULE Modes --------------------------------
(***************************************************************************)
(* main: the process runs the mode its options ask for, and ends.           *)
(***************************************************************************)
EXTENDS CardCreation, Listing, CardsFilter, Lookup

FilterModes == {"cards-filter"}

ASSUME ModesAssumption ==
    Modes \subseteq CreationModes \cup ListingModes \cup FilterModes \cup LookupModes

allVars == <<mode, exit, creationVars, listingVars, filterVars, lookupVars>>

\* What belongs to other modes than the one that runs is left at a default.
Init ==
    /\ mode \in Modes
    /\ IF mode \in CreationModes THEN TRUE ELSE backlog = Unreadable
    /\ CreationInit
    /\ mode \notin CreationModes => cache.enabled
    /\ IF mode \in ListingModes THEN TRUE ELSE initial = 0
    /\ ListingInit
    /\ IF mode \in FilterModes THEN TRUE ELSE filters = <<>> /\ fetch_list = <<>>
    /\ FilterInit
    /\ IF mode = "get-user" THEN TRUE ELSE numeric = FALSE
    /\ LookupInit

\* The process has ended.
Ended == exit # Running /\ UNCHANGED allVars

InCreation(step) ==
    /\ mode \in CreationModes /\ exit = Running
    /\ step
    /\ UNCHANGED <<mode, listingVars, filterVars, lookupVars>>

InListing(step) ==
    /\ mode \in ListingModes /\ exit = Running
    /\ step
    /\ UNCHANGED <<mode, creationVars, filterVars, lookupVars>>

InFilter(step) ==
    /\ mode \in FilterModes /\ exit = Running
    /\ step
    /\ UNCHANGED <<mode, creationVars, listingVars, lookupVars>>

InLookup(step) ==
    /\ mode \in LookupModes /\ exit = Running
    /\ step
    /\ UNCHANGED <<mode, creationVars, listingVars, filterVars>>

Next ==
    \/ InCreation(CreationNext)
    \/ InListing(ListingNext)
    \/ InFilter(FilterStep)
    \/ InLookup(LookupStep)
    \/ Ended

Spec == Init /\ [][Next]_allVars

\* Every request returns (it is answered or fails) and every thread runs on.
Fairness ==
    /\ WF_allVars(InCreation(CreationStep))
    /\ WF_allVars(InListing(ListingStep))
    /\ WF_allVars(InFilter(FilterStep))
    /\ WF_allVars(InLookup(LookupStep))

FairSpec == Spec /\ Fairness

\* Every mode comes to its end, whatever fails and however the list changes.
ModeEnds == <>(exit # Running)
=============================================================================
