-------------------------------- MODULE Lookup --------------------------------
(***************************************************************************)
(* handle_get_card and handle_get_user: one request, and what the answer    *)
(* says is printed.  The caches are empty when the request is made and not  *)
(* asked again, so they make no difference.                                *)
(***************************************************************************)
EXTENDS CommandLine, CardJson, CardDate

CONSTANTS
    CardAnswers,  \* bodies the server may send for a card: its fields, and the
                  \* stamp that is its "created"
    UserAnswers,  \* the same for a user, without a stamp
    Garbled       \* a body that is not JSON

\* A stamp is a date of the calendar.
ASSUME LookupAssumption == \A body \in CardAnswers : IsStamp(body.stamp)

VARIABLES
    numeric,  \* the argument is a number, as get-user requires
    answer,   \* the body that comes with status 200
    shown,    \* what is printed: for each field its value or a default; or None
    created   \* the date printed as "created", or None for the epoch

lookupVars == <<numeric, answer, shown, created>>

LookupModes == {"get-card", "get-user"}

LookupInit ==
    /\ numeric \in BOOLEAN
    /\ answer \in {Garbled} \cup (CASE mode = "get-card" -> CardAnswers
                                   [] mode = "get-user" -> UserAnswers
                                   [] OTHER -> {})
    /\ shown = None
    /\ created = None

\* std::stoll throws, and the handler catches it.
NotANumber ==
    /\ mode = "get-user" /\ ~numeric
    /\ exit' = Failure
    /\ UNCHANGED lookupVars

MayAsk == mode = "get-user" => numeric

\* Another status than 200, or none.
NotFound ==
    /\ MayAsk
    /\ exit' = Failure
    /\ UNCHANGED lookupVars

\* Status 200.  A body that does not parse is an empty card.
CardFound ==
    /\ mode = "get-card"
    /\ shown' = IF answer = Garbled \/ Throws(answer.fields)
                THEN EmptyCard ELSE FromJson(answer.fields)
    /\ created' = IF shown'["created"] = "value"
                  THEN ToIso8601(Parse(answer.stamp)) ELSE None
    /\ exit' = Success
    /\ UNCHANGED <<numeric, answer>>

\* Status 200.
UserFound ==
    /\ mode = "get-user" /\ numeric
    /\ shown' = IF answer = Garbled THEN EmptyUser ELSE UserFromJson(answer.fields)
    /\ exit' = Success
    /\ UNCHANGED <<numeric, answer, created>>

LookupStep == NotANumber \/ NotFound \/ CardFound \/ UserFound

---------------------------------------------------------------------------
(* Properties. *)

\* After exit status 0 a card's fields are printed as the server has them, if they are
\* in their proper form.  One that is not hides all the others, an empty card being
\* printed, only when it is a date of the card, its board or lane, or a list of parents
\* or ids.  ("type", which is an object there, is never shown.)  Of a user no field
\* hides another, but "created" and "updated" are printed as 1970, whatever the server
\* has sent.
ShownAsSent ==
    exit = Success /\ answer # Garbled =>
        /\ mode = "get-card" =>
              \/ \A f \in CardFields : answer.fields[f] \in Proper(f) => shown[f] = "value"
              \/ /\ shown = EmptyCard
                 /\ \E f \in Fragile : answer.fields[f] \notin Proper(f)
        /\ mode = "get-user" =>
              /\ \A f \in UserFields \ UserDates :
                    answer.fields[f] \in ProperForUser(f) => shown[f] = "value"
              /\ \A f \in UserDates : shown[f] = "default"

\* The instant that is printed is the one the server meant, in UTC, whatever its
\* zone, across the ends of days, months and years.
PrintedInstant == created # None => created = InGreenwich(answer.stamp)
=============================================================================
