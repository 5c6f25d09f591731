------------------------------ MODULE CardJson ------------------------------
(***************************************************************************)
(* from_json for cards and users.  An answer of the server (external) is    *)
(* the function from the fields to the kind of JSON value each of them has;  *)
(* reading a field gives its value, gives a default, or throws.  The values *)
(* themselves are copied and left out; a number that does not fit its type  *)
(* is a "text".                                                            *)
(***************************************************************************)
EXTENDS Integers

Strings == {"numeral", "stamp", "empty", "text"}

\* "stamp" is a date that parses, "numeral" another string that begins with a
\* number; an "odd" object or array has something inside that does not convert.
Kinds == {"absent", "null", "bool", "number", "object", "odd object", "array", "odd array"}
            \cup Strings

NumberFields ==
    {"id", "version", "board_id", "column_id", "lane_id", "owner_id", "type_id", "space_id",
     "sprint_id", "service_id", "depends_on_card_id", "import_id", "size", "condition",
     "cardRole", "comments_total", "children_count", "children_done", "goals_done",
     "goals_total", "estimate_workload", "time_spent_sum", "time_blocked_sum", "sort_order",
     "fifo_order"}
FlagFields ==
    {"archived", "asap", "blocked", "blocking_card", "description_filled",
     "due_date_time_present", "expires_later", "has_access_to_space",
     "has_blocked_children", "locked", "public", "sd_new_comment"}
TextFields ==
    {"number", "title", "uid", "type", "description", "state", "source", "email",
     "size_text", "size_unit", "share_id", "fts_version"}
DateFields ==
    {"created", "updated", "column_changed_at", "lane_changed_at", "last_moved_at",
     "last_moved_to_done_at", "first_moved_to_in_progress_at", "completed_at",
     "counters_recalculated_at", "comment_last_added_at"}
PlaceFields == {"board", "lane"}
ObjectFields == {"column", "owner", "card_permissions"}
ListFields == {"members", "tags", "external_links", "files", "children"}
StrictListFields == {"parents", "parents_ids", "children_ids"}
JsonFields ==
    {"properties", "share_settings", "children_number_properties_sum",
     "parent_checklist_ids", "external_id", "external_user_emails",
     "calculated_planned_end", "calculated_planned_start", "planned_end",
     "planned_start", "completed_on_time"}

CardFields ==
    NumberFields \cup FlagFields \cup TextFields \cup DateFields \cup PlaceFields
        \cup ObjectFields \cup ListFields \cup StrictListFields \cup JsonFields

\* The value when the kind is one of these, else the default.
ValueIf(kind, kinds) == IF kind \in kinds THEN "value" ELSE "default"

\* Mutant: the exception of std::stoll is not caught.
ReadNumberUncaught(kind) ==
    IF kind \in {"empty", "text"} THEN "throws"
    ELSE ValueIf(kind, {"number", "numeral", "stamp"})

\* get_numeric_optional: std::stoll takes the number a string begins with.
ReadNumber(kind) == ValueIf(kind, {"number", "numeral", "stamp"})

\* get_optional<bool>, get_optional<std::string>.
ReadFlag(kind) == ValueIf(kind, {"bool"})
ReadText(kind) == ValueIf(kind, Strings)

\* Card_date's from_json; the empty string is the default date.
ReadDate(kind) ==
    IF kind \in {"absent", "null", "empty"} THEN "default"
    ELSE IF kind = "stamp" THEN "value" ELSE "throws"

\* Column, User, Card_permissions: what is no object has no fields.
ReadObject(kind) == ValueIf(kind, {"object", "odd object"})

\* Board, Lane: their external_id must be a string.
ReadPlace(kind) == IF kind = "odd object" THEN "throws" ELSE ValueIf(kind, {"object"})

\* Arrays of objects that are read leniently, and of JSON; a value that is not an
\* array is ignored.
ReadList(kind) == ValueIf(kind, {"array", "odd array"})

\* Parent_card with its dates and ids; arrays of numbers.
ReadStrictList(kind) == IF kind = "odd array" THEN "throws" ELSE ValueIf(kind, {"array"})

ReadJson(kind) == ValueIf(kind, Kinds \ {"absent", "null"})

\* The text of a "type" that is an object is empty: the name read from the object
\* is overwritten by the read of the text.
ReadField(f, kind) ==
    CASE f \in NumberFields -> ReadNumber(kind)
      [] f \in FlagFields -> ReadFlag(kind)
      [] f \in TextFields -> ReadText(kind)
      [] f \in DateFields -> ReadDate(kind)
      [] f \in PlaceFields -> ReadPlace(kind)
      [] f \in ObjectFields -> ReadObject(kind)
      [] f \in ListFields -> ReadList(kind)
      [] f \in StrictListFields -> ReadStrictList(kind)
      [] f \in JsonFields -> ReadJson(kind)

\* Card {}.
EmptyCard == [f \in CardFields |-> "default"]

Throws(card) == \E f \in CardFields : ReadField(f, card[f]) = "throws"

\* from_json of a card that does not throw.
FromJson(card) == [f \in CardFields |-> ReadField(f, card[f])]

---------------------------------------------------------------------------
(* Users: what does not convert is a default, and nothing throws. *)

UserNumbers == {"id", "ui_version", "card_id", "type"}
UserFlags == {"activated", "virtual"}
UserTexts ==
    {"uid", "full_name", "email", "username", "avatar_type", "avatar_uploaded_url",
     "avatar_initials_url", "theme", "lng", "timezone"}

\* They are printed and from_json does not read them.
UserDates == {"created", "updated"}

UserFields == UserNumbers \cup UserFlags \cup UserTexts \cup UserDates

\* User {}.
EmptyUser == [f \in UserFields |-> "default"]

UserFromJson(user) ==
    [f \in UserFields |->
        CASE f \in UserNumbers -> ReadNumber(user[f])
          [] f \in UserFlags -> ReadFlag(user[f])
          [] f \in UserTexts -> ReadText(user[f])
          [] f \in UserDates -> "default"]

---------------------------------------------------------------------------
(* What the server sends when nothing is odd. *)

Proper(f) ==
    CASE f \in NumberFields -> {"number"}
      [] f \in FlagFields -> {"bool"}
      [] f \in TextFields -> Strings
      [] f \in DateFields -> {"stamp"}
      [] f \in PlaceFields \cup ObjectFields -> {"object"}
      [] f \in ListFields \cup StrictListFields -> {"array"}
      [] f \in JsonFields -> Kinds \ {"absent", "null"}

ProperForUser(f) ==
    CASE f \in UserNumbers -> {"number"}
      [] f \in UserFlags -> {"bool"}
      [] f \in UserTexts -> Strings
      [] f \in UserDates -> {"stamp"}

\* The fields that can make a card unreadable.
Fragile == DateFields \cup PlaceFields \cup StrictListFields
=============================================================================
