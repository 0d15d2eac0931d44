-------------------------- MODULE StatementSelection --------------------------
(***************************************************************************)
(* Which annual statements a valuation is computed from                    *)
(* (app/normalization.py).  The provider answers one list per statement    *)
(* endpoint; a period counts when every endpoint has it, the records       *)
(* agree, and no record of another period is mixed in.                     *)
(*                                                                         *)
(* A record keeps what the selection reads: whether it is an annual record *)
(* with a date (annual), the date, the fiscal year and currency it may     *)
(* leave out, and its filing rank (accepted).  The eight amounts taken     *)
(* from the selected records are one bit, sound: present, finite and of    *)
(* the sign the valuation needs.                                           *)
(***************************************************************************)
EXTENDS Naturals, Sequences, FiniteSetsExt

CONSTANT Statements  \* the statement endpoints

(* A field the provider left out. *)
NoYear     == 0
NoCurrency == ""

AnnualDates(list) == {r.date : r \in {list[i] : i \in {j \in DOMAIN list : list[j].annual}}}

Candidates(list, date) == {i \in DOMAIN list : list[i].annual /\ list[i].date = date}

(* acceptedDate and filingDate rank a filing; the earlier position wins ties. *)
Outranks(list, i, j) ==
    \/ list[i].accepted > list[j].accepted
    \/ list[i].accepted = list[j].accepted /\ i < j

Chosen(list, date) ==
    list[CHOOSE i \in Candidates(list, date) :
            \A j \in Candidates(list, date) \ {i} : Outranks(list, i, j)]

CompatibleDates(lists) ==
    {date \in UNION {AnnualDates(lists[s]) : s \in Statements} :
        \A s \in Statements : date \in AnnualDates(lists[s])}

Years(lists, date) == {Chosen(lists[s], date).year : s \in Statements} \ {NoYear}

Currencies(lists, date) == {Chosen(lists[s], date).currency : s \in Statements} \ {NoCurrency}

(* One fiscal year at most is named, and no currency but the profile's. *)
Agree(lists, profile, date) ==
    /\ Cardinality(Years(lists, date)) <= 1
    /\ Currencies(lists, date) \subseteq {profile.currency}

(* Faulty variant: only periods that every endpoint has count as newer. *)
NewerDatesOfAll(lists, date) == {later \in CompatibleDates(lists) : later > date}

NewerDates(lists, date) ==
    {later \in UNION {AnnualDates(lists[s]) : s \in Statements} : later > date}

(* Faulty variant: an incomplete newer period spoils the older ones. *)
ValidDatesOfNewest(lists, profile) ==
    {date \in CompatibleDates(lists) :
        Agree(lists, profile, date) /\ NewerDates(lists, date) = {}}

ValidDates(lists, profile) ==
    {date \in CompatibleDates(lists) : Agree(lists, profile, date)}

AcceptedAt(lists, date) == Max({Chosen(lists[s], date).accepted : s \in Statements})

(* How a fetch may end.  date and accepted are 0 unless statements were     *)
(* selected; flagged is the warning that a newer annual period was          *)
(* incomplete.                                                              *)
Outcome(kind, date, accepted, flagged) ==
    [kind |-> kind, date |-> date, accepted |-> accepted, flagged |-> flagged]

Refused(kind) == Outcome(kind, 0, 0, FALSE)

Selected(lists, date) ==
    Outcome("ok", date, AcceptedAt(lists, date), NewerDates(lists, date) # {})

(* normalize_fmp_fundamentals: the sector gate, the selection, and only     *)
(* then the amounts - an older sound period never stands in for a newest    *)
(* one that lacks an amount.                                                *)
Normalize(lists, profile) ==
    LET valid == ValidDates(lists, profile)
        date  == Max(valid)
    IN  IF profile.financial THEN Refused("unsupported_sector")
        ELSE IF valid = {} THEN Refused("normalization_error")
        ELSE IF /\ profile.currency # NoCurrency
                /\ \A s \in Statements : Chosen(lists[s], date).sound
             THEN Selected(lists, date)
             ELSE [Selected(lists, date) EXCEPT !.kind = "normalization_error"]

=============================================================================
