------------------------------- MODULE Readiness -------------------------------
(***************************************************************************)
(* The booking-readiness preview: packages/shared/src/journeys/readiness.ts*)
(* and rule-snapshot.ts, and what journey.service.ts feeds them.           *)
(*                                                                         *)
(* A configuration c is looked at under the facts f of the moment: today,  *)
(* the active stations, the passengers still saved, whether an IRCTC user  *)
(* ID is there, the stops of the trains that are known, and the rules in   *)
(* force.  Wording is left out: an item has a key and a status.            *)
(***************************************************************************)
EXTENDS Integers, Sequences, FiniteSets

CONSTANTS
    NoStation, NoDate,
    NoRule,                \* a rule that is not configured
    General, TatkalQuota,  \* the quotas: GENERAL, and those of TATKAL_QUOTAS
    Senior,                \* passengers who opted in to the concession
    NameLength             \* of each passenger

Elems(s) == {s[i] : i \in 1..Len(s)}

\* JOURNEY_RULE_KEYS.
RuleKey == {"tatkal.max", "general.max", "name.max", "senior", "ac_classes", "non_ac_classes",
            "ac.opening", "non_ac.opening", "advance_days", "timezone"}

PassengerLimitRuleKey(q) == IF q \in TatkalQuota THEN "tatkal.max" ELSE "general.max"

\* Available on a Tatkal quota only if a verified rule says so.
SeniorConcession(q, R) ==
    IF q \notin TatkalQuota THEN "NOT_APPLICABLE"
    ELSE IF R["senior"] # NoRule /\ R["senior"].verified /\ R["senior"].value
    THEN "AVAILABLE" ELSE "UNAVAILABLE"

Lists(R, k, x) == IF R[k] = NoRule THEN FALSE ELSE x \in R[k].value

ClassTatkalCategory(x, R) ==
    IF Lists(R, "ac_classes", x) THEN "AC"
    ELSE IF Lists(R, "non_ac_classes", x) THEN "NON_AC" ELSE "UNKNOWN"

Categories(c, R) == {ClassTatkalCategory(x, R) : x \in Elems(c.classes)}

\* Fault: a class nobody has listed needs no rule.
RelevantRuleKeys_known(c, R) ==
    {PassengerLimitRuleKey(c.quota), "name.max"} \cup
    IF c.quota \notin TatkalQuota THEN {}
    ELSE {"advance_days", "timezone"}
         \cup (IF "AC" \in Categories(c, R) THEN {"ac_classes", "ac.opening"} ELSE {})
         \cup (IF "NON_AC" \in Categories(c, R) THEN {"non_ac_classes", "non_ac.opening"} ELSE {})

\* The rules a journey relies on.
RelevantRuleKeys(c, R) ==
    {PassengerLimitRuleKey(c.quota), "name.max"} \cup
    IF c.quota \notin TatkalQuota THEN {}
    ELSE {"advance_days", "timezone", "ac_classes"}
         \cup (IF "AC" \in Categories(c, R) THEN {"ac.opening"} ELSE {})
         \cup (IF "NON_AC" \in Categories(c, R) THEN {"non_ac.opening"} ELSE {})
         \cup (IF Categories(c, R) \cap {"NON_AC", "UNKNOWN"} # {} THEN {"non_ac_classes"} ELSE {})
         \cup (IF Elems(c.passengers) \cap Senior # {} THEN {"senior"} ELSE {})

Settled(R, k) == IF R[k] = NoRule THEN FALSE ELSE R[k].verified /\ ~R[k].due

\* servesRoute, for a train whose stops are known: from before to.
ServesRoute(stops, from, to) == \E i, j \in 1..Len(stops) : i < j /\ stops[i] = from /\ stops[j] = to

OffRoute(c, f) ==
    LET from == IF c.boarding = NoStation THEN c.from ELSE c.boarding
    IN {t \in Elems(c.trains) \cap DOMAIN f.stops : ~ServesRoute(f.stops[t], from, c.to)}

\* buildRuleSnapshot keeps the version and the verification status of each rule,
\* NoRule if there is none.
BuildRuleSnapshot(R) == [k \in RuleKey |-> IF R[k] = NoRule THEN NoRule ELSE <<R[k].id, R[k].status>>]

\* changedRuleKeys: against the rules in force.
ChangedRuleKeys(S, R) == {k \in RuleKey : S[k] # BuildRuleSnapshot(R)[k]}

Judge(bad, worse, good) == IF bad THEN worse ELSE good

\* computeReadiness: the status of each item, "" where there is no item.
ComputeReadiness(c, f, S) ==
    LET R == f.rules
        limit  == R[PassengerLimitRuleKey(c.quota)]
        people == Elems(c.passengers)
        tatkal == c.quota \in TatkalQuota
        Some(status) == IF people = {} THEN "" ELSE status
    IN [ route |-> Judge(\/ {c.from, c.to, c.boarding} \ (f.active \cup {NoStation}) # {}
                         \/ c.from = NoStation \/ c.to = NoStation \/ c.from = c.to, "FAIL", "PASS"),
         journey_date |-> IF c.date = NoDate THEN "" ELSE Judge(c.date < f.today, "FAIL", "PASS"),
         passengers |-> Judge(people = {}, "FAIL", "PASS"),
         passenger_details |-> Some(Judge(people \ f.alive # {}, "WARN", "PASS")),
         passenger_names |-> Some(
             IF R["name.max"] = NoRule THEN "WARN"
             ELSE Judge(\E p \in people : NameLength[p] > R["name.max"].value, "FAIL", "PASS")),
         passenger_count |-> IF limit = NoRule THEN "WARN"
                             ELSE Judge(Len(c.passengers) > limit.value, "FAIL", "PASS"),
         senior_concession |-> IF people \cap Senior # {} /\ SeniorConcession(c.quota, R) = "UNAVAILABLE"
                               THEN "INFO" ELSE "",
         irctc_account |-> Judge(~f.linked, "FAIL", "PASS"),
         classes |-> Judge(c.classes = <<>>, "FAIL", "PASS"),
         class_rules |-> IF tatkal /\ c.classes # <<>>
                         THEN Judge("UNKNOWN" \in Categories(c, R), "WARN", "PASS") ELSE "",
         trains |-> IF c.trains = <<>> /\ ~c.any THEN "FAIL"
                    ELSE Judge(OffRoute(c, f) # {}, "WARN", "PASS"),
         rules_verified |-> Judge(\E k \in RelevantRuleKeys(c, R) : ~Settled(R, k), "WARN", "PASS"),
         rules_changed |-> IF ChangedRuleKeys(S, R) = {} THEN "" ELSE "INFO" ]

\* Fault: warnings do not count.
Overall_failOnly(report) ==
    IF \E k \in DOMAIN report : report[k] = "FAIL" THEN "NOT_READY" ELSE "READY"

Overall(report) ==
    LET is == {report[k] : k \in DOMAIN report}
    IN IF "FAIL" \in is THEN "NOT_READY" ELSE IF "WARN" \in is THEN "WARNING" ELSE "READY"
=============================================================================
