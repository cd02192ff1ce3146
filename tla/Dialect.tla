------------------------------- MODULE Dialect -------------------------------
(***************************************************************************)
(* taskweave_dialect: how the target of a Field is validated               *)
(* (validate_rule.py, regex_inspector.py), how a line is parsed by the     *)
(* fields of an extractor (line_extractor.py, field.py), and what          *)
(* Diagnostics makes of the result (diagnostics.py).                       *)
(*                                                                         *)
(* A target is a sequence of tokens: literals, the brackets and bars of    *)
(* regular expressions, and the same characters with a backslash before    *)
(* them ("\\(" and so on).  Whitespace, which Field turns into \s, and     *)
(* quantifiers are literals as far as the rules can tell.                  *)
(*                                                                         *)
(* BarsOnly, StoreNone, MalformedMessage and DeclaredFromZero are faults   *)
(* that the properties find.                                               *)
(***************************************************************************)
EXTENDS Integers, Sequences, FiniteSets, SequencesExt

CONSTANTS
    Tokens,    \* the tokens that targets are made of
    Groups,    \* the numbers given as the group of a Field
    ReprLimit, \* how much of a pattern its repr shows: 200
    Policy,    \* the observability policy of the bus: "SAFE" or "BEST_EFFORT"
    ParseFns,  \* what analyze is called with: "runner", the runner's parse;
               \*   "results", one that returns result.results; "raise", one
               \*   that raises DialectError when there are failures
    MaxTokens, \* bound: on the length of a target
    Longer,    \* bound: targets of these tokens alone are up to MaxLonger long
    MaxLonger,
    MaxFields  \* bound: on the fields of an extractor

Opening == {"(", "(?P<n>"}
Escaped == {"\\(", "\\)", "\\|", "\\[", "\\]"}

ASSUME DialectAssumption ==
    /\ Tokens \subseteq {"a", "b", ")", "|", "[", "]"} \cup Opening \cup Escaped
    /\ Groups \subseteq Int
    /\ ReprLimit \in Nat /\ MaxTokens \in Nat /\ MaxLonger \in Nat /\ MaxFields \in Nat
    /\ Longer \subseteq Tokens
    /\ Policy \in {"SAFE", "BEST_EFFORT"}
    /\ ParseFns \subseteq {"runner", "results", "raise"}

-----------------------------------------------------------------------------
(***************************************************************************)
(* How re reads a pattern.  The reader has a stack of open groups, each    *)
(* with its alternatives so far, under which lies the whole pattern; an    *)
(* alternative is a sequence of items.                                     *)
(***************************************************************************)
Literal(t) == [is |-> "literal", of |-> {t}, at |-> 0]
Group(n)   == [is |-> "group", of |-> {}, at |-> n]
ClassOf(S) == [is |-> IF \E t \in S \ {"(?P<n>"} : S = {t} THEN "literal" ELSE "class",
               of |-> S, at |-> 0]

Beginning ==
    [open |-> << << <<>> >> >>, class |-> "none", chars |-> {},
     groups |-> 0, named |-> FALSE, union |-> FALSE, error |-> "none"]

\* An alternation of single characters is read as a class; what all the
\* alternatives begin with has been moved out of them before.
Common(alts) ==
    LET shared(k) == \A i \in DOMAIN alts :
                         Len(alts[i]) >= k /\ SubSeq(alts[i], 1, k) = SubSeq(alts[1], 1, k)
    IN  CHOOSE k \in 0..Len(alts[1]) : shared(k) /\ ~shared(k + 1)

IsClass(alts) ==
    \A i \in DOMAIN alts : /\ Len(alts[i]) = Common(alts) + 1
                           /\ Last(alts[i]).is # "group"

BarsOnly(alts) == Len(alts) > 1
Branches(alts) == Len(alts) > 1 /\ ~IsClass(alts)

\* The walk over the tree finds a branch at any depth.
Walk(r, alts) == r.union \/ Branches(alts)

AddItem(r, item) ==
    LET d == Len(r.open)
        n == Len(r.open[d])
    IN  [r EXCEPT !.open[d][n] = Append(@, item)]

OpenGroup(r, t) ==
    IF t = "(?P<n>" /\ r.named THEN [r EXCEPT !.error = "redefinition"]
    ELSE [r EXCEPT !.open = Append(@, << <<>> >>),
                   !.groups = @ + 1,
                   !.named = @ \/ t = "(?P<n>"]

CloseGroup(r) ==
    IF Len(r.open) = 1 THEN [r EXCEPT !.error = "unbalanced parenthesis"]
    ELSE AddItem([r EXCEPT !.open = Front(@), !.union = Walk(r, Last(r.open))],
                 Group(r.groups))

InClass(r, t) ==
    IF t = "]" /\ r.class = "inside"
    THEN [AddItem(r, ClassOf(r.chars)) EXCEPT !.class = "none", !.chars = {}]
    ELSE [r EXCEPT !.class = "inside", !.chars = @ \cup {t}]

ReadToken(r, t) ==
    IF r.error # "none" THEN r
    ELSE IF r.class # "none" THEN InClass(r, t)
    ELSE IF t \in Opening THEN OpenGroup(r, t)
    ELSE IF t = ")" THEN CloseGroup(r)
    ELSE IF t = "|" THEN [r EXCEPT !.open[Len(r.open)] = Append(@, <<>>)]
    ELSE IF t = "[" THEN [r EXCEPT !.class = "start"]
    ELSE AddItem(r, Literal(t))

AtEnd(r) ==
    IF r.error # "none" THEN r
    ELSE IF r.class # "none" THEN [r EXCEPT !.error = "unterminated character set"]
    ELSE IF Len(r.open) > 1 THEN [r EXCEPT !.error = "unterminated subpattern"]
    ELSE [r EXCEPT !.union = Walk(r, r.open[1])]

Reading(s) ==
    LET upto[i \in 0..Len(s)] ==
            IF i = 0 THEN Beginning ELSE ReadToken(upto[i - 1], s[i])
    IN  upto[Len(s)]

Read(s) == AtEnd(Reading(s))

-----------------------------------------------------------------------------
(***************************************************************************)
(* ValidateRule.  The rule on unions reads str(rule), that is              *)
(* re.compile('...') with the repr of the pattern in it: a backslash comes *)
(* out as two, which is a literal backslash, and leaves the character      *)
(* behind it bare; and the repr is cut off.                                *)
(***************************************************************************)
Spelled(t) ==
    CASE t = "\\(" -> <<"\\\\", "(">>
      [] t = "\\)" -> <<"\\\\", ")">>
      [] t = "\\|" -> <<"\\\\", "|">>
      [] t = "\\[" -> <<"\\\\", "[">>
      [] t = "\\]" -> <<"\\\\", "]">>
      [] OTHER     -> <<t>>

Quoted(s) == <<"'">> \o FlattenSeq([i \in DOMAIN s |-> Spelled(s[i])]) \o <<"'">>

Shown(s) ==
    LET q == Quoted(s)
    IN  <<"re.compile", "(">> \o SubSeq(q, 1, IF Len(q) < ReprLimit THEN Len(q) ELSE ReprLimit)
            \o <<")">>

MalformedMessage(error) == error

\* MSG_TO_ERROR: the kind for a message of re; the loop leaves UNKNOWN for one
\* that it does not list.
Malformed(error) ==
    CASE error = "unterminated character set" -> "UNTERMINATED_CHARACTER_CLASS"
      [] error = "unterminated subpattern"    -> "UNTERMINATED_GROUP"
      [] OTHER                                -> "UNKNOWN"

OutOfBound(group, groups) == group > groups

UnionKind(s) ==
    LET r == Read(Shown(s))
    IN  IF r.error # "none" THEN "re.error"
        ELSE IF r.union THEN "UNION_FORBIDDEN"
        ELSE "accepted"

Validate(s, group) ==
    LET r == Read(s)
    IN  IF r.error # "none" THEN Malformed(r.error)
        ELSE IF r.groups = 0 THEN "MISSING_GROUP"
        ELSE IF OutOfBound(group, r.groups) THEN "OUT_OF_BOUND_GROUP"
        ELSE IF r.named THEN "NAMED_GROUP_FORBIDDEN"
        ELSE UnionKind(s)

-----------------------------------------------------------------------------
VARIABLES
    target,   \* the target that the client writes
    verdict,  \* what the last Field() on it gave
    fields,   \* the groups of the fields made on it
    at,       \* the field that parse() comes to next, or 0
    results,  \* result.results
    failures, \* result.failures: the fields in it, with the kind
    ended,    \* how parse() has ended
    messages, \* Diagnostics.messages: what each says, and of which fields or groups
    report    \* how analyze() has ended

parsing == <<at, results, failures, ended>>
diagnosis == <<messages, report>>
vars == <<target, verdict, fields, parsing, diagnosis>>

Kinds == {"NO_MATCH", "INCOMPATIBLE_JSON_TYPE"}
Advice == {"union", "many matched", "too few matched", "matched", "not matched"} \cup Kinds

\* A message is about fields, or about groups of the target.
Message == (Advice \X SUBSET DOMAIN fields) \cup ({"unconsumed"} \X SUBSET DOMAIN target)

TypeOK ==
    /\ target \in Seq(Tokens)
    /\ verdict \in {"none", "accepted", "re.error", "UNTERMINATED_CHARACTER_CLASS",
                    "UNTERMINATED_GROUP", "UNKNOWN", "MISSING_GROUP", "OUT_OF_BOUND_GROUP",
                    "NAMED_GROUP_FORBIDDEN", "UNION_FORBIDDEN"}
    /\ fields \in Seq(Groups)
    /\ at \in 0..Len(fields) + 1
    /\ results \subseteq DOMAIN fields
    /\ failures \in Seq((DOMAIN fields) \X Kinds)
    /\ ended \in {"no", "returned", "raised"}
    /\ messages \in Seq(Message)
    /\ report \in {"no", "returned", "raised"}

Init ==
    /\ target = <<>> /\ verdict = "none" /\ fields = <<>>
    /\ at = 0 /\ results = {} /\ failures = <<>> /\ ended = "no"
    /\ messages = <<>> /\ report = "no"

\* The client goes on writing, as long as there is something to be made of it.
Write(t) ==
    /\ verdict = "none"
    /\ Len(target) < IF ToSet(target) \cup {t} \subseteq Longer THEN MaxLonger ELSE MaxTokens
    /\ Reading(target).error = "none"
    /\ target' = Append(target, t)
    /\ UNCHANGED <<verdict, fields, parsing, diagnosis>>

\* Field(): compile and validate; a target that does not pass raises, and so
\* does an empty one before.
Declare(group) ==
    /\ at = 0 /\ Len(fields) < MaxFields /\ target # <<>>
    /\ verdict' = Validate(target, group)
    /\ fields' = IF verdict' = "accepted" THEN Append(fields, group) ELSE fields
    /\ UNCHANGED <<target, parsing, diagnosis>>

-----------------------------------------------------------------------------
(***************************************************************************)
(* RExtractorRunner.parse, one field after the other.                      *)
(***************************************************************************)
Parse ==
    /\ at = 0 /\ fields # <<>>
    /\ at' = 1
    /\ UNCHANGED <<target, verdict, fields, results, failures, ended, diagnosis>>

StoreNone == /\ failures' = Append(failures, <<at, "NO_MATCH">>)
             /\ results' = results \cup {at}

\* The rule does not match, or its group took no part in the match.
NoMatch == /\ failures' = Append(failures, <<at, "NO_MATCH">>)
           /\ UNCHANGED results

\* m.group raises IndexError for a number that no group can have.
NoSuchGroup(group) == group < 0

CastFailure == Append(failures, <<at, "INCOMPATIBLE_JSON_TYPE">>)

ParseField ==
    /\ at \in DOMAIN fields /\ ended = "no"
    /\ \/ /\ NoMatch
          /\ at' = at + 1
          /\ UNCHANGED ended
       \/ /\ NoSuchGroup(fields[at])
          /\ ended' = "raised"
          /\ UNCHANGED <<at, results, failures>>
       \/ /\ ~NoSuchGroup(fields[at])
          /\ results' = results \cup {at}
          /\ at' = at + 1
          /\ UNCHANGED <<failures, ended>>
       \* the value is not of the declared type: the failure is noted and then
       \* reported on the bus, which raises under the SAFE policy
       \/ /\ ~NoSuchGroup(fields[at])
          /\ failures' = CastFailure
          /\ IF Policy = "SAFE"
             THEN ended' = "raised" /\ UNCHANGED at
             ELSE at' = at + 1 /\ UNCHANGED ended
          /\ UNCHANGED results
    /\ UNCHANGED <<target, verdict, fields, diagnosis>>

Return ==
    /\ at > Len(fields) /\ at > 0 /\ ended = "no"
    /\ ended' = "returned"
    /\ UNCHANGED <<target, verdict, fields, at, results, failures, diagnosis>>

-----------------------------------------------------------------------------
(***************************************************************************)
(* Diagnostics.analyze, over fields that share one target.  A message is   *)
(* what it says, with the fields, or the groups, that it is about.         *)
(***************************************************************************)
PerField(what, S) ==
    FlattenSeq([i \in DOMAIN fields |-> IF i \in S THEN << <<what, {i}>> >> ELSE <<>>])

\* A bar anywhere in the text of the pattern: escaped, in a class, or a union.
UnionIsBadPractice ==
    PerField("union", {i \in DOMAIN fields : \E j \in DOMAIN target : target[j] \in {"|", "\\|"}})

DeclaredFromZero(n) == 0..n - 1
Declared(n) == 1..n

GroupIsNotConsumed ==
    LET diff == Declared(Read(target).groups) \ ToSet(fields)
    IN  IF diff = {} THEN <<>> ELSE << <<"unconsumed", diff>> >>

MultiGroup == {i \in DOMAIN fields : Read(target).groups > 1}

\* Only for targets of one group each: one message for each failure.
DidNotMatchOrFailed ==
    IF MultiGroup # {} THEN <<>> ELSE [k \in DOMAIN failures |-> <<failures[k][2], {failures[k][1]}>>]

MultipleMatched(found) ==
    IF Cardinality(found) < 2 \/ Len(fields) < 2 THEN <<>> ELSE << <<"many matched", found>> >>

TooFewMatches ==
    IF Len(fields) > 1 THEN << <<"too few matched", {failures[k][1] : k \in DOMAIN failures}>> >>
    ELSE <<>>

MultiGroupMatched(found) == IF found # {} THEN PerField("matched", MultiGroup) ELSE <<>>
MultiGroupNotMatched(found) == IF found = {} THEN PerField("not matched", MultiGroup) ELSE <<>>

\* What parse raises goes through, unless it is a DialectError, whose failures
\* stand for results that are empty.  The runner returns an ExtractionResult:
\* it has no length, so that the fourth diagnosis raises TypeError.
Analyze(fn) ==
    LET error == fn = "raise" /\ failures # <<>>
        found == IF error THEN {} ELSE results
        first == UnionIsBadPractice \o GroupIsNotConsumed
    IN  /\ ended # "no" /\ report = "no"
        /\ \/ ended = "raised" /\ report' = "raised" /\ UNCHANGED messages
           \/ ended = "returned" /\ fn = "runner" /\ report' = "raised" /\ messages' = first
           \/ /\ ended = "returned" /\ fn # "runner"
              /\ report' = "returned"
              /\ messages' = first \o (IF error THEN DidNotMatchOrFailed ELSE <<>>)
                                   \o MultipleMatched(found)
                                   \o (IF error THEN TooFewMatches ELSE <<>>)
                                   \o MultiGroupMatched(found) \o MultiGroupNotMatched(found)
        /\ UNCHANGED <<target, verdict, fields, parsing>>

Next ==
    \/ \E t \in Tokens : Write(t)
    \/ \E g \in Groups : Declare(g)
    \/ Parse \/ ParseField \/ Return
    \/ \E fn \in ParseFns : Analyze(fn)

Spec == Init /\ [][Next]_vars

-----------------------------------------------------------------------------
(***************************************************************************)
(* What the rules say of a target without backslashes and classes, position *)
(* by position.                                                            *)
(***************************************************************************)
Depth(s, i) ==
    LET opened == {j \in 1..i : s[j] \in Opening}
        closed == {j \in 1..i : s[j] = ")"}
    IN  Cardinality(opened) - Cardinality(closed)

WellFormed(s) ==
    /\ \A i \in DOMAIN s : Depth(s, i) >= 0
    /\ Depth(s, Len(s)) = 0
    /\ Cardinality({i \in DOMAIN s : s[i] = "(?P<n>"}) <= 1

\* The brackets at o and c and the bars between them, and what lies between one
\* of these and the next: the alternatives of a group that has no group in it.
Edges(s, o, c) == {o, c} \cup {j \in o..c : s[j] = "|"}

Alternatives(s, o, c) ==
    {p \in Edges(s, o, c) \X Edges(s, o, c) :
        p[1] < p[2] /\ \A j \in Edges(s, o, c) : ~(p[1] < j /\ j < p[2])}

\* The group from o to c has characters and bars only, and its alternatives are
\* of one length and differ in the last character alone.
OfCharacters(s, o, c) ==
    LET alts == Alternatives(s, o, c)
    IN  /\ \A j \in o + 1..c - 1 : s[j] \in {"a", "b", "|"}
        /\ \E n \in 0..c - o : /\ \A p \in alts : p[2] - p[1] = n + 2
                          /\ \A p, q \in alts, k \in 1..n : s[p[1] + k] = s[q[1] + k]
        /\ \E p, q \in alts : s[p[2] - 1] # s[q[2] - 1]

Acceptable(s, group) ==
    /\ WellFormed(s)
    /\ \E i \in DOMAIN s : s[i] = "("
    /\ \A i \in DOMAIN s : s[i] # "(?P<n>"
    /\ \A i \in DOMAIN s : s[i] = "|" =>
           \E o \in 1..i - 1, c \in i + 1..Len(s) :
               s[o] \in Opening /\ s[c] = ")" /\ OfCharacters(s, o, c)
    /\ group <= Cardinality({i \in DOMAIN s : s[i] = "("})

Plain(s) ==
    /\ \A i \in DOMAIN s : s[i] \notin Escaped \cup {"[", "]"}
    /\ Len(s) + 2 <= ReprLimit

\* A plain target is accepted exactly when it is well formed, has the group that
\* is asked for, no names and no union but one that re reads as a class of
\* characters, although the rule on unions never sees the target itself.
PlainJudged ==
    verdict = "none" /\ Plain(target) =>
        \A g \in Groups : Validate(target, g) = "accepted" <=> Acceptable(target, g)

\* When parse() returns, each field has its value or its failure, once.
EveryFieldAnswered ==
    ended = "returned" => \A i \in DOMAIN fields :
        Cardinality({j \in DOMAIN failures : failures[j][1] = i}) = IF i \in results THEN 0 ELSE 1

\* The groups that analyze reports are those of the target, counted by their
\* parentheses, that no field takes: none is reported beside the ones there are,
\* and none that is ignored is passed over.
GroupsReported ==
    report = "returned" /\ Plain(target) =>
        UNION {m[2] : m \in {x \in ToSet(messages) : x[1] = "unconsumed"}}
            = (1..Cardinality({i \in DOMAIN target : target[i] = "("})) \ ToSet(fields)

=============================================================================
