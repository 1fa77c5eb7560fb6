----------------------------- MODULE SendChecks -----------------------------
(***************************************************************************)
(* The checks of a send that look at how often the user sends and at what: *)
(* the rate limiter, then the block list.  The checks between them, bans   *)
(* and mutes, are in Moderation.                                           *)
(*                                                                         *)
(* All users send the same content in one behaviour: a match leaves the    *)
(* automaton as it is, so no send depends on the content of another.       *)
(***************************************************************************)
EXTENDS BlockList, RateLimiter

CONSTANT Contents   \* what is sent, a set of strings

ASSUME ContentAssumption == Contents \subseteq Seq(Char)

VARIABLES
    content,      \* the content of the sends
    autoReject,   \* whether a hit refuses the danmaku or flags it
    answer,       \* of the last send: "none", "too fast", "blocked",
                  \* "flagged", "approved"
    word,         \* the word it was blocked or flagged for, <<>> without one
    grants        \* history: times of the last two sends of a user that
                  \* the limiter let through

checkVars == <<content, autoReject, answer, word, grants>>
vars      == <<blockVars, limiterVars, checkVars>>

Init ==
    /\ BlockInit
    /\ LimiterInit
    /\ content \in Contents
    /\ autoReject \in BOOLEAN
    /\ answer = "none"
    /\ word = <<>>
    /\ grants = [u \in Users |-> <<>>]

\* The service is started before it is asked.
Build == buildACA /\ UNCHANGED <<limiterVars, checkVars>>

TimePasses == Built /\ Tick /\ UNCHANGED <<blockVars, checkVars>>

Refused(user) ==
    /\ TooFast(user)
    /\ answer' = "too fast"
    /\ word' = <<>>
    /\ UNCHANGED <<blockVars, limiterVars, content, autoReject, grants>>

\* The time of the send is recorded before the content is looked at, so a
\* blocked send counts for the limiter.
Checked(user) ==
    /\ Allow(user)
    /\ word' = CheckContent(content)
    /\ answer' = IF word' = <<>> THEN "approved"
                 ELSE IF autoReject THEN "blocked" ELSE "flagged"
    /\ grants' = [grants EXCEPT ![user] =
                    IF @ = <<>> THEN <<now>> ELSE <<Last(@), now>>]
    /\ UNCHANGED <<blockVars, content, autoReject>>

Send(user) == Built /\ (Refused(user) \/ Checked(user))

Next ==
    \/ Build
    \/ TimePasses
    \/ \E user \in Users : Send(user)

Spec == Init /\ [][Next]_vars

-----------------------------------------------------------------------------
(* Properties.                                                             *)

\* However the map was cleaned between them, two sends of a user that the
\* limiter let through are at least an interval apart.
RateRespected ==
    \A u \in Users : Len(grants[u]) = 2 => grants[u][2] - grants[u][1] >= Interval

\* What makes it so.  The map knows the last send of a user for as long as it
\* could hold up the next one: an entry the cleaning dropped was older than two
\* intervals, and grows older.
LimiterTypeOK ==
    /\ now \in Nat
    /\ DOMAIN lastTime \subseteq Users
    /\ grants \in [Users -> Seq(Nat)]
    /\ \A u \in DOMAIN lastTime : lastTime[u] \in Nat

MapKnows(u) ==
    grants[u] # <<>> =>
        /\ Last(grants[u]) <= now
        /\ Interval > 0 => IF u \in DOMAIN lastTime THEN lastTime[u] = Last(grants[u])
                           ELSE Last(grants[u]) < now - 2 * Interval

LimiterInv ==
    /\ LimiterTypeOK
    /\ \A u \in Users : Len(grants[u]) <= 2 /\ MapKnows(u)
    /\ RateRespected

\* Whatever the order in which buildACA met the children of the nodes, and
\* whatever the words have in common, a send is held exactly when the folded
\* content has a folded word of the list in it, and then for such a word: the
\* automaton and the trimming lose none and invent none.  What the folding
\* itself does not see is the matter of ZeroWidthHidesNothing.
VerdictIsRight ==
    answer \in {"approved", "blocked", "flagged"} =>
        /\ answer = "approved" <=> Hits(content) = {}
        /\ answer # "approved" => word \in Hits(content)

\* The test TestACAZeroWidth (service/moderation_test.go:120) says that a word
\* is still hit once the zero-width characters put into it are removed: no
\* send is approved whose content has a word when it is written without them.
ZeroWidthHidesNothing ==
    answer = "approved" => Hits(StripZeroWidth(content)) = {}

=============================================================================
