-------------------------------- MODULE ReadSide -------------------------------
(* What a reader of the API sees while the workers write: lists that are read   *)
(* page by page (feedback of an agent, the wallets that gave it, the agent and   *)
(* wallet rankings) and the rising stars of several chains, read per chain at     *)
(* once and merged. A page is one query; nothing holds the pages together. Reads   *)
(* change nothing, so a behaviour has one, and only what it reads is written.     *)
EXTENDS Naturals, Sequences, FiniteSets, FiniteSetsExt, SequencesExt, Functions

CONSTANTS Reviewers,      \* wallets, numbers: their order is that of the addresses
          Chains,       \* chains, numbers in the order of the request
          Agents,       \* agents
          ChainOf,      \* agent -> chain
          Lists,        \* lists that are read: records [kind, ...]
          Limit,        \* rows of a page
          Stars,        \* rows of the rising stars
          Levels,       \* scores and trusts: numbers
          Deltas,       \* deltas: numbers
          Cent,         \* what a delta is rounded to, 0.01, in the unit of Deltas
          MaxFeedback,      \* bound: feedback given
          MaxPages,     \* bound: pages of a reader
          MaxDisturbs     \* bound: other writes

ASSUME ReadAssumption ==
    /\ Reviewers \subseteq Nat /\ Chains \subseteq Nat /\ Levels \subseteq Nat
    /\ Deltas \subseteq Nat /\ Cent \in Nat \ {0}
    /\ IsFiniteSet(Reviewers) /\ IsFiniteSet(Chains) /\ IsFiniteSet(Agents)
    /\ ChainOf \in [Agents -> Chains]
    /\ \A list \in Lists : list.kind = "wallets" => list.chains \subseteq Chains
    /\ {Limit, Stars} \subseteq Nat \ {0} /\ {MaxFeedback, MaxPages, MaxDisturbs} \subseteq Nat

VARIABLES feedback,         \* feedback of one agent, in the order of block and log index
          wallets,      \* <<client, chain>> -> trust, or 0 while it is not rated
          scoreStats,        \* agent -> score and delta in agent_score_stats
          scores,       \* agent -> its copy of the score in agents
          reader,       \* the reader of a list; its list says what is written
          stars,        \* a request of the rising stars
          writes        \* writes so far

readVars == <<feedback, wallets, scoreStats, scores, reader, stars, writes>>

-------------------------------------------------------------------------------
(* The queries. Each list is a set of documents and the orders its sort allows: *)
(* where the sort has no last key, the database may answer in any of several.   *)

Orders(S, Before(_, _)) ==
    {s \in SetToSeqs(S) : \A i, j \in DOMAIN s : i < j => ~Before(s[j], s[i])}

\* buildFeedbackQuery. No row has the field vi, so "anomalous" finds nothing.
Matches(list, i) ==
    /\ list.category \in {"", feedback[i].category}
    /\ CASE list.status = "revoked" -> feedback[i].revoked
         [] list.status = "accepted" -> ~feedback[i].revoked /\ feedback[i].category # "junk"
         [] list.status = "junk" -> feedback[i].category = "junk"
         [] list.status = "anomalous" -> FALSE
         [] OTHER -> TRUE

\* ListFiltered; SortDesc or not.
FeedbackOrders(list) ==
    Orders({i \in DOMAIN feedback : Matches(list, i)}, LAMBDA i, j : IF list.desc THEN i > j ELSE i < j)

\* ListPenalties: rows with a low vi, which no row has, and revoked ones.
PenaltyOrders(list) ==
    Orders({i \in DOMAIN feedback : list.mode # "fail" /\ feedback[i].revoked}, LAMBDA i, j : i > j)

\* ListDistinctClientsByAgent: the last to give feedback first.
LastGiven(c) == Max({i \in DOMAIN feedback : feedback[i].client = c})
ClientOrders ==
    Orders({feedback[i].client : i \in DOMAIN feedback},
           LAMBDA c, d : feedback[LastGiven(c)].at > feedback[LastGiven(d)].at)

\* ListRatedRanking: a wallet counts with its best trust on the chains asked for.
Trusts(list, c) == {wallets[<<c, ch>>] : ch \in list.chains} \ {0}
BetterWallet(list, c, d) ==
    \/ Max(Trusts(list, c)) > Max(Trusts(list, d))
    \/ Max(Trusts(list, c)) = Max(Trusts(list, d)) /\ c < d
WalletOrders(list) ==
    Orders({c \in Reviewers : Trusts(list, c) # {}}, LAMBDA c, d : BetterWallet(list, c, d))

\* FindLeaderboard: sorted by the copy of the score in agents and nothing else.
AgentOrders(list) ==
    Orders({a \in Agents : ChainOf[a] \in list.chains},
           LAMBDA a, b : IF list.sort = "score_desc" THEN scores[a] > scores[b]
                         ELSE scores[a] < scores[b])

ListOrders(list) ==
    CASE list.kind = "feedbacks" -> FeedbackOrders(list)
      [] list.kind = "penalties" -> PenaltyOrders(list)
      [] list.kind = "clients" -> ClientOrders
      [] list.kind = "wallets" -> WalletOrders(list)
      [] list.kind = "agents" -> AgentOrders(list)

\* Leaderboard.List drops what is below MinScore from the page it has read; the
\* score that is shown and compared is that of agent_score_stats.
Shown(list, a) == scoreStats[a].score >= list.minScore

Lesser(m, n) == IF m < n THEN m ELSE n

\* Mutant of SkipOf: pages counted from 0.
MutSkipOf(page) == page * Limit
\* ParsePagination: pages are counted from 1.
SkipOf(page) == (page - 1) * Limit

-------------------------------------------------------------------------------
\* What a list reads: rows, wallets or scores. The rising stars are a list too.
Reads(collection) ==
    collection = CASE reader.list.kind \in {"feedbacks", "penalties", "clients"} -> "rows"
                   [] reader.list.kind = "wallets" -> "wallets"
                   [] OTHER -> "scores"

ReadInit ==
    /\ feedback = <<>> /\ writes = 0 /\ stars = [pc |-> "idle"]
    /\ reader \in [pc : {"idle"}, list : Lists]
    /\ wallets = [x \in Reviewers \X Chains |-> 0]
    /\ scoreStats = [a \in Agents |-> [score |-> 0, delta |-> 0]]
    /\ scores = [a \in Agents |-> 0]

\* Whatever is written while a read is under way is remembered with the read.
Disturb ==
    /\ writes' = writes + 1
    /\ reader' = IF reader.pc = "idle" THEN reader ELSE [reader EXCEPT !.quiet = FALSE]
    /\ stars' = IF stars.pc = "idle" THEN stars ELSE [stars EXCEPT !.quiet = FALSE]

\* The workers' writes, as the lists see them: the processor, feedback-others and the
\* score-refresh worker have modules of their own.
NewFeedback ==
    /\ Reads("rows") /\ Len(feedback) < MaxFeedback
    /\ \E c \in Reviewers, category \in {"quality", "others"} :
       \E at \in IF feedback = <<>> THEN {0} ELSE {Last(feedback).at, Last(feedback).at + 1} :
          feedback' = Append(feedback, [client |-> c, category |-> category, revoked |-> FALSE, at |-> at])
    /\ Disturb
    /\ UNCHANGED <<wallets, scoreStats, scores>>

RevokeRow ==
    /\ Reads("rows") /\ writes < MaxDisturbs
    /\ \E i \in DOMAIN feedback : ~feedback[i].revoked /\ feedback' = [feedback EXCEPT ![i].revoked = TRUE]
    /\ Disturb
    /\ UNCHANGED <<wallets, scoreStats, scores>>

Decide ==
    /\ Reads("rows") /\ writes < MaxDisturbs
    /\ \E i \in DOMAIN feedback : feedback[i].category = "others"
                              /\ feedback' = [feedback EXCEPT ![i].category = "quality"]
    /\ Disturb
    /\ UNCHANGED <<wallets, scoreStats, scores>>

RateWallet ==
    /\ Reads("wallets") /\ writes < MaxDisturbs
    /\ \E x \in DOMAIN wallets, t \in Levels \ {0} : wallets[x] # t /\ wallets' = [wallets EXCEPT ![x] = t]
    /\ Disturb
    /\ UNCHANGED <<feedback, scoreStats, scores>>

Rescore ==
    /\ Reads("scores") /\ writes < MaxDisturbs
    /\ \E a \in Agents, s \in Levels, d \in Deltas : scoreStats' = [scoreStats EXCEPT ![a] = [score |-> s, delta |-> d]]
    /\ Disturb
    /\ UNCHANGED <<feedback, wallets, scores>>

\* The score of agent_score_stats reaches the copy in agents later.
CopyScore ==
    /\ \E a \in Agents : scores[a] # scoreStats[a].score /\ scores' = [scores EXCEPT ![a] = scoreStats[a].score]
    /\ Disturb
    /\ UNCHANGED <<feedback, wallets, scoreStats>>

-------------------------------------------------------------------------------
(* Reading page after page. The reader is not part of the system: it goes on     *)
(* until a page has fewer documents than it asked for.                           *)

Open ==
    /\ reader.pc = "idle" /\ reader.list.kind # "stars"
    /\ reader' = [pc |-> "reading", list |-> reader.list, page |-> 1, seen |-> <<>>, quiet |-> TRUE,
                  base |-> UNION {Range(s) : s \in ListOrders(reader.list)}]
    /\ UNCHANGED <<feedback, wallets, scoreStats, scores, stars, writes>>

\* One query, and the rows of it that are shown.
NextPage ==
    /\ reader.pc = "reading" /\ reader.page <= MaxPages
    /\ \E order \in ListOrders(reader.list) :
       LET skip == SkipOf(reader.page)
           docs == SubSeq(order, skip + 1, Lesser(skip + Limit, Len(order)))
       IN  reader' = [reader EXCEPT
               !.page = @ + 1,
               !.pc = IF Len(docs) < Limit THEN "end" ELSE @,
               !.seen = @ \o IF reader.list.kind = "agents"
                             THEN SelectSeq(docs, LAMBDA a : Shown(reader.list, a)) ELSE docs]
    /\ UNCHANGED <<feedback, wallets, scoreStats, scores, stars, writes>>

-------------------------------------------------------------------------------
(* RisingStarsMulti.                                                             *)

AskStars ==
    /\ stars.pc = "idle" /\ reader.list.kind = "stars"
    /\ stars' = [pc |-> "reading", read |-> [c \in Chains |-> <<>>], left |-> Chains,
                 quiet |-> TRUE, rows |-> <<>>]
    /\ UNCHANGED <<feedback, wallets, scoreStats, scores, reader, writes>>

\* Mutant of ChainLimit: the rows are shared out between the chains.
MutChainLimit(chains) == Max({1, Stars \div Cardinality(chains)})
ChainLimit(chains) == Stars

\* round2: to the nearest hundredth.
Round2(d) == (d + Cent \div 2) \div Cent

\* FindByPeriodDelta: sorted by delta, as it is stored, and nothing else.
DeltaOrders(c) ==
    Orders({a \in Agents : ChainOf[a] = c}, LAMBDA a, b : scoreStats[a].delta > scoreStats[b].delta)

\* RisingStars of one chain, in a goroutine of its own: a row has the delta
\* rounded.
ReadChain ==
    /\ stars.pc = "reading"
    /\ \E c \in stars.left :
       \E order \in DeltaOrders(c) :
          LET top == SubSeq(order, 1, Lesser(ChainLimit(Chains), Len(order))) IN
          stars' = [stars EXCEPT
              !.left = @ \ {c},
              !.read[c] = [i \in 1..Len(top) |-> [id |-> top[i], delta |-> Round2(scoreStats[top[i]].delta)]]]
    /\ UNCHANGED <<feedback, wallets, scoreStats, scores, reader, writes>>

\* The rows of the chains one after the other: <<c, i>> is the i-th row of chain c.
AllStars == UNION {{c} \X DOMAIN stars.read[c] : c \in Chains}
DeltaOf(x) == stars.read[x[1]][x[2]].delta
\* They are sorted by the rounded delta, stably: rows with one delta stay as they
\* stood.
StarOrders ==
    Orders(AllStars, LAMBDA x, y : \/ DeltaOf(x) > DeltaOf(y)
                                   \/ DeltaOf(x) = DeltaOf(y) /\ x[1] < y[1]
                                   \/ DeltaOf(x) = DeltaOf(y) /\ x[1] = y[1] /\ x[2] < y[2])

\* Merged and cut.
MergeStars ==
    /\ stars.pc = "reading" /\ stars.left = {}
    /\ \E best \in StarOrders :
          stars' = [stars EXCEPT !.pc = "done",
                        !.rows = [n \in 1..Lesser(Stars, Len(best)) |-> stars.read[best[n][1]][best[n][2]]]]
    /\ UNCHANGED <<feedback, wallets, scoreStats, scores, reader, writes>>

ReadNext ==
    \/ NewFeedback \/ RevokeRow \/ Decide \/ RateWallet \/ Rescore \/ CopyScore
    \/ Open \/ NextPage
    \/ AskStars \/ ReadChain \/ MergeStars

ReadSpec == ReadInit /\ [][ReadNext]_readVars

-------------------------------------------------------------------------------
SeenIds == Range(reader.seen)

\* Lists that no document ever leaves: rows are only appended, and revoked for good.
Growing(list) == \/ list.kind = "penalties"
                 \/ list.kind = "feedbacks" /\ list.category = "" /\ list.status \in {"", "revoked"}

\* Whoever reads such a list to its end has seen every row that was in it at the
\* beginning, in either order, whatever was given, revoked or graded meanwhile; of
\* any list of feedback and of the wallet ranking, while it is not written, every
\* row exactly once (feedback/queries.go, wallet repo_ranking.go, dto/request.go).
\* The agent ranking and the list of clients have no last sort key: not of them.
PagesLoseNothing ==
    reader.pc = "end" /\ reader.list.kind \in {"feedbacks", "penalties", "wallets"} =>
        /\ Growing(reader.list) \/ reader.quiet => reader.base \subseteq SeenIds
        /\ reader.quiet => IsInjective(reader.seen)

\* The rising stars merged from several chains are as good as one list, unless a
\* score was written between the queries (leaderboard.go: RisingStarsMulti): they
\* are as many as there can be, none twice, and sorted; none that was left out has
\* a larger delta than one that is shown, to the hundredth the rows are rounded to
\* and, within one chain, as it is stored.
StarsAreBest ==
    stars.pc = "done" /\ stars.quiet =>
        LET shown == {stars.rows[i].id : i \in DOMAIN stars.rows} IN
        /\ Cardinality(shown) = Len(stars.rows) /\ Len(stars.rows) = Lesser(Stars, Cardinality(Agents))
        /\ \A i, j \in DOMAIN stars.rows : i < j => stars.rows[i].delta >= stars.rows[j].delta
        /\ \A a \in Agents \ shown, i \in DOMAIN stars.rows :
              /\ Round2(scoreStats[a].delta) <= stars.rows[i].delta
              /\ ChainOf[a] = ChainOf[stars.rows[i].id] =>
                    scoreStats[a].delta <= scoreStats[stars.rows[i].id].delta
================================================================================
