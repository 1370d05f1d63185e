----------------------------- MODULE Enactment -----------------------------
(***************************************************************************)
(* What passed proposals do to the rest of the chain: their messages amend  *)
(* the constitution of x/gov or change the DAOs of x/coredaos, while        *)
(* accounts stake and vote.  A proposal is drafted against the constitution *)
(* of its day and executed, if it passes, against a later one.              *)
(*                                                                          *)
(* The life of a proposal up to its tally is the subject of Gov; here it is *)
(* open until it is either refused or passes.  Its messages run one by one  *)
(* in a cached context, within one step of the chain: no transaction comes  *)
(* in between.                                                              *)
(***************************************************************************)
EXTENDS CoreDaos, UnifiedDiff

CONSTANTS
    InitConstitution,   \* the constitution at genesis
    Targets,            \* texts the authors of amendments draft a patch to
    HandPatches,        \* patches they write by hand
    Context,            \* unchanged lines the client prints around a change
    Shapes,             \* the types of the messages of a proposal, in order
    MaxProposals,       \* bound on the proposals
    Texts, Patches      \* inputs of the properties of the patch algorithm

\* The messages that have an effect on the state modelled here, and the law.
MessageTypes == {"amendment", "law", "daos"}

ASSUME EnactmentAssumption ==
    /\ Targets \cup Texts \cup {InitConstitution} \subseteq Seq(STRING) \ {<<>>}
    /\ Shapes \subseteq {<<t>> : t \in MessageTypes} \cup (MessageTypes \X MessageTypes)
    /\ Context \in Nat \ {0}
    /\ MaxProposals \in Nat

VARIABLES
    constitution,     \* the stored text
    proposals,        \* id -> status and messages
    cache             \* the cached context while messages run, or NoCache

enactmentVars == <<constitution, proposals, cache>>
vars == <<daoParams, delegated, unbonding, checkedVoters, constitution, proposals, cache>>

Ids == 1 .. MaxProposals

NoProposal == [status |-> "none", msgs |-> <<>>]
NoCache == [id |-> 0]

EnactmentInit ==
    /\ CoreDaosInit
    /\ constitution = InitConstitution
    /\ proposals = [p \in Ids |-> NoProposal]
    /\ cache = NoCache

\* No proposal is being executed: transactions and other modules may run.
Idle == cache = NoCache

-----------------------------------------------------------------------------
(* Submission.                                                              *)

Amendment(patch) == [type |-> "amendment", patch |-> patch]
Law == [type |-> "law"]
UpdateDaos(params) == [type |-> "daos", params |-> params]

\* The patches an author may come up with now.
Drafts ==
    HandPatches \cup UNION {GenerateUnifiedDiff(constitution, text, Context) : text \in Targets}

\* The messages of a type.  ValidateBasic refuses a patch that does not parse.
Messages(type) ==
    CASE type = "amendment" -> {Amendment(patch) : patch \in {q \in Drafts : ParseUnifiedDiff(q)}}
      [] type = "law"       -> {Law}
      [] type = "daos"      -> {UpdateDaos(params) : params \in DaoParamSets}

\* The lists of messages a proposal may carry.
Singles == UNION {{<<m>> : m \in Messages(s[1])} : s \in {t \in Shapes : Len(t) = 1}}
Pairs   == UNION {Messages(s[1]) \X Messages(s[2]) : s \in {t \in Shapes : Len(t) = 2}}
Bundles == Singles \cup Pairs

Submit(p) ==
    /\ Idle
    /\ proposals[p] = NoProposal
    /\ \A q \in 1 .. p - 1 : proposals[q] # NoProposal
    /\ \E msgs \in Bundles :
          proposals' = [proposals EXCEPT ![p] = [status |-> "open", msgs |-> msgs]]
    /\ UNCHANGED <<constitution, cache, coreDaosVars>>

\* The proposal is dropped, rejected or vetoed.
Refuse(p) ==
    /\ Idle
    /\ proposals[p].status = "open"
    /\ proposals' = [proposals EXCEPT ![p].status = "refused"]
    /\ UNCHANGED <<constitution, cache, coreDaosVars>>

-----------------------------------------------------------------------------
(* Execution.                                                               *)

\* The tally passed proposal p: its messages run in a fresh cached context.
Pass(p) ==
    /\ Idle
    /\ proposals[p].status = "open"
    /\ cache' = [id |-> p, next |-> 1, constitution |-> constitution,
                 daoParams |-> daoParams]
    /\ UNCHANGED <<constitution, proposals, coreDaosVars>>

Executing == ~Idle /\ cache.next <= Len(proposals[cache.id].msgs)

Message == proposals[cache.id].msgs[cache.next]

\* ProposeConstitutionAmendment succeeds: the patch applies to the text as it is now.
ExecuteAmendment ==
    /\ Executing /\ Message.type = "amendment"
    /\ LET patched == ApplyUnifiedDiff(cache.constitution, Message.patch)
       IN  /\ patched.ok
           /\ cache' = [cache EXCEPT !.constitution = patched.result, !.next = @ + 1]
    /\ UNCHANGED <<constitution, proposals, coreDaosVars>>

\* ProposeLaw: "only a no-op for now".
ExecuteLaw ==
    /\ Executing /\ Message.type = "law"
    /\ cache' = [cache EXCEPT !.next = @ + 1]
    /\ UNCHANGED <<constitution, proposals, coreDaosVars>>

\* UpdateParams of x/coredaos succeeds.
ExecuteUpdateDaos ==
    /\ Executing /\ Message.type = "daos"
    /\ MayBecomeDaos(Message.params)
    /\ cache' = [cache EXCEPT !.daoParams = Message.params, !.next = @ + 1]
    /\ UNCHANGED <<constitution, proposals, coreDaosVars>>

\* The handler of the message returns an error.
HandlerFails ==
    \/ /\ Message.type = "amendment"
       /\ ~ApplyUnifiedDiff(cache.constitution, Message.patch).ok
    \/ /\ Message.type = "daos"
       /\ ~MayBecomeDaos(Message.params)

\* Mutant of Discard: the effects of the messages before the failing one are kept.
Discard_Written == constitution' = cache.constitution /\ daoParams' = cache.daoParams

\* The cached context is dropped.
Discard == UNCHANGED <<constitution, daoParams>>

ExecutionFails ==
    /\ Executing
    /\ HandlerFails
    /\ Discard
    /\ proposals' = [proposals EXCEPT ![cache.id].status = "failed"]
    /\ cache' = NoCache
    /\ UNCHANGED <<delegated, unbonding, checkedVoters>>

\* All messages have run: the cached context is written.
WriteCache ==
    /\ ~Idle
    /\ cache.next > Len(proposals[cache.id].msgs)
    /\ constitution' = cache.constitution
    /\ daoParams' = cache.daoParams
    /\ proposals' = [proposals EXCEPT ![cache.id].status = "passed"]
    /\ cache' = NoCache
    /\ UNCHANGED <<delegated, unbonding, checkedVoters>>

ProposalStep ==
    \/ \E p \in Ids : Submit(p) \/ Refuse(p) \/ Pass(p)
    \/ ExecuteAmendment \/ ExecuteLaw \/ ExecuteUpdateDaos
    \/ ExecutionFails
    \/ WriteCache

EnactmentNext ==
    \/ ProposalStep
    \/ /\ Idle
       /\ StakingStep \/ VoteStep
       /\ UNCHANGED enactmentVars

EnactmentSpec == EnactmentInit /\ [][EnactmentNext]_vars

-----------------------------------------------------------------------------
(* Properties *)

(***************************************************************************)
(* The patch algorithm, which walks the source once, line by line, does     *)
(* what the hunks say: it succeeds exactly if every hunk finds its text at  *)
(* its line, and then replaces the hunks and nothing else.  This is about   *)
(* the algorithm alone: the initial state stands for all.                   *)
(***************************************************************************)
PatchReplacesHunks == EnactmentInit =>
    \A src \in Texts \cup {constitution}, patch \in Patches :
       ParseUnifiedDiff(patch) /\ InOrder(patch) =>
          LET applied == ApplyUnifiedDiff(src, patch)
          IN  /\ applied.ok <=> Fits(src, patch)
              /\ applied.ok => applied.result = AsText(Patched(src, patch))

\* The drafts from one text to another are accepted and give the lines of the second.
\* The line break at the end is not part of a draft: it stays if the source has one.
DraftsApply(src, dst) ==
    ClientLines(src) # ClientLines(dst) =>
       \A patch \in GenerateUnifiedDiff(src, dst, Context) :
          LET applied == ApplyUnifiedDiff(src, patch)
          IN  applied.ok /\ applied.result = ClientLines(dst) \o FinalBreak(src)

(***************************************************************************)
(* The client and the chain agree: whatever amendments have made of the     *)
(* constitution, one that GenerateUnifiedDiff drafts from it now applies to *)
(* it and makes the text its author wants, up to the line break at the end, *)
(* whichever shortest script the library picks.  The text only changes when *)
(* a proposal has run.  The same for all the other texts, in the initial    *)
(* state like PatchReplacesHunks.                                           *)
(***************************************************************************)
DraftsApplyCleanly ==
    /\ Idle => \A text \in Targets : DraftsApply(constitution, text)
    /\ EnactmentInit => \A src, dst \in Texts : DraftsApply(src, dst)

\* How many lines x the message marks with + or -, if it amends the constitution.
Changes(msg, mark, x) ==
    IF msg.type # "amendment" THEN 0
    ELSE SumOver([i \in DOMAIN msg.patch |-> Occurrences(msg.patch[i].lines, Marked(mark, x))],
                 DOMAIN msg.patch)

\* The messages of a proposal together.
AllChanges(msgs, mark, x) ==
    SumOver([n \in DOMAIN msgs |-> Changes(msgs[n], mark, x)], DOMAIN msgs)

Passed == {p \in Ids : proposals[p].status = "passed"}

\* What the proposals that passed have changed.
Enacted(mark, x) ==
    SumOver([p \in Ids |-> AllChanges(proposals[p].msgs, mark, x)], Passed)

(***************************************************************************)
(* No amendment is lost and none is applied twice or in part: the           *)
(* constitution has the lines it began with, plus those the passed          *)
(* proposals insert, less those they delete, in whatever order proposals    *)
(* drafted from older texts are executed, and wherever their hunks apply.   *)
(* (An empty line may come and go with a text that becomes empty.)          *)
(***************************************************************************)
LinesAccountedFor ==
    LET lines == UNION {{t[i] : i \in DOMAIN t} : t \in Targets \cup {InitConstitution}}
    IN  \A x \in lines \ {EmptyLine} :
           Occurrences(constitution, x) + Enacted("-", x)
              = Occurrences(InitConstitution, x) + Enacted("+", x)

\* The stored text is never empty of lines, and execution keeps within the proposal.
EnactmentTypeOK ==
    /\ CoreDaosTypeOK
    /\ Len(constitution) > 0
    /\ \A p \in Ids :
          proposals[p].status \in {"none", "open", "refused", "failed", "passed"}
    /\ ~Idle => /\ cache.id \in Ids
                /\ proposals[cache.id].status = "open"
                /\ cache.daoParams \in DaoParams
=============================================================================
