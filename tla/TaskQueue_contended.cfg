\* Three LLM calls of two projects, one global slot and one slot per project;
\* two of the three asyncio tasks may be cancelled at any time.
SPECIFICATION FairSpec
CONSTANTS
    c1 = c1  c2 = c2  c3 = c3
    pA = pA  pB = pB
    llm = llm  embedding = embedding
    Calls = {c1, c2, c3}
    Kinds = {llm}
    Projects = {pA, pB}
    KindOf <- AllLLM
    ProjectOf <- TwoProjects
    GlobalCap <- Ones
    ProjectCap <- Ones
    PollLimit = 1
    Killable = {c1, c3}
INVARIANTS
    TypeOK
    PermitsConserved
    GaugeWithinCapacity
    GaugesExact
PROPERTIES
    ImplementsGate
    EveryCallLeaves
CHECK_DEADLOCK FALSE
