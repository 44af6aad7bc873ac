\* A cancelled asyncio task whose worker thread still waits for a semaphore.
SPECIFICATION Spec
CONSTANTS
    c1 = c1  c2 = c2  c3 = c3
    pA = pA  pB = pB
    llm = llm  embedding = embedding
    Calls = {c1, c2}
    Kinds = {llm}
    Projects = {pA}
    KindOf <- AllLLM
    ProjectOf <- OneProject
    GlobalCap <- Ones
    ProjectCap <- Ones
    PollLimit = 1
    Killable = {c1}
INVARIANT
    SlotsReturned
CHECK_DEADLOCK FALSE
