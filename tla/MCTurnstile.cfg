SPECIFICATION Spec
CONSTANTS
    Threads = {s0, s1, s2, decoder}
    TicketMod = 5
INVARIANTS OneHolder TicketsInOrder
PROPERTIES EveryTicketServed ImplementsQueue
