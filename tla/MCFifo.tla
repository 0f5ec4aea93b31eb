------------------------------- MODULE MCFifo -------------------------------
EXTENDS Fifo

\* Sizes relative to FIFO_DATA_SIZE = 1024: cat asks for 512, reader for 1024.
AllHalf == [r \in Readers |-> Size \div 2]
CatAndReader == CHOOSE f \in [Readers -> {Size \div 2, Size}] :
                  \E r, s \in Readers : f[r] # f[s]

\* The shell opens a pipe once for both of its ends; programs that open a
\* fifo by its name have an entry each.
OnePipe == [p \in Procs |-> "pipe"]
OwnFds  == [p \in Procs |-> p]
=============================================================================
