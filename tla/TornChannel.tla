----------------------------- MODULE TornChannel -----------------------------
(***************************************************************************)
(* The channel with the accesses to its two offsets apart, in program      *)
(* order: shift_buffer() stores m_end_offset and then m_start_offset, with *)
(* the mutex, and get_available_read() loads them without it.              *)
(***************************************************************************)
EXTENDS Channel

VARIABLE loaded_end    \* m_end_offset as get_available_read() loaded it

tornVars == <<vars, loaded_end>>

TornInit == Init /\ loaded_end = 0

StoreEnd ==
    /\ wpc = "shift"
    /\ m_buffer' = Moved
    /\ m_end_offset' = m_end_offset - m_start_offset
    /\ wpc' = "store start"
    /\ UNCHANGED <<m_start_offset, totals, m_canceled, m_buffer_mutex, chunk,
                   reader, intact, loaded_end>>

StoreStart ==
    /\ wpc = "store start"
    /\ m_start_offset' = 0
    /\ wpc' = "fill"
    /\ UNCHANGED <<m_buffer, m_end_offset, totals, m_canceled, m_buffer_mutex,
                   chunk, reader, intact, loaded_end>>

LoadEnd ==
    /\ GetAvailable
    /\ loaded_end' = m_end_offset
    /\ rpc' = "load start"
    /\ UNCHANGED <<channel, m_buffer_mutex, worker, request, intact>>

LoadStart ==
    /\ rpc = "load start"
    /\ Found(loaded_end - m_start_offset)
    /\ loaded_end' = 0
    /\ UNCHANGED <<channel, m_buffer_mutex, worker, remaining_to_read, intact>>

TornWorker ==
    \/ StoreEnd \/ StoreStart
    \/ InWrite /\ UNCHANGED loaded_end

TornReader ==
    \/ LoadEnd \/ LoadStart
    \/ (InRead \/ Destructor) /\ UNCHANGED loaded_end

TornNext ==
    \/ TornWorker \/ TornReader
    \/ AtWill /\ UNCHANGED loaded_end

TornSpec ==
    /\ TornInit /\ [][TornNext]_tornVars
    /\ WF_tornVars(TornWorker) /\ WF_tornVars(TornReader)
=============================================================================
