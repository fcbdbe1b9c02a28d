SPECIFICATION Spec
CONSTANTS
 NULL = NULL
 Readers = {r1, r2}
 Operators = {o1, o2}
 Commanded = {"fsm_tip", "oap_tilt", "focus"}
 MaxRequests = 2
 NoDevice = NoDevice
 Clients = {c1, c2, c3}
 Watchers = {w1}
 Connections = 2
 StatusConnections = 1
 MaxOpen = 3
 Nobody = Nobody
 InfoClients = {i1, i2}
 InfoAskers = {i2}
 InfoConnections = 2
 MaxSet = 2
 Named = {"Seeing_Mode", "Seeing_Mode_File"}
 NoName = NoName
 NoClient = NoClient
INVARIANTS ShownIsRight HomesWhatWasAsked SlotsHeld EntriesOwn
PROPERTY ServerAnswers
CHECK_DEADLOCK FALSE
