CONSTANTS
    N = 2
    MaxFaults = 1
    Scenario = {"counter_basic", "dex_mixed", "parallel_probe", "transfer_fanout", "contract_heavy"}
    Resolution = {"serial", "concurrent"}
    ReceiptWorkers = 1
    Shuffle <- MCShuffle
SPECIFICATION Spec
INVARIANTS ExecutedOnce  StreamAdmitted
PROPERTIES RebroadcastInOrder
