CONSTANTS
  Txid = {1, 2, 3}
  Vout = {0, 1}
  Time = {1, 2}
  None = None
  Keychain = {"ext", "int"}
  Descriptor = {"d1", "d2"}
  Wildcard = {"d1"}
  BIP32_MAX_INDEX = 3
  Lookahead = 1
  PersistSpks = TRUE
  BridgeSpk <- MCBridge
  MaxOps = 3
  Spk <- MCSpk
  Block <- MCBlock
  DescriptorOf <- MCDescriptorOf
  TxOf <- MCTxOf
  Batches <- MCBatches
  Floating <- MCFloating
  Updates <- MCUpdates
SPECIFICATION Spec
INVARIANTS EncodingsAgree FreshAddressUnpaid LookaheadWatched
PROPERTIES ImplementsDurable
CHECK_DEADLOCK FALSE
