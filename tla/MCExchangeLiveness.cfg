\* Two exchanges, frames written in up to two pieces.
CONSTANTS
    MaxExchanges = 2
    Frame = 2
SPECIFICATION PromptSpec
PROPERTIES
    PromptCancel
    ExchangeReturns
\* The system stops after the last exchange.
CHECK_DEADLOCK FALSE
