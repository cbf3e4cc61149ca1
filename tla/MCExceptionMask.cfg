\* Every 7-bit exceptions argument, with and without the agent's bit.
SPECIFICATION Spec
INVARIANT TypeOK
INVARIANT ConversionComplete
