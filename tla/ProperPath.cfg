CONSTANT MaxLen = 3
INIT Init
NEXT Next
INVARIANT ExportUrlNamesFile
INVARIANT FormLostIffMangled
