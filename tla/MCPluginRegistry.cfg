CONSTANTS
    whisper = whisper
    transcribe = transcribe
    dialog = dialog
    sign = sign
    m1 = m1
    misspelt = misspelt
    whisper_base = whisper_base
    other = other
    Name = {whisper, transcribe, dialog, sign}
    Type = {transcribe}
    DataName = {dialog}
    MethodName = {sign}
    Whisper = whisper
    Module = {m1, misspelt}
    PluginModule = {m1}
    Package = {m1}
    Processor = {whisper_base, other}
    WhisperBase = whisper_base
    MaxRegistrations = 2
SPECIFICATION RegistrySpec
VIEW View
INVARIANTS
    ConstructedOnce
PROPERTIES
    MissingIsNews
    PluginStays
