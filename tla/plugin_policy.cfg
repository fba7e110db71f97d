SPECIFICATION Spec
CONSTANTS
    bot = bot
    rival = rival
    fx = fx
    talk = talk
    swap = swap
    Plugins <- MCPlugins
    Bots <- MCBots
    Effects <- MCEffects
    Tools <- MCTools
    toolOf <- MCToolOf
    DepGraphs <- MCDepGraphs
    Audio = Audio
    None = None
    PlgMax = 2
    QueueMax = 1
    MaxLoads = 2
INVARIANT
    PolicyMapped
